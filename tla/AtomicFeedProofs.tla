-------------------------- MODULE AtomicFeedProofs --------------------------
(***************************************************************************)
(* One feed, its row changed in indivisible steps: the row keeps its type,   *)
(* the circuit breaker agrees with its counter in every reachable state, and *)
(* the status moves only along the edges of the lifecycle, for every         *)
(* threshold, duration, interval, jitter and clock skew; and two attempts    *)
(* are a configured interval apart, as long as a jitter is no larger than    *)
(* the backoff it is applied to.                                             *)
(*                                                                         *)
(* BreakerConsistent speaks of rows that exist; the inductive invariant      *)
(* asks the same of the placeholder row, so that creation and deletion need   *)
(* no case of their own.                                                    *)
(***************************************************************************)
EXTENDS AtomicFeed, FeedLifecycleProofs, FiniteSets, FiniteSetTheorems

Inv == TypeOK /\ BreakerSound(row)

\* The row create_feed inserts has a closed breaker and a clean record.
LEMMA NewFeedSound ==
  ASSUME NEW a \in Int, NEW b \in Int, NEW old
  PROVE  BreakerSound(NewFeed(a, b)) /\ StatusEdge(old, NewFeed(a, b))
BY LifecycleAssumption DEF BreakerSound, StatusEdge, NewFeed

\* The invariant holds before the feed is created.
LEMMA InvInit == Init => Inv
<1> SUFFICES ASSUME Init PROVE Inv
  OBVIOUS
<1>1. row \in Feed /\ BreakerSound(row)
  BY NewFeedType, NewFeedSound DEF Init
<1> QED BY <1>1, ClockAssumption DEF Init, Inv, TypeOK

\* Every step keeps the invariant and changes the status along an edge only.
LEMMA RowStep ==
  ASSUME Inv, [Next]_vars
  PROVE  /\ row' \in Feed /\ BreakerSound(row')
         /\ row'.status # row.status => StatusEdge(row, row')
<1> USE DEF Inv, TypeOK
<1>0. Readings \subseteq Int /\ 0..(clock + Skew) \subseteq Int /\ clock \in Int
  BY ClockAssumption DEF Readings
<1>1. CASE Create
  BY <1>0, <1>1, NewFeedType, NewFeedSound DEF Create
<1>2. CASE Delete
  BY <1>2, NewFeedType, NewFeedSound DEF Delete
<1>3. CASE Claim
  <2>1. PICK t \in Int : row' = Leased(row, t)
    BY <1>0, <1>3 DEF Claim
  <2>2. row' \in Feed
    BY <2>1, LeasedType
  <2>3. /\ row'.status = row.status /\ row'.last_error_code = row.last_error_code
        /\ row'.consecutive_failures = row.consecutive_failures
    BY <2>1 DEF Leased, Feed
  <2> QED BY <2>2, <2>3 DEF BreakerSound
<1>4. CASE Complete
  <2>1. PICK r \in Responses(row), weekly \in WeeklyCounts, jitter \in Jitters :
          row' = FetchOne(row, row.last_attempt_at, r, weekly, jitter)
    BY <1>4 DEF Complete
  <2>2. r \in Response /\ row.last_attempt_at \in Int
    BY ResponsesType DEF Feed
  <2>3. row' \in Feed
    BY <2>1, <2>2, FetchOneType
  <2>4. BreakerSound(row') /\ (row'.status # row.status => StatusEdge(row, row'))
    BY <2>1, FetchOneSound
  <2> QED BY <2>3, <2>4
<1>5. CASE Reactivate
  <2>1. PICK t \in Int : row' = Reactivated(row, t)
    BY <1>0, <1>5 DEF Reactivate
  <2>2. row' \in Feed
    BY <2>1, ReactivatedType
  <2>3. /\ row'.status = "active" /\ row'.consecutive_failures = 0
        /\ row'.last_error_code = "none"
    BY <2>1 DEF Reactivated, Feed
  <2> QED BY <2>2, <2>3, LifecycleAssumption DEF BreakerSound, StatusEdge
<1>6. CASE Abandon \/ Tick \/ UNCHANGED vars
  BY <1>6 DEF Abandon, Tick, vars
<1> QED BY <1>1, <1>2, <1>3, <1>4, <1>5, <1>6 DEF Next

\* The invariant is inductive.
LEMMA InvStep == Inv /\ [Next]_vars => Inv'
<1> SUFFICES ASSUME Inv, [Next]_vars PROVE Inv'
  OBVIOUS
<1>1. row' \in Feed /\ BreakerSound(row')
  BY RowStep
<1>2. stage' \in {"absent", "idle", "leased", "deleted"}
  BY DEF Inv, TypeOK, Next, Create, Delete, Claim, Complete, Abandon, Reactivate, Tick, vars
<1>3. clock' \in Nat /\ reactivations' \in 0..MaxReactivations
  BY ClockAssumption DEF Inv, TypeOK, Next, Tick, vars
<1> QED BY <1>1, <1>2, <1>3 DEF Inv, TypeOK, BreakerSound

\* feed_state.py, http.py, api.feeds: status, counter and error code of a feed
\* agree after any sequence of fetches, lost leases and reactivations.
THEOREM BreakerStaysConsistent == Spec => []BreakerConsistent
<1>1. Inv => BreakerConsistent
  BY DEF Inv, BreakerSound, BreakerConsistent
<1> QED BY <1>1, InvInit, InvStep, PTL DEF Spec

\* feed_state.py, http.py, api.feeds: a feed opens its breaker exactly at the
\* threshold, dies of a 410 or of a long silence with an open breaker, and
\* comes back with a clean record only.
THEOREM StatusMovesOnEvidence == Spec => LifecycleEdges
<1>1. Inv /\ [Next]_vars => [row'.status # row.status => StatusEdge(row, row')]_vars
  BY RowStep
<1> QED BY <1>1, InvInit, InvStep, PTL DEF Spec, LifecycleEdges, StatusEdge

\* models.Feed: whatever happens to a feed, its row stays a row of the table.
THEOREM FeedTyped == Spec => []TypeOK
<1>1. Inv => TypeOK
  BY DEF Inv
<1> QED BY <1>1, InvInit, InvStep, PTL DEF Spec
-----------------------------------------------------------------------------
(***************************************************************************)
(* The spacing of attempts.  A claim reads next_fetch_at, which the attempt  *)
(* before it wrote: SpacingInv carries the interval from the one to the     *)
(* other, through a completed attempt (the timer of policy.py) as well as     *)
(* an abandoned one (the lease).                                           *)
(***************************************************************************)

\* backoff_jitter_ratio is at most 1. config.py does not check it; above 1 the
\* backoff of a broken feed may lie in the past.
JitterWithinBackoff == \A j \in Jitters : j >= -100

SpacingInv ==
  (reactivations = 0 /\ row.last_attempt_at # Null /\ row.status # "dead") =>
     SpacedBy(row.next_fetch_at - row.last_attempt_at)

\* 2 ** excess is at least 1, and 1 when there is no excess.
LEMMA PowersOfTwo == 2^0 = 1 /\ \A n \in Nat : 2^n \in Nat /\ 2^n >= 1
<1>1. 2^0 = 1
  <2>1. Cardinality(SUBSET {}) = 2^Cardinality({}) /\ Cardinality({}) = 0
    BY FS_SUBSET, FS_EmptySet
  <2>2. SUBSET {} = {{}}
    OBVIOUS
  <2>3. Cardinality({{}}) = 1
    BY FS_Singleton
  <2> QED BY <2>1, <2>2, <2>3
<1>2. ASSUME NEW n \in Nat PROVE 2^n \in Nat /\ 2^n >= 1
  <2>1. IsFiniteSet(1..n) /\ Cardinality(1..n) = n
    BY FS_Interval
  <2>2. IsFiniteSet(SUBSET (1..n)) /\ Cardinality(SUBSET (1..n)) = 2^n
    BY <2>1, FS_SUBSET
  <2>3. SUBSET (1..n) # {}
    OBVIOUS
  <2>4. Cardinality(SUBSET (1..n)) \in Nat /\ Cardinality(SUBSET (1..n)) # 0
    BY <2>2, <2>3, FS_CardinalityType, FS_EmptySet
  <2> QED BY <2>2, <2>4
<1> QED BY <1>1, <1>2

\* compute_next_fetch_at, broken: the backoff never falls below the one at the
\* threshold, with the same jitter.
LEMMA BackoffGrows ==
  ASSUME NEW n \in Nat, n >= BrokenThreshold, NEW j \in Int, j >= -100
  PROVE  Backoff(n, j) >= Backoff(BrokenThreshold, j)
<1> DEFINE low == Smaller(BaseInterval, MaxBackoff)
           high == Smaller(BaseInterval * 2^(n - BrokenThreshold), MaxBackoff)
<1>1. n - BrokenThreshold \in Nat /\ 2^(n - BrokenThreshold) \in Nat /\ 2^(n - BrokenThreshold) >= 1
  BY PowersOfTwo, LifecycleAssumption
<1>2. ASSUME NEW b \in Nat, NEW p \in Nat, p >= 1 PROVE b * p >= b /\ b * p \in Nat
  <2>1. PICK q \in Nat : p = q + 1
    BY <1>2
  <2>2. b * p = b * q + b /\ b * q \in Nat
    BY <2>1
  <2> QED BY <2>2
<1>3. low \in Nat /\ high \in Nat /\ high >= low
  <2>1. BaseInterval * 2^(n - BrokenThreshold) >= BaseInterval /\ BaseInterval * 2^(n - BrokenThreshold) \in Nat
    BY <1>1, <1>2, LifecycleAssumption
  <2> QED BY <2>1, LifecycleAssumption DEF Smaller
<1>4. Backoff(BrokenThreshold, j) = low + (low * j) \div 100
  <2>1. BrokenThreshold - BrokenThreshold = 0 /\ Larger(0, 0) = 0
    BY LifecycleAssumption DEF Larger
  <2>2. BaseInterval * 1 = BaseInterval
    BY LifecycleAssumption
  <2> QED BY <2>1, <2>2, PowersOfTwo DEF Backoff
<1>5. Backoff(n, j) = high + (high * j) \div 100
  <2>1. Larger(0, n - BrokenThreshold) = n - BrokenThreshold
    BY <1>1 DEF Larger
  <2> QED BY <2>1 DEF Backoff
<1> HIDE DEF low, high
<1>6. PICK d \in Nat : high = low + d
  BY <1>3
<1>7. high * j = low * j + d * j /\ d * j >= -100 * d /\ d * j \in Int /\ low * j \in Int
  <2>1. PICK k \in Nat : j = k - 100
    BY <1>3
  <2>2. d * j = d * k - d * 100 /\ d * k \in Nat
    BY <2>1
  <2> QED BY <1>3, <1>6, <2>2
<1>8. ASSUME NEW x \in Int, NEW y \in Int, y >= -100 * d
      PROVE  (x + y) \div 100 >= x \div 100 - d
  BY <1>8
<1>9. (high * j) \div 100 >= (low * j) \div 100 - d
  BY <1>7, <1>8
<1> QED BY <1>3, <1>4, <1>5, <1>6, <1>7, <1>9

\* compute_next_fetch_at leaves one of the configured intervals between an
\* attempt and the next, unless the feed is dead.
LEMMA RescheduledSpaced ==
  ASSUME NEW feed \in Feed, NEW t \in Int, NEW weekly \in Nat, NEW hint \in Nat,
         NEW j \in Jitters, JitterWithinBackoff, feed.status # "dead",
         feed.status = "broken" => feed.consecutive_failures >= BrokenThreshold
  PROVE  SpacedBy(Rescheduled(feed, t, weekly, hint, j).next_fetch_at - t)
<1> DEFINE new == Rescheduled(feed, t, weekly, hint, j)
<1>1. new.next_fetch_at = ComputeNextFetchAt(feed, t, weekly, hint, j)
  BY DEF Rescheduled, Feed
<1>2. j \in Int /\ j >= -100 /\ feed.consecutive_failures \in Nat /\ BrokenThreshold \in Nat
  BY LifecycleAssumption DEF JitterWithinBackoff, Feed
<1> HIDE DEF new
<1>3. CASE feed.status = "broken"
  <2> DEFINE gap == Backoff(feed.consecutive_failures, j)
             least == Backoff(BrokenThreshold, j)
  <2>1. gap \in Int /\ least \in Int /\ gap >= least
    BY <1>2, <1>3, BackoffType, BackoffGrows
  <2>2. new.next_fetch_at = t + gap
    BY <1>1, <1>3 DEF ComputeNextFetchAt
  <2> HIDE DEF gap
  <2>3. new.next_fetch_at - t >= least
    BY <2>1, <2>2
  <2> QED BY <2>3 DEF SpacedBy, new
<1>4. CASE feed.status # "broken"
  <2> DEFINE gap == PollInterval(weekly, hint)
  <2>1. gap \in Int /\ (gap >= FrequencyMin \/ gap >= BaseInterval)
    BY LifecycleAssumption DEF PollInterval, Larger, Smaller
  <2>2. new.next_fetch_at = t + gap
    BY <1>1, <1>4 DEF ComputeNextFetchAt
  <2> HIDE DEF gap
  <2>3. new.next_fetch_at - t >= FrequencyMin \/ new.next_fetch_at - t >= BaseInterval
    BY <2>1, <2>2
  <2> QED BY <2>3 DEF SpacedBy, new
<1> QED BY <1>3, <1>4

\* fetch_one leaves one of the configured intervals after the attempt it makes,
\* whichever branch it takes.
LEMMA FetchOneSpaced ==
  ASSUME NEW feed \in Feed, BreakerSound(feed), NEW r \in Responses(feed),
         NEW weekly \in WeeklyCounts, NEW j \in Jitters, JitterWithinBackoff
  PROVE  LET new == FetchOne(feed, feed.last_attempt_at, r, weekly, j)
         IN  /\ new.last_attempt_at = feed.last_attempt_at
             /\ new.status # "dead" => SpacedBy(new.next_fetch_at - feed.last_attempt_at)
<1> DEFINE t == feed.last_attempt_at
           new == FetchOne(feed, t, r, weekly, j)
           tried == [feed EXCEPT !.last_attempt_at = t]
<1>1. tried = feed /\ t \in Int /\ weekly \in Nat /\ j \in Int
  BY LifecycleAssumption DEF Feed
<1>2. /\ r \in Response /\ r.hint \in Nat /\ r.code \in ErrorCode
      /\ r.validator \in BOOLEAN
      /\ r.kind \in {"success", "not_modified", "rate_limited", "failure"}
  <2>1. r \in Response
    BY ResponsesType, Zenon
  <2> QED BY <2>1, LifecycleAssumption DEF Response
<1>3. new \in Feed /\ BreakerSound(new)
  BY <1>1, <1>2, FetchOneType, FetchOneSound
<1>4. ASSUME NEW done \in Feed, NEW hint \in Nat, done.last_attempt_at = t,
             new = Rescheduled(done, t, weekly, hint, j)
      PROVE  new.last_attempt_at = t /\ (new.status # "dead" => SpacedBy(new.next_fetch_at - t))
  <2>1. /\ new.status = done.status /\ new.last_attempt_at = t
        /\ new.consecutive_failures = done.consecutive_failures
    <3> HIDE DEF new
    <3> QED BY <1>4 DEF Rescheduled, Feed
  <2>2. done.status = "broken" => done.consecutive_failures >= BrokenThreshold
    <3> HIDE DEF new
    <3> QED BY <1>3, <2>1 DEF BreakerSound
  <2> HIDE DEF new
  <2> QED BY <1>1, <1>4, <2>1, <2>2, RescheduledSpaced
<1>5. CASE r.kind = "success"
  <2> DEFINE done == OnSuccess(feed, t, r)
  <2>1. done \in Feed /\ done.last_attempt_at = t
    BY <1>1, <1>2 DEF OnSuccess, MarkFetchSuccess, Feed, FeedStatus, ErrorCode
  <2>2. new = Rescheduled(done, t, weekly, r.hint, j)
    BY <1>1, <1>5 DEF FetchOne
  <2> HIDE DEF done, new
  <2> QED BY <1>2, <1>4, <2>1, <2>2 DEF new
<1>6. CASE r.kind = "not_modified"
  <2> DEFINE done == OnNotModified(feed, t)
  <2>1. done \in Feed /\ done.last_attempt_at = t
    BY <1>1 DEF OnNotModified, Feed, FeedStatus, ErrorCode
  <2>2. new = Rescheduled(done, t, weekly, r.hint, j)
    BY <1>1, <1>6 DEF FetchOne
  <2> HIDE DEF done, new
  <2> QED BY <1>2, <1>4, <2>1, <2>2 DEF new
<1>7. CASE r.kind = "rate_limited"
  <2>1. new = OnRateLimited(feed, t, r.hint)
    BY <1>1, <1>7 DEF FetchOne
  <2>2. /\ new.last_attempt_at = t
        /\ new.next_fetch_at = t + Larger(r.hint, BaseInterval)
    BY <2>1 DEF OnRateLimited, Feed
  <2> HIDE DEF new
  <2>3. new.next_fetch_at - t >= BaseInterval
    BY <1>1, <1>2, <2>2, LifecycleAssumption DEF Larger
  <2> QED BY <2>2, <2>3 DEF SpacedBy, new
<1>8. CASE r.kind = "failure"
  <2> DEFINE done == MarkFetchFailure(feed, t, r.code)
  <2>1. done \in Feed
    BY <1>1, <1>2, MarkFetchFailureType
  <2>2. done.last_attempt_at = t
    BY DEF MarkFetchFailure, Feed
  <2>3. new = Rescheduled(done, t, weekly, 0, j)
    BY <1>1, <1>8 DEF FetchOne
  <2> HIDE DEF done, new
  <2> QED BY <1>4, <2>1, <2>2, <2>3 DEF new
<1> QED BY <1>2, <1>5, <1>6, <1>7, <1>8

\* Every step carries the spacing on.
LEMMA SpacingStep ==
  ASSUME JitterWithinBackoff, Inv, SpacingInv, [Next]_vars
  PROVE  SpacingInv'
<1> USE DEF SpacingInv
<1>0. /\ row \in Feed /\ BreakerSound(row) /\ clock \in Int /\ row.next_fetch_at \in Int
      /\ row.last_attempt_at \in Int /\ reactivations \in Nat
  BY ClockAssumption DEF Inv, TypeOK, Feed
<1>1. CASE Create \/ Delete
  <2>1. PICK a, b : row' = NewFeed(a, b)
    BY <1>1 DEF Create, Delete
  <2>2. row'.last_attempt_at = Null
    BY <2>1 DEF NewFeed
  <2> QED BY <2>2
<1>2. CASE Claim
  <2>1. PICK t \in Int : row' = Leased(row, t)
    BY <1>0, <1>2, ClockAssumption DEF Claim
  <2>2. row'.next_fetch_at - row'.last_attempt_at = ClaimTTL
    BY <1>0, <2>1, LifecycleAssumption DEF Leased, Feed
  <2>3. SpacedBy(row'.next_fetch_at - row'.last_attempt_at)
    BY <2>2, LifecycleAssumption DEF SpacedBy
  <2> QED BY <2>3 DEF SpacedBy
<1>3. CASE Complete
  <2>1. PICK r \in Responses(row), weekly \in WeeklyCounts, j \in Jitters :
          row' = FetchOne(row, row.last_attempt_at, r, weekly, j)
    BY <1>3 DEF Complete
  <2>2. row'.status # "dead" => SpacedBy(row'.next_fetch_at - row'.last_attempt_at)
    BY <1>0, <2>1, FetchOneSpaced
  <2> QED BY <2>2 DEF SpacedBy
<1>4. CASE Reactivate /\ reactivations' = reactivations + 1
  BY <1>0, <1>4
<1>5. CASE (Abandon /\ UNCHANGED <<clock, reactivations>>) \/ Tick \/ UNCHANGED vars
  BY <1>5 DEF Abandon, Tick, vars, SpacedBy
<1> QED BY <1>1, <1>2, <1>3, <1>4, <1>5 DEF Next

\* scheduler._claim_due_feeds, policy.py: two attempts on a feed nobody has
\* reactivated are an interval of the policy apart, or the probe interval once
\* the feed is dead, for every setting with a jitter ratio of at most 1.
THEOREM AttemptsAreSpaced ==
  ASSUME JitterWithinBackoff
  PROVE  Spec => ClaimsAreSpaced
<1> DEFINE gap == row'.last_attempt_at - row.last_attempt_at
           Spaced == (stage = "idle" /\ stage' = "leased" /\ row.last_attempt_at # Null
                        /\ reactivations = 0) =>
                       IF row.status = "dead" THEN gap > ProbeInterval ELSE SpacedBy(gap)
<1>1. Init => SpacingInv
  BY DEF Init, SpacingInv, NewFeed
<1>2. Inv /\ SpacingInv /\ [Next]_vars => SpacingInv'
  BY SpacingStep
<1>3. Inv /\ SpacingInv /\ [Next]_vars => [Spaced]_vars
  <2> SUFFICES ASSUME Inv, SpacingInv, Next, stage = "idle", stage' = "leased",
                      row.last_attempt_at # Null, reactivations = 0
               PROVE  IF row.status = "dead" THEN gap > ProbeInterval ELSE SpacedBy(gap)
    OBVIOUS
  <2>1. Claim
    BY DEF Next, Create, Delete, Complete, Abandon, Reactivate, Tick
  <2>2. /\ row \in Feed /\ clock \in Int
        /\ row.last_attempt_at \in Int /\ row.next_fetch_at \in Int
    BY DEF Inv, TypeOK, Feed
  <2>3. PICK t \in Int : Claimable(row, t) /\ row' = Leased(row, t)
    BY <2>1, <2>2, ClockAssumption DEF Claim
  <2>4. row'.last_attempt_at = t
    BY <2>2, <2>3 DEF Leased, Feed
  <2>5. CASE row.status = "dead"
    BY <2>2, <2>3, <2>4, <2>5, LifecycleAssumption DEF Claimable
  <2>6. CASE row.status # "dead"
    <3>1. gap \in Int /\ gap >= row.next_fetch_at - row.last_attempt_at
      BY <2>2, <2>3, <2>4, <2>6 DEF Claimable
    <3>2. PICK least \in {ClaimTTL, FrequencyMin, BaseInterval}
                           \cup {Backoff(BrokenThreshold, j) : j \in Jitters} :
            row.next_fetch_at - row.last_attempt_at >= least
      BY <2>6 DEF SpacingInv, SpacedBy
    <3>3. least \in Int
      BY <3>2, BackoffType, LifecycleAssumption
    <3> HIDE DEF gap
    <3>4. gap >= least
      BY <2>2, <3>1, <3>2, <3>3
    <3> QED BY <2>6, <3>2, <3>4 DEF SpacedBy
  <2> QED BY <2>5, <2>6
<1> QED BY <1>1, <1>2, <1>3, InvInit, InvStep, PTL DEF Spec, ClaimsAreSpaced
=============================================================================
