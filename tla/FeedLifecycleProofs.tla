------------------------ MODULE FeedLifecycleProofs -------------------------
(***************************************************************************)
(* What the handlers of FeedLifecycle do to a row, for every row and every  *)
(* setting: they keep its type, they keep the circuit breaker consistent    *)
(* with its counter, and they change the status only on the evidence the    *)
(* lifecycle asks for.  AtomicFeedProofs and SchedulerProofs rest on these   *)
(* lemmas.                                                                  *)
(***************************************************************************)
EXTENDS FeedLifecycle, TLAPS

\* The row create_feed inserts is a row of models.Feed.
LEMMA NewFeedType ==
  ASSUME NEW a \in Int, NEW b \in Int
  PROVE  NewFeed(a, b) \in Feed
BY DEF NewFeed, Feed, FeedStatus, ErrorCode, Null

\* The lease keeps the type of the row.
LEMMA LeasedType ==
  ASSUME NEW feed \in Feed, NEW t \in Int
  PROVE  Leased(feed, t) \in Feed
<1>1. t + ClaimTTL \in Int
  BY LifecycleAssumption
<1> QED BY <1>1 DEF Leased, Feed

\* reactivate_feed keeps the type of the row.
LEMMA ReactivatedType ==
  ASSUME NEW feed \in Feed, NEW t \in Int
  PROVE  Reactivated(feed, t) \in Feed
BY DEF Reactivated, Feed, FeedStatus, ErrorCode

\* fetch_one's try block ends in one of the modelled outcomes.
LEMMA ResponsesType ==
  ASSUME NEW feed, NEW r \in Responses(feed)
  PROVE  r \in Response
<1>1. 0 \in Hints
  BY LifecycleAssumption
<1>2. ASSUME NEW h \in Hints, NEW v \in BOOLEAN
      PROVE  Success(h, v) \in Response /\ RateLimited(h) \in Response /\ NotModified(h) \in Response
  BY DEF Response, Success, RateLimited, NotModified, ErrorCode
<1>3. Failure("http_410") \in Response /\ Failure("other") \in Response
  BY <1>1 DEF Response, Failure, ErrorCode
<1>4. r \in AnyResponse
  BY Zenon DEF Responses
<1>5. CASE r \in {Success(h, v) : h \in Hints, v \in BOOLEAN}
  <2>1. PICK h \in Hints, v \in BOOLEAN : r = Success(h, v)
    BY <1>5
  <2> QED BY <1>2, <2>1
<1>6. CASE r \in {NotModified(h) : h \in Hints} \cup {RateLimited(h) : h \in Hints}
  <2>1. PICK h \in Hints : r = NotModified(h) \/ r = RateLimited(h)
    BY <1>6
  <2> QED BY <1>2, <2>1
<1>7. CASE r \in {Failure(c) : c \in {"http_410", "other"}}
  BY <1>3, <1>7
<1> QED BY <1>4, <1>5, <1>6, <1>7 DEF AnyResponse

\* The broken branch of compute_next_fetch_at yields a duration.
LEMMA BackoffType ==
  ASSUME NEW n \in Nat, NEW j \in Int
  PROVE  Backoff(n, j) \in Int
BY LifecycleAssumption DEF Backoff, Larger, Smaller

\* The poll branch of compute_next_fetch_at yields a duration, also without any
\* entry in the last week.
LEMMA PollIntervalType ==
  ASSUME NEW n \in Nat, NEW h \in Nat
  PROVE  PollInterval(n, h) \in Int
BY LifecycleAssumption DEF PollInterval, Larger, Smaller

\* compute_next_fetch_at keeps the type of the row.
LEMMA RescheduledType ==
  ASSUME NEW feed \in Feed, NEW t \in Int, NEW weekly \in Nat, NEW hint \in Nat, NEW j \in Int
  PROVE  Rescheduled(feed, t, weekly, hint, j) \in Feed
<1>1. feed.consecutive_failures \in Nat
  BY DEF Feed
<1>2. ComputeNextFetchAt(feed, t, weekly, hint, j) \in Int
  BY <1>1, BackoffType, PollIntervalType DEF ComputeNextFetchAt
<1> QED BY <1>2 DEF Rescheduled, Feed

\* mark_fetch_failure keeps the type of the row on each of its transitions.
LEMMA MarkFetchFailureType ==
  ASSUME NEW feed \in Feed, NEW t \in Int, NEW code \in ErrorCode
  PROVE  MarkFetchFailure(feed, t, code) \in Feed
<1> DEFINE failures == feed.consecutive_failures + 1
           new == MarkFetchFailure(feed, t, code)
<1>1. failures \in Nat /\ feed.status \in FeedStatus
  BY DEF Feed
<1>2. \E s \in FeedStatus : new = [feed EXCEPT !.last_error_code = code,
                                              !.consecutive_failures = failures,
                                              !.status = s]
  BY <1>1, Zenon DEF MarkFetchFailure, FeedStatus
<1> QED BY <1>1, <1>2 DEF Feed

\* The 304 branch keeps the type of the row.
LEMMA OnNotModifiedType ==
  ASSUME NEW feed \in Feed, NEW t \in Int
  PROVE  OnNotModified(feed, t) \in Feed
<1>1. [feed EXCEPT !.last_successful_fetch_at = t] \in Feed
  BY DEF Feed
<1>2. ASSUME NEW seen \in Feed
      PROVE  [seen EXCEPT !.status = "active", !.consecutive_failures = 0,
                          !.last_error_code = "none"] \in Feed
  BY DEF Feed, FeedStatus, ErrorCode
<1> QED BY <1>1, <1>2 DEF OnNotModified

\* fetch_one keeps the type of the row in all four branches.
LEMMA FetchOneType ==
  ASSUME NEW feed \in Feed, NEW t \in Int, NEW r \in Response,
         NEW weekly \in WeeklyCounts, NEW j \in Jitters
  PROVE  FetchOne(feed, t, r, weekly, j) \in Feed
<1> DEFINE tried == [feed EXCEPT !.last_attempt_at = t]
<1>1. tried \in Feed
  BY DEF Feed
<1>2. /\ weekly \in Nat /\ j \in Int /\ r.hint \in Nat /\ r.code \in ErrorCode
      /\ r.validator \in BOOLEAN
      /\ r.kind \in {"success", "not_modified", "rate_limited", "failure"}
  BY LifecycleAssumption DEF Response
<1> HIDE DEF tried
<1>3. OnSuccess(tried, t, r) \in Feed
  BY <1>1, <1>2 DEF OnSuccess, MarkFetchSuccess, Feed, FeedStatus, ErrorCode
<1>4. OnNotModified(tried, t) \in Feed
  BY <1>1, OnNotModifiedType
<1>5. OnRateLimited(tried, t, r.hint) \in Feed
  <2>1. t + Larger(r.hint, BaseInterval) \in Int
    BY <1>2, LifecycleAssumption DEF Larger
  <2> QED BY <1>1, <2>1 DEF OnRateLimited, Feed, ErrorCode
<1>6. MarkFetchFailure(tried, t, r.code) \in Feed
  BY <1>1, <1>2, MarkFetchFailureType
<1> USE DEF tried
<1>7. CASE r.kind = "success"
  BY <1>2, <1>3, <1>7, RescheduledType DEF FetchOne
<1>8. CASE r.kind = "not_modified"
  BY <1>2, <1>4, <1>8, RescheduledType DEF FetchOne
<1>9. CASE r.kind = "rate_limited"
  BY <1>5, <1>9 DEF FetchOne
<1>10. CASE r.kind = "failure"
  BY <1>2, <1>6, <1>10, RescheduledType DEF FetchOne
<1> QED BY <1>2, <1>7, <1>8, <1>9, <1>10
-----------------------------------------------------------------------------
\* The breaker of a row agrees with its counter and its error code.
BreakerSound(feed) ==
  /\ feed.status = "active" => feed.consecutive_failures < BrokenThreshold
  /\ feed.status = "broken" => feed.consecutive_failures >= BrokenThreshold
  /\ feed.consecutive_failures > 0 => feed.last_error_code # "none"
  /\ feed.status = "dead" => feed.last_error_code # "none"

\* The evidence for a change of status from feed to new.
StatusEdge(feed, new) ==
  \/ /\ feed.status = "active" /\ new.status = "broken"
     /\ new.consecutive_failures = BrokenThreshold
     /\ SinceSuccess(new, new.last_attempt_at) < DeadDuration
  \/ /\ new.status = "dead"
     /\ \/ new.last_error_code = "http_410"
        \/ /\ new.consecutive_failures >= BrokenThreshold
           /\ SinceSuccess(new, new.last_attempt_at) >= DeadDuration
  \/ /\ new.status = "active"
     /\ new.consecutive_failures = 0
     /\ new.last_error_code = "none"

\* A failure of fetch_one always has a code of its own.
LEMMA FailuresAreNamed ==
  ASSUME NEW feed, NEW r \in Responses(feed), r.kind = "failure"
  PROVE  r.code \in {"http_410", "other"}
<1>1. r \in AnyResponse
  BY Zenon DEF Responses
<1>2. ASSUME NEW h, NEW v
      PROVE  /\ Success(h, v).kind # "failure" /\ NotModified(h).kind # "failure"
             /\ RateLimited(h).kind # "failure"
  BY DEF Success, NotModified, RateLimited
<1>3. r \in {Failure(c) : c \in {"http_410", "other"}}
  <2>1. r \notin {Success(h, v) : h \in Hints, v \in BOOLEAN}
    BY <1>2
  <2>2. r \notin {NotModified(h) : h \in Hints} /\ r \notin {RateLimited(h) : h \in Hints}
    BY <1>2
  <2> QED BY <1>1, <2>1, <2>2 DEF AnyResponse
<1>4. PICK c \in {"http_410", "other"} : r = Failure(c)
  BY <1>3
<1> QED BY <1>4 DEF Failure

\* mark_fetch_failure opens the breaker exactly at the threshold and closes a
\* feed's life on a 410 or with an open breaker and no recent success.
LEMMA MarkFetchFailureSound ==
  ASSUME NEW feed \in Feed, NEW t \in Int, NEW code \in ErrorCode \ {"none"},
         BreakerSound(feed), feed.last_attempt_at = t
  PROVE  LET new == MarkFetchFailure(feed, t, code)
         IN  /\ BreakerSound(new)
             /\ new.status # feed.status => StatusEdge(feed, new)
             /\ new.last_attempt_at = t
<1> DEFINE new == MarkFetchFailure(feed, t, code)
           failures == feed.consecutive_failures + 1
           broken == feed.status = "broken"
                       \/ (feed.status = "active" /\ failures >= BrokenThreshold)
           expired == broken /\ SinceSuccess(feed, t) >= DeadDuration
<1>1. /\ feed.consecutive_failures \in Nat /\ feed.status \in {"active", "broken", "dead"}
      /\ feed.last_successful_fetch_at \in Int /\ feed.created_at \in Int
  BY DEF Feed, FeedStatus
<1>2. /\ new.status = IF code = "http_410" \/ expired THEN "dead"
                      ELSE IF broken THEN "broken" ELSE feed.status
      /\ new.consecutive_failures = failures
      /\ new.last_error_code = code
      /\ new.last_attempt_at = t
      /\ new.last_successful_fetch_at = feed.last_successful_fetch_at
      /\ new.created_at = feed.created_at
  BY DEF MarkFetchFailure, Feed
<1>3. SinceSuccess(new, t) = SinceSuccess(feed, t) /\ SinceSuccess(feed, t) \in Int
  BY <1>1, <1>2 DEF SinceSuccess
<1> HIDE DEF new
<1>4. BreakerSound(new)
  BY <1>1, <1>2, LifecycleAssumption DEF BreakerSound
<1>5. new.status # feed.status => StatusEdge(feed, new)
  BY <1>1, <1>2, <1>3, LifecycleAssumption DEF BreakerSound, StatusEdge
<1> QED BY <1>2, <1>4, <1>5 DEF new

\* compute_next_fetch_at touches the timer only, which neither predicate reads.
LEMMA RescheduledFrame ==
  ASSUME NEW feed \in Feed, NEW old, NEW t \in Int, NEW weekly, NEW hint, NEW j
  PROVE  LET new == Rescheduled(feed, t, weekly, hint, j)
         IN  /\ new.status = feed.status
             /\ BreakerSound(feed) => BreakerSound(new)
             /\ StatusEdge(old, feed) => StatusEdge(old, new)
<1> DEFINE new == Rescheduled(feed, t, weekly, hint, j)
<1>1. /\ new.status = feed.status /\ new.last_error_code = feed.last_error_code
      /\ new.consecutive_failures = feed.consecutive_failures
      /\ new.last_attempt_at = feed.last_attempt_at
      /\ new.last_successful_fetch_at = feed.last_successful_fetch_at
      /\ new.created_at = feed.created_at
  BY DEF Rescheduled, Feed
<1> HIDE DEF new
<1>2. SinceSuccess(new, new.last_attempt_at) = SinceSuccess(feed, feed.last_attempt_at)
  BY <1>1 DEF SinceSuccess
<1> QED BY <1>1, <1>2 DEF BreakerSound, StatusEdge, new

\* fetch_one at the instant of the lease keeps the breaker consistent, and
\* changes the status only along an edge of the lifecycle.
LEMMA FetchOneSound ==
  ASSUME NEW feed \in Feed, BreakerSound(feed), NEW r \in Responses(feed),
         NEW weekly \in WeeklyCounts, NEW j \in Jitters
  PROVE  LET new == FetchOne(feed, feed.last_attempt_at, r, weekly, j)
         IN  /\ BreakerSound(new)
             /\ new.status # feed.status => StatusEdge(feed, new)
<1> DEFINE t == feed.last_attempt_at
           tried == [feed EXCEPT !.last_attempt_at = t]
           new == FetchOne(feed, t, r, weekly, j)
<1>1. tried = feed /\ t \in Int
  BY DEF Feed
<1>2. /\ r \in Response /\ r.hint \in Nat /\ r.code \in ErrorCode
      /\ r.validator \in BOOLEAN
      /\ r.kind \in {"success", "not_modified", "rate_limited", "failure"}
  <2>1. r \in Response
    BY ResponsesType, Zenon
  <2> QED BY <2>1, LifecycleAssumption DEF Response
<1>3. CASE r.kind = "success"
  <2> DEFINE stored == OnSuccess(feed, t, r)
  <2>1. /\ stored \in Feed
        /\ stored.status = "active" /\ stored.consecutive_failures = 0
        /\ stored.last_error_code = "none"
    BY <1>1, <1>2 DEF OnSuccess, MarkFetchSuccess, Feed, FeedStatus, ErrorCode
  <2> HIDE DEF stored
  <2>2. BreakerSound(stored) /\ StatusEdge(feed, stored)
    BY <2>1, LifecycleAssumption DEF BreakerSound, StatusEdge
  <2>3. new = Rescheduled(stored, t, weekly, r.hint, j)
    BY <1>1, <1>3 DEF FetchOne, stored
  <2> QED BY <1>1, <2>1, <2>2, <2>3, RescheduledFrame
<1>4. CASE r.kind = "not_modified"
  <2> DEFINE seen == OnNotModified(feed, t)
  <2>1. /\ seen \in Feed
        /\ feed.status = "broken" =>
             /\ seen.status = "active" /\ seen.consecutive_failures = 0
             /\ seen.last_error_code = "none"
        /\ feed.status # "broken" =>
             /\ seen.status = feed.status
             /\ seen.consecutive_failures = feed.consecutive_failures
             /\ seen.last_error_code = feed.last_error_code
    BY <1>1 DEF OnNotModified, Feed, FeedStatus, ErrorCode
  <2> HIDE DEF seen
  <2>2. BreakerSound(seen) /\ (seen.status # feed.status => StatusEdge(feed, seen))
    BY <2>1, LifecycleAssumption DEF BreakerSound, StatusEdge
  <2>3. new = Rescheduled(seen, t, weekly, r.hint, j)
    BY <1>1, <1>4 DEF FetchOne, seen
  <2> QED BY <1>1, <2>1, <2>2, <2>3, RescheduledFrame
<1>5. CASE r.kind = "rate_limited"
  <2>1. new = OnRateLimited(feed, t, r.hint)
    BY <1>1, <1>5 DEF FetchOne
  <2>2. /\ new.status = feed.status /\ new.last_error_code = "rate_limited"
        /\ new.consecutive_failures = feed.consecutive_failures
    BY <2>1 DEF OnRateLimited, Feed
  <2> QED BY <2>2 DEF BreakerSound
<1>6. CASE r.kind = "failure"
  <2> DEFINE failed == MarkFetchFailure(feed, t, r.code)
  <2>1. r.code \in ErrorCode \ {"none"}
    BY <1>2, <1>6, FailuresAreNamed
  <2>2. failed \in Feed
    BY <1>1, <1>2, MarkFetchFailureType
  <2>3. BreakerSound(failed) /\ (failed.status # feed.status => StatusEdge(feed, failed))
    BY <1>1, <2>1, MarkFetchFailureSound
  <2>4. new = Rescheduled(failed, t, weekly, 0, j)
    BY <1>1, <1>6 DEF FetchOne
  <2> HIDE DEF failed
  <2> QED BY <1>1, <2>2, <2>3, <2>4, RescheduledFrame
<1> QED BY <1>2, <1>3, <1>4, <1>5, <1>6
=============================================================================
