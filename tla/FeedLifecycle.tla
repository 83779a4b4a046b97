--------------------------- MODULE FeedLifecycle ---------------------------
(***************************************************************************)
(* What one row of the feeds table holds and what each handler computes    *)
(* from it: the claim predicate and lease of the scheduler, the lifecycle  *)
(* transitions of feed_state.py, the timer of policy.py and the branches   *)
(* of fetch_one that touch the row.  There is no state here: Scheduler     *)
(* applies these operators to concurrent sessions, AtomicFeed one at a     *)
(* time.                                                                   *)
(*                                                                         *)
(* Instants and durations are integers in one arbitrary unit.  A nullable  *)
(* timestamp that is NULL is the integer Null, which no instant equals.    *)
(***************************************************************************)
EXTENDS Integers

CONSTANTS
  BrokenThreshold,   \* settings.broken_threshold
  DeadDuration,      \* settings.dead_duration_days
  ProbeInterval,     \* settings.dead_probe_interval_days
  ClaimTTL,          \* settings.fetch_claim_ttl_seconds
  BaseInterval,      \* settings.fetch_interval_seconds
  MaxBackoff,        \* settings.broken_max_backoff_seconds
  Week,              \* the seven days of entry_frequency scheduling
  FrequencyMin,      \* settings.entry_frequency_min_interval_seconds
  FrequencyMax,      \* settings.entry_frequency_max_interval_seconds
  FrequencyFactor,   \* settings.entry_frequency_factor
  Jitters,           \* jitter draws, in percent of the capped backoff
  WeeklyCounts,      \* entries a feed may have gathered in a week
  Hints              \* server hints and Retry-After values, 0 for none

ASSUME LifecycleAssumption ==
  /\ BrokenThreshold \in Nat \ {0}
  /\ DeadDuration \in Nat \ {0}
  /\ ProbeInterval \in Nat \ {0}
  /\ ClaimTTL \in Nat \ {0}
  /\ BaseInterval \in Nat \ {0}
  /\ MaxBackoff \in Nat \ {0}
  /\ Week \in Nat \ {0}
  /\ FrequencyMin \in Nat \ {0}
  /\ FrequencyMax \in Nat \ {0}
  /\ FrequencyMin <= FrequencyMax
  /\ FrequencyFactor \in Nat \ {0}
  /\ Jitters \subseteq Int /\ Jitters # {}
  /\ WeeklyCounts \subseteq Nat /\ WeeklyCounts # {}
  /\ Hints \subseteq Nat
  /\ 0 \in Hints

Null == -1

FeedStatus == {"active", "broken", "dead"}

\* The error codes the lifecycle tells apart; every other failure is "other".
ErrorCode == {"none", "http_410", "rate_limited", "other"}

\* The columns of models.Feed that some handler reads back. validator stands
\* for "etag or last_modified is set".
Feed ==
  [status                   : FeedStatus,
   consecutive_failures     : Nat,
   last_error_code          : ErrorCode,
   next_fetch_at            : Int,
   last_attempt_at          : Int,
   last_successful_fetch_at : Int,
   created_at               : Int,
   validator                : BOOLEAN]

\* The INSERT of create_feed: the server defaults of the table, created_at from
\* the database clock and next_fetch_at from the clock of the API process.
NewFeed(dbNow, apiNow) ==
  [status                   |-> "active",
   consecutive_failures     |-> 0,
   last_error_code          |-> "none",
   next_fetch_at            |-> apiNow,
   last_attempt_at          |-> Null,
   last_successful_fetch_at |-> Null,
   created_at               |-> dbNow,
   validator                |-> FALSE]

Larger(a, b) == IF a >= b THEN a ELSE b
Smaller(a, b) == IF a <= b THEN a ELSE b
-----------------------------------------------------------------------------
(* The queue: scheduler._claim_due_feeds *)

\* claim_predicate
Claimable(feed, now) ==
  \/ /\ feed.status # "dead"
     /\ feed.next_fetch_at <= now
  \/ /\ feed.status = "dead"
     /\ \/ feed.last_attempt_at = Null
        \/ feed.last_attempt_at < now - ProbeInterval

\* Mutant of Leased: the dead-probe gate is not bumped.
LeasedWithoutAttempt(feed, now) ==
  [feed EXCEPT !.next_fetch_at = now + ClaimTTL]

\* The values of update_stmt.
Leased(feed, now) ==
  [feed EXCEPT !.next_fetch_at = now + ClaimTTL, !.last_attempt_at = now]
-----------------------------------------------------------------------------
(* The lifecycle: feed_state.py *)

\* Mutant of MarkFetchSuccess: a success takes one failure back, not all.
SuccessForgivesOne(feed, now) ==
  [feed EXCEPT !.last_successful_fetch_at = now,
               !.last_error_code = "none",
               !.consecutive_failures = @ - 1,
               !.status = "active"]

MarkFetchSuccess(feed, now) ==
  [feed EXCEPT !.last_successful_fetch_at = now,
               !.last_error_code = "none",
               !.consecutive_failures = 0,
               !.status = "active"]

\* How long the feed has gone without a success, from its creation if it never
\* had one.
SinceSuccess(feed, now) ==
  now - (IF feed.last_successful_fetch_at = Null
         THEN feed.created_at
         ELSE feed.last_successful_fetch_at)

\* Mutant of MarkFetchFailure: the breaker opens one failure late.
FailurePastThreshold(feed, now, code) ==
  LET failures == feed.consecutive_failures + 1
  IN  [feed EXCEPT !.last_error_code = code,
                   !.consecutive_failures = failures,
                   !.status = IF code = "http_410" THEN "dead"
                              ELSE IF @ = "active" /\ failures > BrokenThreshold
                              THEN "broken" ELSE @]

\* Mutant of MarkFetchFailure: a feed expires although its breaker is closed.
FailureExpiresActive(feed, now, code) ==
  [feed EXCEPT !.last_error_code = code,
               !.consecutive_failures = @ + 1,
               !.status = IF code = "http_410" \/ SinceSuccess(feed, now) >= DeadDuration
                          THEN "dead" ELSE @]

\* A single call may take a feed from active through broken to dead.
MarkFetchFailure(feed, now, code) ==
  LET failures == feed.consecutive_failures + 1
      tripped  == feed.status = "active" /\ failures >= BrokenThreshold
      broken   == feed.status = "broken" \/ tripped
      expired  == broken /\ SinceSuccess(feed, now) >= DeadDuration
      status   == IF code = "http_410" \/ expired THEN "dead"
                  ELSE IF broken THEN "broken" ELSE feed.status
  IN  [feed EXCEPT !.last_error_code = code,
                   !.consecutive_failures = failures,
                   !.status = status]
-----------------------------------------------------------------------------
(* The timer: policy.compute_next_fetch_at *)

\* Active and dead feeds: the entry frequency clamped to its bounds, or the
\* base interval without history, never below the server's hint.
PollInterval(weekly, hint) ==
  LET raw       == Week \div (weekly * FrequencyFactor)
      frequency == Larger(FrequencyMin, Smaller(raw, FrequencyMax))
  IN  Larger(IF weekly > 0 THEN frequency ELSE BaseInterval, hint)

\* Broken feeds: capped exponential backoff, then jitter.
Backoff(failures, jitter) ==
  LET excess == Larger(0, failures - BrokenThreshold)
      capped == Smaller(BaseInterval * 2^excess, MaxBackoff)
  IN  capped + (capped * jitter) \div 100

ComputeNextFetchAt(feed, now, weekly, hint, jitter) ==
  now + (IF feed.status = "broken"
         THEN Backoff(feed.consecutive_failures, jitter)
         ELSE PollInterval(weekly, hint))
-----------------------------------------------------------------------------
(* One fetch: http.fetch_one *)

\* What fetch_one's try block ends in. hint is the cache hint or <ttl> of a 200
\* or 304 and the Retry-After of a 429.
Response ==
  [kind : {"success", "not_modified", "rate_limited", "failure"},
   code : ErrorCode, hint : Hints, validator : BOOLEAN]

Success(hint, validator) ==
  [kind |-> "success", code |-> "none", hint |-> hint, validator |-> validator]
NotModified(hint) ==
  [kind |-> "not_modified", code |-> "none", hint |-> hint, validator |-> FALSE]
RateLimited(retryAfter) ==
  [kind |-> "rate_limited", code |-> "none", hint |-> retryAfter, validator |-> FALSE]
Failure(code) ==
  [kind |-> "failure", code |-> code, hint |-> 0, validator |-> FALSE]

AnyResponse ==
  {Success(h, v) : h \in Hints, v \in BOOLEAN}
    \cup {NotModified(h) : h \in Hints}
    \cup {RateLimited(h) : h \in Hints}
    \cup {Failure(c) : c \in {"http_410", "other"}}

\* The responses a fetch of this feed can get. A 304 answers a conditional
\* request, which fetch_one sends only when it has stored a validator.
Responses(feed) == {r \in AnyResponse : r.kind = "not_modified" => feed.validator}

\* The 304 branch: only a broken feed is recovered.
OnNotModified(feed, now) ==
  LET seen == [feed EXCEPT !.last_successful_fetch_at = now]
  IN  IF feed.status = "broken"
      THEN [seen EXCEPT !.status = "active", !.consecutive_failures = 0,
                        !.last_error_code = "none"]
      ELSE seen

\* Mutant of OnRateLimited: Retry-After is not floored at the base interval.
RateLimitedUnfloored(feed, now, retryAfter) ==
  [feed EXCEPT !.last_error_code = "rate_limited", !.next_fetch_at = now + retryAfter]

\* The 429 branch: not a failure of the feed, and no compute_next_fetch_at.
OnRateLimited(feed, now, retryAfter) ==
  [feed EXCEPT !.last_error_code = "rate_limited",
               !.next_fetch_at = now + Larger(retryAfter, BaseInterval)]

OnSuccess(feed, now, r) ==
  LET stored == MarkFetchSuccess(feed, now)
  IN  [stored EXCEPT !.validator = stored.validator \/ r.validator]

Rescheduled(feed, now, weekly, hint, jitter) ==
  [feed EXCEPT !.next_fetch_at = ComputeNextFetchAt(feed, now, weekly, hint, jitter)]

\* The row fetch_one leaves in its session. A failure discards the hint.
FetchOne(feed, now, r, weekly, jitter) ==
  LET tried == [feed EXCEPT !.last_attempt_at = now]
  IN  CASE r.kind = "success" ->
             Rescheduled(OnSuccess(tried, now, r), now, weekly, r.hint, jitter)
        [] r.kind = "not_modified" ->
             Rescheduled(OnNotModified(tried, now), now, weekly, r.hint, jitter)
        [] r.kind = "rate_limited" ->
             OnRateLimited(tried, now, r.hint)
        [] r.kind = "failure" ->
             Rescheduled(MarkFetchFailure(tried, now, r.code), now, weekly, 0, jitter)
-----------------------------------------------------------------------------
(* Manual recovery: api.feeds.reactivate_feed *)

Reactivated(feed, now) ==
  [feed EXCEPT !.status = "active", !.consecutive_failures = 0,
               !.last_error_code = "none", !.next_fetch_at = now]
=============================================================================
