----------------------------- MODULE AtomicFeed -----------------------------
(***************************************************************************)
(* The abstract specification of one feed: what the queue and the          *)
(* lifecycle promise when nobody interferes.  A feed is leased by at most   *)
(* one tick at a time, and the fetch of that tick is applied to the row in  *)
(* one indivisible step, at the instant the lease recorded.  Scheduler is   *)
(* compared with this specification step by step.                          *)
(***************************************************************************)
EXTENDS FeedLifecycle

CONSTANTS
  Skew,              \* how far a process clock may be from the database clock
  MaxClock,          \* bound: the last instant of a behaviour
  MaxReactivations   \* bound: calls of POST /v1/feeds/{id}/reactivate

ASSUME ClockAssumption ==
  /\ Skew \in Nat
  /\ MaxClock \in Nat
  /\ MaxReactivations \in Nat

VARIABLES
  row,            \* the feed's row; meaningless while there is none
  stage,          \* "absent", "idle", "leased" or "deleted"
  clock,          \* the database clock
  reactivations   \* reactivate calls so far

feedVars == <<row, stage>>
vars == <<row, stage, clock, reactivations>>

TypeOK ==
  /\ row \in Feed
  /\ stage \in {"absent", "idle", "leased", "deleted"}
  /\ clock \in Nat
  /\ reactivations \in 0..MaxReactivations

\* What a process may read as the current time.
Readings == (clock - Skew)..(clock + Skew)

Init ==
  /\ row = NewFeed(0, 0)
  /\ stage = "absent"
  /\ clock = Skew
  /\ reactivations = 0

Create ==
  /\ stage = "absent"
  /\ stage' = "idle"
  /\ \E now \in Readings : row' = NewFeed(clock, now)

Delete ==
  /\ stage \in {"idle", "leased"}
  /\ stage' = "deleted"
  /\ row' = NewFeed(0, 0)

\* A tick may have read its clock a while before its claim takes effect.
Claim ==
  /\ stage = "idle"
  /\ stage' = "leased"
  /\ \E now \in 0..(clock + Skew) :
       Claimable(row, now) /\ row' = Leased(row, now)

\* fetch_one and the commit of _process_feed.
Complete ==
  /\ stage = "leased"
  /\ stage' = "idle"
  /\ \E r \in Responses(row), weekly \in WeeklyCounts, jitter \in Jitters :
       row' = FetchOne(row, row.last_attempt_at, r, weekly, jitter)

\* A crash, a cancellation or a rolled back session: the lease is left behind.
Abandon ==
  /\ stage = "leased"
  /\ stage' = "idle"
  /\ row' = row

Reactivate ==
  /\ stage = "idle"
  /\ stage' = stage
  /\ \E now \in Readings : row' = Reactivated(row, now)

\* A step of this feed, whatever the clock does.
FeedStep == Create \/ Delete \/ Claim \/ Complete \/ Abandon \/ Reactivate

Tick ==
  /\ clock < MaxClock
  /\ clock' = clock + 1
  /\ UNCHANGED <<row, stage, reactivations>>

Next ==
  \/ (Create \/ Delete \/ Claim \/ Complete \/ Abandon) /\ UNCHANGED <<clock, reactivations>>
  \/ /\ Reactivate
     /\ reactivations < MaxReactivations
     /\ reactivations' = reactivations + 1
     /\ UNCHANGED clock
  \/ Tick

Spec == Init /\ [][Next]_vars
-----------------------------------------------------------------------------
(* Properties *)

\* feed_state.py: the circuit breaker and its counter agree. An active feed is
\* below the threshold, a broken one has reached it, a failure counted is a
\* failure named, and a dead feed always says why it died.
BreakerConsistent ==
  stage \in {"idle", "leased"} =>
    /\ row.status = "active" => row.consecutive_failures < BrokenThreshold
    /\ row.status = "broken" => row.consecutive_failures >= BrokenThreshold
    /\ row.consecutive_failures > 0 => row.last_error_code # "none"
    /\ row.status = "dead" => row.last_error_code # "none"

\* feed_state.py, http.py and api.feeds: which status changes may happen, and on
\* what evidence. The breaker opens at the threshold; a feed dies of a 410 or
\* with an open breaker and no success for DeadDuration; it comes back only
\* with a clean record, and a dead feed is never merely broken again.
LifecycleEdges ==
  [][row'.status # row.status =>
       \/ /\ row.status = "active" /\ row'.status = "broken"
          /\ row'.consecutive_failures = BrokenThreshold
          /\ SinceSuccess(row', row'.last_attempt_at) < DeadDuration
       \/ /\ row'.status = "dead"
          /\ \/ row'.last_error_code = "http_410"
             \/ /\ row'.consecutive_failures >= BrokenThreshold
                /\ SinceSuccess(row', row'.last_attempt_at) >= DeadDuration
       \/ /\ row'.status = "active"
          /\ row'.consecutive_failures = 0
          /\ row'.last_error_code = "none"]_vars

\* A time the policy may leave between two attempts on a feed that is not dead,
\* or more.
SpacedBy(gap) ==
  \E least \in {ClaimTTL, FrequencyMin, BaseInterval}
                 \cup {Backoff(BrokenThreshold, j) : j \in Jitters} : gap >= least

\* scheduler._claim_due_feeds with policy.py: whatever an attempt ended in, and
\* even when it was abandoned, the feed is not tried again before one of the
\* configured intervals has passed, and a dead feed not before the probe
\* interval has. Only a manual reactivation may bring an attempt forward.
ClaimsAreSpaced ==
  [][(stage = "idle" /\ stage' = "leased" /\ row.last_attempt_at # Null /\ reactivations = 0) =>
       LET gap == row'.last_attempt_at - row.last_attempt_at
       IN  IF row.status = "dead" THEN gap > ProbeInterval ELSE SpacedBy(gap)]_vars
=============================================================================
