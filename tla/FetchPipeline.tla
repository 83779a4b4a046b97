---------------------------- MODULE FetchPipeline ---------------------------
(***************************************************************************)
(* What happens inside the fetches of one worker process.  A tick leases    *)
(* the due feeds and runs a task for each; a task passes the guard, sends   *)
(* its request, may fall back to a second client, reads the body, upserts   *)
(* and computes the next fetch, and its session commits or rolls back.      *)
(* Scheduler takes all of this for one step, FetchOne with one of four      *)
(* kinds of response: here that is something to check.                      *)
(*                                                                         *)
(* The tasks share one thing, the set of hosts that need the fallback.  It  *)
(* lives as long as the process, only ever grows, and the fallback it turns *)
(* on never looks at a status code.                                         *)
(*                                                                         *)
(* Nothing in a task reads the clock after the tick did, so time passes     *)
(* between ticks only.  What a task does between two points at which it      *)
(* reads or writes that set is its own business, and one step.  Entries are *)
(* abstracted to the instant the latest of them were fetched, and so is the  *)
(* validator they came with.                                                *)
(***************************************************************************)
EXTENDS FeedLifecycle, FiniteSets

CONSTANTS
  Feeds,             \* feed ids
  Urls,              \* what effective_url may be
  HostOf,            \* HostOf[u]: the host of u
  HomeOf,            \* HomeOf[f]: the URL f was registered with
  Headers,           \* Retry-After, Cache-Control and Expires values
  Ttls,              \* <ttl> values of a document, 0 for none
  MaxInstant,        \* datetime.max: a later instant raises OverflowError
  MaxClock,          \* bound: the last instant of a behaviour
  MaxFaults          \* bound: crashes and failed commits

ASSUME PipelineAssumption ==
  /\ "none" \notin Feeds
  /\ HostOf \in [Urls -> {HostOf[u] : u \in Urls}]
  /\ HomeOf \in [Feeds -> Urls]
  /\ Headers \subseteq [form : {"absent", "seconds", "date", "junk"}, value : Int]
  /\ Ttls \subseteq Nat
  /\ MaxInstant \in Nat /\ MaxClock \in Nat /\ MaxFaults \in Nat

VARIABLES
  rows,       \* rows[f]: the committed row of f
  url,        \* url[f]: its effective_url column
  stored,     \* stored[f]: when the latest entries of f were fetched, or Null
  tagged,     \* tagged[f]: when its validators were received, or Null
  task,       \* task[f]: where the _process_feed of f is
  fallback,   \* _DOMAINS_NEEDING_FALLBACK of this process
  clock,      \* what tick_once reads as now
  faults,
  refused,    \* history: hosts of the feed URLs whose request, redirects followed,
              \* ended in a 403 since the start
  ended       \* history: the attempt that ended in the last step

dbVars == <<rows, url, stored, tagged>>
vars == <<dbVars, task, fallback, clock, faults, refused, ended>>

Hosts == {HostOf[u] : u \in Urls}

\* The status codes fetch_one tells apart; 500 stands for every other error, 0
\* for no answer at all.
Status == {0, 200, 304, 403, 410, 429, 500}

NoAttempt == [feed |-> "none", status |-> 0, failed |-> FALSE, wrote |-> FALSE]

Fetched == {Null} \cup (0..MaxClock)

TypeOK ==
  /\ rows \in [Feeds -> Feed]
  /\ url \in [Feeds -> Urls]
  /\ stored \in [Feeds -> Fetched] /\ tagged \in [Feeds -> Fetched]
  /\ task \in [Feeds -> {"none", "guard", "direct", "refused", "fallback"}]
  /\ fallback \subseteq Hosts
  /\ clock \in 0..MaxClock
  /\ faults \in 0..MaxFaults
  /\ refused \subseteq Hosts
  /\ \/ ended = NoAttempt
     \/ ended \in [feed : Feeds, status : Status, failed : BOOLEAN, wrote : BOOLEAN]

Init ==
  /\ rows = [f \in Feeds |-> NewFeed(0, 0)]
  /\ url = HomeOf
  /\ stored = [f \in Feeds |-> Null]
  /\ tagged = [f \in Feeds |-> Null]
  /\ task = [f \in Feeds |-> "none"]
  /\ fallback = {}
  /\ clock = 0
  /\ faults = 0
  /\ refused = {}
  /\ ended = NoAttempt

Idle == \A f \in Feeds : task[f] = "none"
-----------------------------------------------------------------------------
(* What the headers say: policy.py. None and 0 act alike everywhere. *)

\* Seconds, or an HTTP date relative to now; never negative.
ParseRetryAfter(header, now) ==
  CASE header.form = "seconds" -> Larger(0, header.value)
    [] header.form = "date"    -> Larger(0, header.value - now)
    [] OTHER                   -> 0

\* max-age if it is a number, else Expires if it is a date.
ParseCacheHint(maxAge, expires, now) ==
  CASE maxAge.form = "seconds" -> Larger(0, maxAge.value)
    [] maxAge.form # "seconds" /\ expires.form = "date" -> Larger(0, expires.value - now)
    [] OTHER -> 0

CacheHints(now) == {ParseCacheHint(m, e, now) : m \in Headers, e \in Headers}

\* A document's hint: the larger of the headers' and its <ttl>.
PageHints(now) == {Larger(h, ttl) : h \in CacheHints(now), ttl \in Ttls}

\* Hints is all the handlers ever see: whatever the parsers return is one.
ASSUME HintsAssumption ==
  \A now \in 0..MaxClock :
    /\ CacheHints(now) \cup PageHints(now) \subseteq Hints
    /\ \A header \in Headers : ParseRetryAfter(header, now) \in Hints

\* What a client may get to read: a document with its hint, and whether it had a
\* validator.
Pages(now) ==
  [body : {"entries", "empty"}, validator : BOOLEAN, hint : PageHints(now)]
    \cup [body : {"html", "unstorable"}, validator : {FALSE}, hint : {0}]

\* is_not_a_feed_content_type: a deny list; anything else goes to the parser.
NotAFeed(page) == page.body = "html"
-----------------------------------------------------------------------------
\* tick_once claims what is due and starts a task for each.
StartTick ==
  LET due == {f \in Feeds : Claimable(rows[f], clock)}
  IN  /\ Idle
      /\ due # {}
      /\ rows' = [f \in Feeds |-> IF f \in due THEN Leased(rows[f], clock) ELSE rows[f]]
      /\ task' = [f \in Feeds |-> IF f \in due THEN "guard" ELSE "none"]
      /\ ended' = NoAttempt
      /\ UNCHANGED <<url, stored, tagged, fallback, clock, faults, refused>>
-----------------------------------------------------------------------------
(***************************************************************************)
(* How an attempt ends.  a is what fetch_one has made of it so far: the     *)
(* session's objects (row, url, entries stored, validators tagged), the      *)
(* hint, whether the except branch was taken (failed), entries were upserted *)
(* (wrote), and Postgres has refused a statement, so that it will refuse the *)
(* commit as well (aborted).                                                *)
(***************************************************************************)

Attempt(f, status) ==
  [status |-> status, row |-> rows[f], url |-> url[f], stored |-> stored[f],
   tagged |-> tagged[f], hint |-> 0,
   failed |-> FALSE, wrote |-> FALSE, aborted |-> FALSE]

End(f, a) ==
  /\ task' = [task EXCEPT ![f] = "none"]
  /\ ended' = [feed |-> f, status |-> a.status, failed |-> a.failed, wrote |-> a.wrote]
  /\ UNCHANGED <<clock, refused>>

\* The session is rolled back: the lease is all that is left of the attempt.
Rollback(f, a) == End(f, a) /\ UNCHANGED <<dbVars, faults>>

\* Mutant of Commit: upsert_entries has committed on its own.
CommitEntriesFirst(f, a) ==
  /\ End(f, a)
  /\ stored' = [stored EXCEPT ![f] = a.stored]
  /\ \/ /\ ~a.aborted
        /\ rows' = [rows EXCEPT ![f] = a.row]
        /\ url' = [url EXCEPT ![f] = a.url]
        /\ tagged' = [tagged EXCEPT ![f] = a.tagged]
        /\ faults' = faults
     \/ /\ faults < MaxFaults
        /\ faults' = faults + 1
        /\ UNCHANGED <<rows, url, tagged>>

\* _process_feed's commit: everything or nothing. It raises in an aborted
\* transaction, and may raise in any other.
Commit(f, a) ==
  \/ /\ ~a.aborted
     /\ End(f, a)
     /\ rows' = [rows EXCEPT ![f] = a.row]
     /\ url' = [url EXCEPT ![f] = a.url]
     /\ stored' = [stored EXCEPT ![f] = a.stored]
     /\ tagged' = [tagged EXCEPT ![f] = a.tagged]
     /\ faults' = faults
  \/ a.aborted /\ Rollback(f, a)
  \/ /\ ~a.aborted /\ faults < MaxFaults
     /\ End(f, a)
     /\ faults' = faults + 1
     /\ UNCHANGED dbVars

\* Mutant of Settle: an instant that cannot be represented becomes the last one
\* that can, and the feed is never fetched again.
SettleClamped(f, a) ==
  \E weekly \in WeeklyCounts, jitter \in Jitters :
    LET next == ComputeNextFetchAt(a.row, clock, weekly, a.hint, jitter)
    IN  Commit(f, [a EXCEPT !.row.next_fetch_at = Smaller(next, MaxInstant)])

\* The last statement of fetch_one, after the try block: an instant too large
\* raises out of fetch_one and takes the attempt with it.
Settle(f, a) ==
  \E weekly \in WeeklyCounts, jitter \in Jitters :
    LET next == ComputeNextFetchAt(a.row, clock, weekly, a.hint, jitter)
    IN  IF next > MaxInstant THEN Rollback(f, a)
        ELSE Commit(f, [a EXCEPT !.row.next_fetch_at = next])

\* The except branch swallows whatever was raised.
Fail(f, a, code) ==
  Settle(f, [a EXCEPT !.failed = TRUE, !.row = MarkFetchFailure(a.row, clock, code)])

\* The body was read to its end: content type, parser, upsert, and the timer.
\* A statement Postgres refuses fails the attempt like an error of the server,
\* but the transaction is lost.
ReadPage(f, a) ==
  \E page \in Pages(clock) :
    \/ NotAFeed(page) /\ Fail(f, a, "other")
    \/ page.body = "unstorable" /\ Fail(f, [a EXCEPT !.aborted = TRUE], "other")
    \/ /\ page.body \in {"entries", "empty"}
       /\ Settle(f, [a EXCEPT
            !.row = OnSuccess(a.row, clock, page), !.hint = page.hint,
            !.wrote = (page.body = "entries"),
            !.stored = IF page.body = "entries" THEN clock ELSE @,
            !.tagged = IF page.validator THEN clock ELSE @])
-----------------------------------------------------------------------------
(* The request *)

\* The guard passes, and the host decides on the client.
PassGuard(f) ==
  /\ task[f] = "guard"
  /\ task' = [task EXCEPT ![f] =
                IF HostOf[url[f]] \in fallback THEN "fallback" ELSE "direct"]
  /\ ended' = NoAttempt
  /\ UNCHANGED <<dbVars, fallback, clock, faults, refused>>

\* validate_public_url raises.
FailGuard(f) ==
  /\ task[f] = "guard"
  /\ Fail(f, Attempt(f, 0), "other")
  /\ UNCHANGED fallback

\* 304: the timer is computed inside the try block, so that an overflow is
\* counted as a failure, and computed with the same hint again.
AnswerNotModified(f) ==
  /\ task[f] = "direct"
  /\ rows[f].validator
  /\ \E hint \in CacheHints(clock) :
       LET a == [Attempt(f, 304) EXCEPT !.row = OnNotModified(rows[f], clock), !.hint = hint]
       IN  IF clock + hint > MaxInstant THEN Fail(f, a, "other") ELSE Settle(f, a)
  /\ UNCHANGED fallback

\* 429: no compute_next_fetch_at, unless Retry-After is too large to add.
AnswerRateLimited(f) ==
  /\ task[f] = "direct"
  /\ \E header \in Headers :
       LET a == [Attempt(f, 429) EXCEPT
                   !.row = OnRateLimited(rows[f], clock, ParseRetryAfter(header, clock))]
       IN  IF a.row.next_fetch_at > MaxInstant
           THEN Fail(f, Attempt(f, 429), "other") ELSE Commit(f, a)
  /\ UNCHANGED fallback

\* 403: the fallback is tried before the status counts.
AnswerRefused(f) ==
  /\ task[f] = "direct"
  /\ task' = [task EXCEPT ![f] = "refused"]
  /\ refused' = refused \cup {HostOf[url[f]]}
  /\ ended' = NoAttempt
  /\ UNCHANGED <<dbVars, fallback, clock, faults>>

\* raise_for_status.
AnswerError(f) ==
  /\ task[f] = "direct"
  /\ \/ Fail(f, Attempt(f, 410), "http_410")
     \/ Fail(f, Attempt(f, 500), "other")
  /\ UNCHANGED fallback

\* A connect error, a redirect loop, a blocked hop, or the total budget runs out.
AnswerNothing(f) ==
  /\ task[f] = "direct"
  /\ Fail(f, Attempt(f, 0), "other")
  /\ UNCHANGED fallback

\* A 200, at the end of a chain of redirects. One permanent hop is enough for
\* the final URL to be kept, and it is kept before the body is read: also when
\* that is too large, breaks off or is no feed.
AnswerOk(f) ==
  /\ task[f] = "direct"
  /\ \E final \in Urls :
       LET a == [Attempt(f, 200) EXCEPT !.url = final]
       IN  Fail(f, a, "other") \/ ReadPage(f, a)
  /\ UNCHANGED fallback
-----------------------------------------------------------------------------
(* The fallback: fetch_via_impersonation *)

\* FallbackError, a guard that raises or a body too large: a failure, and the
\* host is not remembered.
FallbackFails(f) ==
  /\ task[f] \in {"refused", "fallback"}
  /\ Fail(f, Attempt(f, IF task[f] = "refused" THEN 403 ELSE 0), "other")
  /\ UNCHANGED fallback

\* Mutant of FallbackAnswers: where the redirects led is remembered.
FallbackRemembersFinal(f) ==
  /\ task[f] \in {"refused", "fallback"}
  /\ \E status \in {200, 304, 410} : ReadPage(f, Attempt(f, status))
  /\ \E final \in Urls : fallback' = fallback \cup {HostOf[final]}

\* An answer of any status, of which three stand for all. Nobody looks at it: the
\* body is read as a feed. A host that refused httpx is asked this way from now
\* on.
FallbackAnswers(f) ==
  /\ task[f] \in {"refused", "fallback"}
  /\ \E status \in {200, 304, 410} : ReadPage(f, Attempt(f, status))
  /\ fallback' = IF task[f] = "refused" THEN fallback \cup {HostOf[url[f]]} ELSE fallback
-----------------------------------------------------------------------------
\* The process dies and is started again. Its tasks and its set are gone.
Restart ==
  /\ faults < MaxFaults
  /\ faults' = faults + 1
  /\ task' = [f \in Feeds |-> "none"]
  /\ fallback' = {}
  /\ refused' = {}
  /\ ended' = NoAttempt
  /\ UNCHANGED <<dbVars, clock>>

Wait ==
  /\ Idle
  /\ clock < MaxClock
  /\ clock' = clock + 1
  /\ ended' = NoAttempt
  /\ UNCHANGED <<dbVars, task, fallback, faults, refused>>

TaskStep(f) ==
  \/ PassGuard(f) \/ FailGuard(f)
  \/ AnswerNotModified(f) \/ AnswerRateLimited(f) \/ AnswerRefused(f)
  \/ AnswerError(f) \/ AnswerNothing(f) \/ AnswerOk(f)
  \/ FallbackFails(f) \/ FallbackAnswers(f)

Next == StartTick \/ (\E f \in Feeds : TaskStep(f)) \/ Restart \/ Wait

Spec == Init /\ [][Next]_vars
-----------------------------------------------------------------------------
(* Properties *)

Atomic(f) ==
  INSTANCE AtomicFeed WITH
    row <- rows[f], stage <- IF task[f] = "none" THEN "idle" ELSE "leased",
    reactivations <- 0, Skew <- 0, MaxReactivations <- 0

\* fetch_one and _process_feed: whichever stages an attempt went through and
\* wherever it raised, in the guard, in either client, in the upsert, while
\* computing the timer or in the commit, its row ends as FetchOne makes it for
\* one of the four kinds of response, or keeps its lease untouched. This is
\* what Scheduler and AtomicFeed take for granted. One corner is left out: a
\* 304 whose hint overflows raises after its branch has recorded a success, and
\* is then counted as a failure on top of it.
FetchIsAtomic ==
  [][\A f \in Feeds :
       \/ Atomic(f)!FeedStep
       \/ UNCHANGED <<rows[f], task[f] = "none">>
       \/ /\ task[f] = "direct"
          /\ ended'.feed = f /\ ended'.status = 304 /\ ended'.failed]_vars

\* _DOMAINS_NEEDING_FALLBACK: an attempt takes an error status for a success
\* only on the host of a URL whose request has ended in a 403 in this very
\* process, on whichever feed's behalf; a restart clears the record.
BlindOnlyAfterRefusal ==
  [][\A f \in Feeds :
       ended'.feed = f /\ ~ended'.failed /\ ended'.status \notin {200, 304, 429} =>
         HostOf[url[f]] \in refused]_vars

\* fetch_one, _process_feed: what one attempt stores is stored together, on the
\* first success of a feed and on every later one. Entries and validators reach
\* the database only with the success they came with, never from an attempt
\* that failed, overflowed or was rolled back; and neither the success nor the
\* validators of a document reach it without its entries, which a 304 would
\* then hide.
KeptTogether ==
  [][\A f \in Feeds :
       LET kept      == stored'[f] # stored[f]
           vouched   == tagged'[f] # tagged[f]
           confirmed == rows'[f].last_successful_fetch_at # rows[f].last_successful_fetch_at
       IN  /\ kept \/ vouched =>
                ~ended'.failed /\ rows'[f].last_successful_fetch_at = clock
           /\ (vouched \/ confirmed) /\ ended'.feed = f /\ ended'.wrote =>
                stored'[f] = clock]_vars

\* models.Feed: consecutive_failures is "incremented on every fetch failure".
FailureIsCounted ==
  [][\A f \in Feeds :
       ended'.feed = f /\ ended'.failed =>
         rows'[f].consecutive_failures = rows[f].consecutive_failures + 1]_vars
=============================================================================
