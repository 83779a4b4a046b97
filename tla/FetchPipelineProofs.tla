------------------------- MODULE FetchPipelineProofs ------------------------
(***************************************************************************)
(* The fetches of one process, for any number of feeds, URLs and hosts and  *)
(* for any headers: whatever an attempt goes through, its row ends as        *)
(* FetchOne makes it for one kind of response or keeps its lease, entries    *)
(* and validators come with the success that brought them, and an error      *)
(* status passes for a success only on a host that refused this process.    *)
(*                                                                         *)
(* The argument has two halves.  Every branch of fetch_one that ends an      *)
(* attempt is first brought to one form, Completes, in which Settle, Commit  *)
(* and Fail no longer occur; only a 304 whose hint overflows has a form of   *)
(* its own, Overflows.  The inductive invariant then needs no case per       *)
(* branch: next to the properties it says that a task under way has leased   *)
(* its feed at the present instant, and that the fallback is chosen for      *)
(* hosts in refused only.                                                  *)
(***************************************************************************)
EXTENDS FetchPipeline, FeedLifecycleProofs

\* Time stands still while tasks run, so that a lease is as old as the tick.
LeaseInv == \A f \in Feeds : task[f] # "none" => rows[f].last_attempt_at = clock

\* The fallback serves hosts that have refused this process.
RefusalInv ==
  /\ fallback \subseteq refused
  /\ \A f \in Feeds : task[f] \in {"refused", "fallback"} => HostOf[url[f]] \in refused

PipeInv == TypeOK /\ LeaseInv /\ RefusalInv
-----------------------------------------------------------------------------
(* How an attempt ends *)

AttemptRecord ==
  [status : Status, row : Feed, url : Urls, stored : Fetched, tagged : Fetched, hint : Nat,
   failed : BOOLEAN, wrote : BOOLEAN, aborted : BOOLEAN]

\* The task of f is over, and a is what came of it.
Over(f, a) ==
  /\ task' = [task EXCEPT ![f] = "none"]
  /\ ended' = [feed |-> f, status |-> a.status, failed |-> a.failed, wrote |-> a.wrote]
  /\ UNCHANGED <<clock, refused>>
  /\ faults' \in 0..MaxFaults

\* Its session was rolled back, or committed this row and what a has in hand.
Written(f, row, a) ==
  \/ UNCHANGED dbVars
  \/ /\ rows' = [rows EXCEPT ![f] = row]
     /\ url' = [url EXCEPT ![f] = a.url]
     /\ stored' = [stored EXCEPT ![f] = a.stored]
     /\ tagged' = [tagged EXCEPT ![f] = a.tagged]

\* Nothing has been read yet that could be stored.
EmptyHanded(f, a) == a.stored = stored[f] /\ a.tagged = tagged[f] /\ ~a.wrote

\* An attempt that ended as FetchOne makes it for response r.
CompletesAs(f, r, w, j, a) ==
  /\ Over(f, a)
  /\ Written(f, FetchOne(rows[f], clock, r, w, j), a)
  /\ EmptyHanded(f, a) \/ (r.kind = "success" /\ ~a.failed)
  /\ a.wrote => a.stored = clock
  /\ ~a.failed /\ a.status \notin {200, 304, 429} => task[f] \in {"refused", "fallback"}

Completes(f) ==
  \E r \in Responses(rows[f]), w \in WeeklyCounts, j \in Jitters, a \in AttemptRecord :
    CompletesAs(f, r, w, j, a)

\* A 304 that raised after its success was recorded.
Overflows(f) ==
  \E w \in WeeklyCounts, j \in Jitters, hint \in Nat, a \in AttemptRecord :
    /\ task[f] = "direct" /\ a.status = 304 /\ a.failed /\ EmptyHanded(f, a)
    /\ Over(f, a)
    /\ Written(f, Rescheduled(MarkFetchFailure(OnNotModified(rows[f], clock), clock, "other"),
                              clock, w, hint, j), a)

\* _process_feed's commit ends the task and writes all or nothing.
LEMMA CommitEnds ==
  ASSUME NEW f, NEW a, faults \in 0..MaxFaults, Commit(f, a)
  PROVE  Over(f, a) /\ Written(f, a.row, a)
BY PipelineAssumption DEF Commit, Rollback, End, Over, Written

\* Neither looks at the row, the hint or the transaction's state.
SameInHand(a, b) ==
  /\ a.status = b.status /\ a.failed = b.failed /\ a.wrote = b.wrote
  /\ a.url = b.url /\ a.stored = b.stored /\ a.tagged = b.tagged

LEMMA InHand ==
  ASSUME NEW f, NEW row, NEW a, NEW b, SameInHand(a, b), Over(f, b), Written(f, row, b)
  PROVE  Over(f, a) /\ Written(f, row, a)
<1>1. Over(f, a)
  BY DEF SameInHand, Over
<1>2. Written(f, row, a)
  BY DEF SameInHand, Written
<1> QED BY <1>1, <1>2

\* The last statement of fetch_one sets the timer, or raises.
LEMMA SettleEnds ==
  ASSUME NEW f, NEW a \in AttemptRecord, faults \in 0..MaxFaults, Settle(f, a)
  PROVE  \E w \in WeeklyCounts, j \in Jitters :
           Over(f, a) /\ Written(f, Rescheduled(a.row, clock, w, a.hint, j), a)
<1>1. PICK w \in WeeklyCounts, j \in Jitters :
        LET next == ComputeNextFetchAt(a.row, clock, w, a.hint, j)
        IN  IF next > MaxInstant THEN Rollback(f, a)
            ELSE Commit(f, [a EXCEPT !.row.next_fetch_at = next])
  BY DEF Settle
<1> DEFINE next == ComputeNextFetchAt(a.row, clock, w, a.hint, j)
           b == [a EXCEPT !.row.next_fetch_at = next]
<1>2. CASE Rollback(f, a)
  BY <1>1, <1>2 DEF Rollback, End, Over, Written
<1>3. CASE Commit(f, b)
  <2>1. Over(f, b) /\ Written(f, b.row, b)
    BY <1>3, CommitEnds
  <2>2. b.row = Rescheduled(a.row, clock, w, a.hint, j)
    BY DEF AttemptRecord, Rescheduled
  <2>3. SameInHand(a, b)
    BY DEF AttemptRecord, SameInHand
  <2> HIDE DEF b
  <2> QED BY <1>1, <2>1, <2>2, <2>3, InHand
<1> QED BY <1>1, <1>2, <1>3

\* The except branch counts a failure and settles.
LEMMA FailEnds ==
  ASSUME NEW f, NEW a \in AttemptRecord, NEW code \in ErrorCode, faults \in 0..MaxFaults,
         clock \in Int, Fail(f, a, code)
  PROVE  \E w \in WeeklyCounts, j \in Jitters, b \in AttemptRecord :
           /\ b.status = a.status /\ b.failed /\ b.wrote = a.wrote
           /\ b.url = a.url /\ b.stored = a.stored /\ b.tagged = a.tagged
           /\ Over(f, b)
           /\ Written(f, Rescheduled(MarkFetchFailure(a.row, clock, code), clock, w, a.hint, j), b)
<1> DEFINE failed == MarkFetchFailure(a.row, clock, code)
           b == [a EXCEPT !.failed = TRUE, !.row = failed]
<1>1. failed \in Feed
  BY MarkFetchFailureType DEF AttemptRecord
<1>2. Settle(f, b)
  BY DEF Fail
<1> HIDE DEF failed
<1>3. /\ b \in AttemptRecord
      /\ b.status = a.status /\ b.failed /\ b.wrote = a.wrote
      /\ b.url = a.url /\ b.stored = a.stored /\ b.tagged = a.tagged
      /\ b.row = failed /\ b.hint = a.hint
  BY <1>1 DEF AttemptRecord
<1> HIDE DEF b
<1>4. PICK w \in WeeklyCounts, j \in Jitters :
        Over(f, b) /\ Written(f, Rescheduled(b.row, clock, w, b.hint, j), b)
  BY <1>2, <1>3, SettleEnds
<1>5. Written(f, Rescheduled(failed, clock, w, a.hint, j), b)
  BY <1>3, <1>4
<1> QED BY <1>3, <1>4, <1>5, Zenon DEF failed

\* Failure responses are possible for every feed.
LEMMA FailureResponses ==
  ASSUME NEW feed, NEW code \in {"http_410", "other"}
  PROVE  /\ Failure(code) \in Responses(feed)
         /\ Failure(code).kind = "failure" /\ Failure(code).code = code
<1>1. Failure(code).kind = "failure" /\ Failure(code).code = code
  BY DEF Failure
<1>2. Failure(code) \in AnyResponse
  BY DEF AnyResponse
<1> QED BY <1>1, <1>2 DEF Responses

\* An attempt that fails before anything came of it completes with a failure.
LEMMA FailCompletes ==
  ASSUME PipeInv, NEW f \in Feeds, task[f] # "none", NEW a \in AttemptRecord,
         a.row = rows[f], a.hint = 0, EmptyHanded(f, a), NEW code \in {"http_410", "other"},
         Fail(f, a, code)
  PROVE  Completes(f)
<1> DEFINE r == Failure(code)
           t == clock
           tried == [rows[f] EXCEPT !.last_attempt_at = t]
<1>1. /\ rows[f] \in Feed /\ clock \in Int /\ faults \in 0..MaxFaults
      /\ rows[f].last_attempt_at = clock
  BY DEF PipeInv, TypeOK, LeaseInv
<1>2. tried = rows[f]
  BY <1>1 DEF Feed
<1>3. code \in ErrorCode
  BY DEF ErrorCode
<1>4. PICK w \in WeeklyCounts, j \in Jitters, b \in AttemptRecord :
        /\ b.status = a.status /\ b.failed /\ b.wrote = a.wrote
        /\ b.url = a.url /\ b.stored = a.stored /\ b.tagged = a.tagged
        /\ Over(f, b)
        /\ Written(f, Rescheduled(MarkFetchFailure(a.row, clock, code), clock, w, a.hint, j), b)
  BY <1>1, <1>3, FailEnds
<1>5. r \in Responses(rows[f]) /\ r.kind = "failure" /\ r.code = code
  BY FailureResponses
<1> HIDE DEF r
<1>6. FetchOne(rows[f], t, r, w, j)
        = Rescheduled(MarkFetchFailure(rows[f], clock, code), clock, w, 0, j)
  BY <1>2, <1>5 DEF FetchOne
<1>7. Written(f, FetchOne(rows[f], clock, r, w, j), b)
  BY <1>4, <1>6
<1>8. EmptyHanded(f, b) /\ ~b.wrote
  BY <1>4 DEF EmptyHanded
<1>9. CompletesAs(f, r, w, j, b)
  BY <1>4, <1>7, <1>8 DEF CompletesAs
<1> QED BY <1>4, <1>5, <1>9, Zenon DEF Completes

\* What a client reads as a feed carries a hint the handlers know.
LEMMA PageType ==
  ASSUME clock \in 0..MaxClock, NEW page \in Pages(clock), page.body \in {"entries", "empty"}
  PROVE  page.validator \in BOOLEAN /\ page.hint \in Hints
<1>1. PageHints(clock) \subseteq Hints
  BY HintsAssumption
<1> QED BY <1>1 DEF Pages

\* A body that is read as a feed completes with a success or a failure, whatever
\* the status it came with.
LEMMA ReadPageCompletes ==
  ASSUME PipeInv, NEW f \in Feeds, task[f] # "none", NEW a \in AttemptRecord,
         a.row = rows[f], a.hint = 0, EmptyHanded(f, a), ~a.failed, ReadPage(f, a),
         a.status = 200 \/ task[f] \in {"refused", "fallback"}
  PROVE  Completes(f)
<1>1. /\ rows[f] \in Feed /\ clock \in 0..MaxClock /\ clock \in Int /\ faults \in 0..MaxFaults
      /\ rows[f].last_attempt_at = clock
  BY PipelineAssumption DEF PipeInv, TypeOK, LeaseInv
<1>2. PICK page \in Pages(clock) :
        \/ Fail(f, a, "other")
        \/ Fail(f, [a EXCEPT !.aborted = TRUE], "other")
        \/ /\ page.body \in {"entries", "empty"}
           /\ Settle(f, [a EXCEPT
                !.row = OnSuccess(a.row, clock, page), !.hint = page.hint,
                !.wrote = (page.body = "entries"),
                !.stored = IF page.body = "entries" THEN clock ELSE @,
                !.tagged = IF page.validator THEN clock ELSE @])
  BY DEF ReadPage
<1>3. CASE Fail(f, a, "other")
  BY <1>3, FailCompletes
<1>4. CASE Fail(f, [a EXCEPT !.aborted = TRUE], "other")
  <2> DEFINE b == [a EXCEPT !.aborted = TRUE]
  <2>1. b \in AttemptRecord /\ b.row = rows[f] /\ b.hint = 0 /\ EmptyHanded(f, b)
    BY DEF AttemptRecord, EmptyHanded
  <2> HIDE DEF b
  <2>2. Fail(f, b, "other")
    BY <1>4 DEF b
  <2> QED BY <2>1, <2>2, FailCompletes
<1>5. CASE /\ page.body \in {"entries", "empty"}
           /\ Settle(f, [a EXCEPT
                !.row = OnSuccess(a.row, clock, page), !.hint = page.hint,
                !.wrote = (page.body = "entries"),
                !.stored = IF page.body = "entries" THEN clock ELSE @,
                !.tagged = IF page.validator THEN clock ELSE @])
  <2> DEFINE t == clock
             r == Success(page.hint, page.validator)
             done == OnSuccess(rows[f], clock, page)
             w1 == (page.body = "entries")
             st == IF page.body = "entries" THEN clock ELSE a.stored
             tg == IF page.validator THEN clock ELSE a.tagged
             b == [a EXCEPT !.row = done, !.hint = page.hint, !.wrote = w1,
                            !.stored = st, !.tagged = tg]
             tried == [rows[f] EXCEPT !.last_attempt_at = t]
  <2>1. page.validator \in BOOLEAN /\ page.hint \in Hints /\ page.hint \in Nat
    BY <1>1, <1>5, PageType, LifecycleAssumption
  <2>2. done \in Feed
    BY <1>1, <2>1 DEF OnSuccess, MarkFetchSuccess, Feed, FeedStatus, ErrorCode
  <2>3. /\ r.kind = "success" /\ r.hint = page.hint /\ r.validator = page.validator
        /\ r \in Responses(rows[f])
    <3>1. r.kind = "success" /\ r.hint = page.hint /\ r.validator = page.validator
      BY DEF Success
    <3>2. r \in AnyResponse
      BY <2>1 DEF AnyResponse
    <3> QED BY <3>1, <3>2 DEF Responses
  <2>4. OnSuccess(rows[f], clock, r) = done
    BY <2>3, Zenon DEF OnSuccess
  <2>5. tried = rows[f]
    BY <1>1 DEF Feed
  <2>6. Settle(f, b)
    BY <1>5 DEF AttemptRecord
  <2>7. st \in Fetched /\ tg \in Fetched /\ w1 \in BOOLEAN /\ (w1 => st = clock)
    BY <1>1 DEF Fetched, AttemptRecord
  <2> HIDE DEF done, r, w1, st, tg
  <2>8. ASSUME NEW w, NEW j
        PROVE  FetchOne(rows[f], t, r, w, j) = Rescheduled(done, clock, w, page.hint, j)
    BY <2>3, <2>4, <2>5 DEF FetchOne
  <2>9. /\ b \in AttemptRecord /\ b.status = a.status /\ ~b.failed
        /\ b.wrote = w1 /\ b.stored = st /\ b.row = done /\ b.hint = page.hint
    BY <2>1, <2>2, <2>7 DEF AttemptRecord
  <2> HIDE DEF b
  <2>10. PICK w \in WeeklyCounts, j \in Jitters :
          Over(f, b) /\ Written(f, Rescheduled(b.row, clock, w, b.hint, j), b)
    BY <1>1, <2>6, <2>9, SettleEnds
  <2>11. Written(f, FetchOne(rows[f], clock, r, w, j), b)
    BY <2>8, <2>9, <2>10
  <2>12. CompletesAs(f, r, w, j, b)
    BY <2>3, <2>7, <2>9, <2>10, <2>11 DEF CompletesAs
  <2> QED BY <2>3, <2>9, <2>12, Zenon DEF Completes
<1> QED BY <1>2, <1>3, <1>4, <1>5

\* The object fetch_one starts from.
LEMMA AttemptType ==
  ASSUME TypeOK, NEW f \in Feeds, NEW status \in Status
  PROVE  LET a == Attempt(f, status)
         IN  /\ a \in AttemptRecord /\ a.status = status /\ a.row = rows[f]
             /\ a.hint = 0 /\ ~a.failed /\ EmptyHanded(f, a)
BY DEF TypeOK, Attempt, AttemptRecord, EmptyHanded

\* A 304 completes, or overflows.
LEMMA NotModifiedEnds ==
  ASSUME PipeInv, NEW f \in Feeds, AnswerNotModified(f)
  PROVE  Completes(f) \/ Overflows(f)
<1> DEFINE t == clock
           seen == OnNotModified(rows[f], clock)
           tried == [rows[f] EXCEPT !.last_attempt_at = t]
<1>1. /\ rows[f] \in Feed /\ clock \in 0..MaxClock /\ clock \in Int /\ faults \in 0..MaxFaults
      /\ rows[f].last_attempt_at = clock /\ rows[f].validator /\ url[f] \in Urls
  BY PipelineAssumption DEF PipeInv, TypeOK, LeaseInv, AnswerNotModified
<1>2. PICK hint \in CacheHints(clock) :
        LET a == [Attempt(f, 304) EXCEPT !.row = OnNotModified(rows[f], clock), !.hint = hint]
        IN  IF clock + hint > MaxInstant THEN Fail(f, a, "other") ELSE Settle(f, a)
  BY DEF AnswerNotModified
<1> DEFINE a == [Attempt(f, 304) EXCEPT !.row = seen, !.hint = hint]
<1>3. hint \in Hints /\ hint \in Nat
  BY <1>1, HintsAssumption, LifecycleAssumption
<1>4. seen \in Feed
  BY <1>1, OnNotModifiedType
<1>5. Fail(f, a, "other") \/ Settle(f, a)
  BY <1>2
<1> HIDE DEF seen
<1>6. /\ a \in AttemptRecord /\ a.status = 304 /\ a.row = seen
      /\ a.hint = hint /\ ~a.failed /\ EmptyHanded(f, a) /\ ~a.wrote
  <2> DEFINE b == Attempt(f, 304)
  <2>1. b \in AttemptRecord /\ b.status = 304 /\ ~b.failed /\ EmptyHanded(f, b)
    BY AttemptType DEF PipeInv, Status
  <2>2. a = [b EXCEPT !.row = seen, !.hint = hint]
    OBVIOUS
  <2> HIDE DEF a, b
  <2> QED BY <1>3, <1>4, <2>1, <2>2 DEF AttemptRecord, EmptyHanded
<1> HIDE DEF a
<1>7. CASE Fail(f, a, "other")
  <2> DEFINE code == "other"
  <2>1. code \in ErrorCode /\ Fail(f, a, code)
    BY <1>7 DEF ErrorCode
  <2> HIDE DEF code
  <2>2. PICK w \in WeeklyCounts, j \in Jitters, b \in AttemptRecord :
          /\ b.status = a.status /\ b.failed /\ b.wrote = a.wrote
          /\ b.url = a.url /\ b.stored = a.stored /\ b.tagged = a.tagged
          /\ Over(f, b)
          /\ Written(f, Rescheduled(MarkFetchFailure(a.row, clock, code), clock, w, a.hint, j), b)
    BY <1>1, <1>6, <2>1, FailEnds
  <2>3. Written(f, Rescheduled(MarkFetchFailure(seen, clock, code), clock, w, hint, j), b)
    BY <1>6, <2>2, Zenon
  <2>4. b.status = 304 /\ b.failed /\ EmptyHanded(f, b) /\ Over(f, b)
    BY <1>6, <2>2 DEF EmptyHanded
  <2>5. task[f] = "direct"
    BY DEF AnswerNotModified
  <2> QED BY <1>3, <2>2, <2>3, <2>4, <2>5, Zenon DEF Overflows, seen, code
<1>8. CASE Settle(f, a)
  <2> DEFINE r == NotModified(hint)
  <2>1. PICK w \in WeeklyCounts, j \in Jitters :
          Over(f, a) /\ Written(f, Rescheduled(a.row, clock, w, a.hint, j), a)
    BY <1>1, <1>6, <1>8, SettleEnds
  <2>2. r \in Responses(rows[f]) /\ r.kind = "not_modified" /\ r.hint = hint
    <3>1. r.kind = "not_modified" /\ r.hint = hint
      BY DEF NotModified
    <3>2. r \in AnyResponse
      BY <1>3 DEF AnyResponse
    <3> QED BY <1>1, <3>1, <3>2 DEF Responses
  <2>3. tried = rows[f]
    BY <1>1 DEF Feed
  <2> HIDE DEF r
  <2>4. FetchOne(rows[f], t, r, w, j) = Rescheduled(seen, clock, w, hint, j)
    BY <2>2, <2>3 DEF FetchOne, seen
  <2>5. Written(f, FetchOne(rows[f], clock, r, w, j), a)
    BY <1>6, <2>1, <2>4
  <2>6. CompletesAs(f, r, w, j, a)
    BY <1>6, <2>1, <2>5 DEF CompletesAs
  <2> QED BY <1>6, <2>2, <2>6, Zenon DEF Completes
<1> QED BY <1>5, <1>7, <1>8

\* A 429 completes: without the timer, or as a failure where Retry-After is too
\* large to add.
LEMMA RateLimitedEnds ==
  ASSUME PipeInv, NEW f \in Feeds, AnswerRateLimited(f)
  PROVE  Completes(f)
<1> DEFINE t == clock
           tried == [rows[f] EXCEPT !.last_attempt_at = t]
<1>1. /\ rows[f] \in Feed /\ clock \in 0..MaxClock /\ clock \in Int /\ faults \in 0..MaxFaults
      /\ rows[f].last_attempt_at = clock /\ url[f] \in Urls /\ task[f] # "none"
  BY PipelineAssumption DEF PipeInv, TypeOK, LeaseInv, AnswerRateLimited
<1>2. PICK header \in Headers :
        LET a == [Attempt(f, 429) EXCEPT
                    !.row = OnRateLimited(rows[f], clock, ParseRetryAfter(header, clock))]
        IN  IF a.row.next_fetch_at > MaxInstant
            THEN Fail(f, Attempt(f, 429), "other") ELSE Commit(f, a)
  BY DEF AnswerRateLimited
<1> DEFINE after == ParseRetryAfter(header, clock)
           waits == OnRateLimited(rows[f], clock, after)
           a == [Attempt(f, 429) EXCEPT !.row = waits]
<1>3. after \in Hints /\ after \in Nat
  BY <1>1, HintsAssumption, LifecycleAssumption
<1>4. Fail(f, Attempt(f, 429), "other") \/ Commit(f, a)
  BY <1>2
<1>5. CASE Fail(f, Attempt(f, 429), "other")
  <2>1. /\ Attempt(f, 429) \in AttemptRecord /\ Attempt(f, 429).row = rows[f]
        /\ Attempt(f, 429).hint = 0 /\ EmptyHanded(f, Attempt(f, 429))
    <3>1. 429 \in Status
      BY DEF Status
    <3> QED BY <1>1, <3>1, AttemptType DEF PipeInv
  <2> QED BY <1>1, <1>5, <2>1, FailCompletes
<1>6. CASE Commit(f, a)
  <2> DEFINE r == RateLimited(after)
  <2> HIDE DEF after
  <2>0. waits \in Feed
    <3>1. clock + Larger(after, BaseInterval) \in Int
      BY <1>1, <1>3, LifecycleAssumption DEF Larger
    <3> QED BY <1>1, <3>1 DEF OnRateLimited, Feed, ErrorCode
  <2> HIDE DEF waits
  <2>1. /\ a \in AttemptRecord /\ a.status = 429 /\ a.row = waits /\ ~a.failed
        /\ EmptyHanded(f, a) /\ ~a.wrote
    <3> DEFINE b == Attempt(f, 429)
    <3>1. b \in AttemptRecord /\ b.status = 429 /\ ~b.failed /\ EmptyHanded(f, b)
      BY AttemptType DEF PipeInv, Status
    <3> HIDE DEF b
    <3> QED BY <2>0, <3>1 DEF AttemptRecord, EmptyHanded, b
  <2> HIDE DEF a
  <2>2. Over(f, a) /\ Written(f, waits, a)
    BY <1>1, <1>6, <2>1, CommitEnds
  <2>3. r \in Responses(rows[f]) /\ r.kind = "rate_limited" /\ r.hint = after
    <3>1. r.kind = "rate_limited" /\ r.hint = after
      BY DEF RateLimited
    <3>2. r \in AnyResponse
      BY <1>3 DEF AnyResponse
    <3> QED BY <3>1, <3>2 DEF Responses
  <2>4. tried = rows[f]
    BY <1>1 DEF Feed
  <2> HIDE DEF r
  <2>5. ASSUME NEW w, NEW j PROVE FetchOne(rows[f], t, r, w, j) = waits
    BY <2>3, <2>4 DEF FetchOne, waits
  <2>6. ASSUME NEW w, NEW j PROVE CompletesAs(f, r, w, j, a)
    BY <2>1, <2>2, <2>5 DEF CompletesAs
  <2>7. PICK w \in WeeklyCounts, j \in Jitters : TRUE
    BY LifecycleAssumption
  <2>8. CompletesAs(f, r, w, j, a)
    BY <2>6, Zenon
  <2> QED BY <2>1, <2>3, <2>7, <2>8, Zenon DEF Completes
<1> QED BY <1>4, <1>5, <1>6

\* Every other branch that ends an attempt completes it.
LEMMA OtherEnds ==
  ASSUME PipeInv, NEW f \in Feeds,
         \/ FailGuard(f) \/ AnswerError(f) \/ AnswerNothing(f) \/ AnswerOk(f)
         \/ FallbackFails(f) \/ FallbackAnswers(f)
  PROVE  Completes(f)
<1>1. TypeOK /\ {0, 200, 304, 403, 410, 500} \subseteq Status
  BY DEF PipeInv, Status
<1>2. ASSUME NEW status \in Status, NEW code \in {"http_410", "other"},
             Fail(f, Attempt(f, status), code), task[f] # "none"
      PROVE  Completes(f)
  BY <1>1, <1>2, AttemptType, FailCompletes
<1>3. CASE FailGuard(f) \/ AnswerError(f) \/ AnswerNothing(f)
  <2>1. task[f] # "none"
    BY <1>3 DEF FailGuard, AnswerError, AnswerNothing
  <2>2. \E status \in Status, code \in {"http_410", "other"} : Fail(f, Attempt(f, status), code)
    BY <1>1, <1>3 DEF FailGuard, AnswerError, AnswerNothing
  <2> QED BY <1>2, <2>1, <2>2
<1>4. CASE FallbackFails(f)
  BY <1>1, <1>2, <1>4 DEF FallbackFails
<1>5. CASE AnswerOk(f)
  <2>1. PICK final \in Urls : LET a == [Attempt(f, 200) EXCEPT !.url = final]
                              IN  Fail(f, a, "other") \/ ReadPage(f, a)
    BY <1>5 DEF AnswerOk
  <2> DEFINE a == [Attempt(f, 200) EXCEPT !.url = final]
  <2>2. task[f] # "none"
    BY <1>5 DEF AnswerOk
  <2>3. /\ a \in AttemptRecord /\ a.row = rows[f] /\ a.hint = 0 /\ a.status = 200
        /\ EmptyHanded(f, a) /\ ~a.failed
    <3> DEFINE b == Attempt(f, 200)
    <3>1. /\ b \in AttemptRecord /\ b.row = rows[f] /\ b.hint = 0 /\ b.status = 200
          /\ EmptyHanded(f, b) /\ ~b.failed
      BY <1>1, AttemptType
    <3> HIDE DEF b
    <3>2. [b EXCEPT !.url = final] \in AttemptRecord
      BY <2>1, <3>1 DEF AttemptRecord
    <3> QED BY <3>1, <3>2 DEF AttemptRecord, EmptyHanded, b
  <2>4. Fail(f, a, "other") \/ ReadPage(f, a)
    BY <2>1
  <2> HIDE DEF a
  <2> QED BY <2>2, <2>3, <2>4, FailCompletes, ReadPageCompletes
<1>6. CASE FallbackAnswers(f)
  <2>1. PICK status \in {200, 304, 410} : ReadPage(f, Attempt(f, status))
    BY <1>6 DEF FallbackAnswers
  <2>2. task[f] \in {"refused", "fallback"} /\ task[f] # "none"
    BY <1>6 DEF FallbackAnswers
  <2>3. status \in Status
    BY <1>1, <2>1
  <2> QED BY <1>1, <2>1, <2>2, <2>3, AttemptType, ReadPageCompletes
<1> QED BY <1>3, <1>4, <1>5, <1>6
-----------------------------------------------------------------------------
(* What the end of an attempt does to its row *)

\* In every branch fetch_one leaves a row, and a success is dated now.
LEMMA FetchOneConfirms ==
  ASSUME NEW feed \in Feed, NEW r \in Responses(feed), NEW w \in WeeklyCounts, NEW j \in Jitters,
         NEW t \in Nat, feed.last_attempt_at = t
  PROVE  LET new == FetchOne(feed, t, r, w, j)
         IN  new \in Feed /\ (r.kind = "success" => new.last_successful_fetch_at = t)
<1> DEFINE tried == [feed EXCEPT !.last_attempt_at = t]
           new == FetchOne(feed, t, r, w, j)
<1>1. tried = feed /\ t \in Int
  BY DEF Feed
<1>2. /\ r \in Response /\ r.hint \in Nat /\ r.validator \in BOOLEAN /\ w \in Nat /\ j \in Int
  <2>1. r \in Response
    BY ResponsesType, Zenon
  <2> QED BY <2>1, LifecycleAssumption DEF Response
<1>3. new \in Feed
  BY <1>1, <1>2, FetchOneType
<1>4. ASSUME r.kind = "success" PROVE new.last_successful_fetch_at = t
  <2> DEFINE done == OnSuccess(feed, t, r)
  <2>1. done \in Feed /\ done.last_successful_fetch_at = t
    BY <1>1, <1>2 DEF OnSuccess, MarkFetchSuccess, Feed, FeedStatus, ErrorCode
  <2>2. new = Rescheduled(done, t, w, r.hint, j)
    BY <1>1, <1>4 DEF FetchOne
  <2> HIDE DEF done, new
  <2> QED BY <2>1, <2>2 DEF Rescheduled, Feed
<1> QED BY <1>3, <1>4

\* Either form of an end, with its row: typed, and dated now if anything comes
\* with it.
EndsWith(f, row, a) ==
  /\ Over(f, a)
  /\ Written(f, row, a)
  /\ EmptyHanded(f, a) \/ (row.last_successful_fetch_at = clock /\ ~a.failed)
  /\ a.wrote => a.stored = clock
  /\ ~a.failed /\ a.status \notin {200, 304, 429} => task[f] \in {"refused", "fallback"}

\* Every end of an attempt is such an end.
LEMMA EndsAreConfirmed ==
  ASSUME PipeInv, NEW f \in Feeds, task[f] # "none", Completes(f) \/ Overflows(f)
  PROVE  \E row \in Feed, a \in AttemptRecord : EndsWith(f, row, a)
<1>1. /\ rows[f] \in Feed /\ clock \in Nat /\ clock \in Int
      /\ rows[f].last_attempt_at = clock
  BY PipelineAssumption DEF PipeInv, TypeOK, LeaseInv
<1>2. CASE Completes(f)
  <2>1. PICK r \in Responses(rows[f]), w \in WeeklyCounts, j \in Jitters, a \in AttemptRecord :
          CompletesAs(f, r, w, j, a)
    BY <1>2, Zenon DEF Completes
  <2> DEFINE row == FetchOne(rows[f], clock, r, w, j)
  <2>2. row \in Feed /\ (r.kind = "success" => row.last_successful_fetch_at = clock)
    BY <1>1, <2>1, FetchOneConfirms
  <2>3. EndsWith(f, row, a)
    BY <2>1, <2>2, Zenon DEF CompletesAs, EndsWith
  <2> QED BY <2>1, <2>2, <2>3, Zenon
<1>3. CASE Overflows(f)
  <2> DEFINE code == "other"
             seen == OnNotModified(rows[f], clock)
             failed == MarkFetchFailure(seen, clock, code)
  <2>1. PICK w \in WeeklyCounts, j \in Jitters, hint \in Nat, a \in AttemptRecord :
          /\ task[f] = "direct" /\ a.status = 304 /\ a.failed /\ EmptyHanded(f, a)
          /\ Over(f, a)
          /\ Written(f, Rescheduled(failed, clock, w, hint, j), a)
    BY <1>3, Zenon DEF Overflows
  <2>2. code \in ErrorCode /\ w \in Nat /\ j \in Int
    BY LifecycleAssumption DEF ErrorCode
  <2> HIDE DEF code
  <2>3. seen \in Feed
    BY <1>1, OnNotModifiedType
  <2> HIDE DEF seen
  <2>4. failed \in Feed
    BY <1>1, <2>2, <2>3, MarkFetchFailureType
  <2> HIDE DEF failed
  <2> DEFINE row == Rescheduled(failed, clock, w, hint, j)
  <2>5. row \in Feed
    BY <1>1, <2>1, <2>2, <2>4, RescheduledType
  <2>6. ~a.wrote
    BY <2>1 DEF EmptyHanded
  <2>7. EndsWith(f, row, a)
    BY <2>1, <2>6, Zenon DEF EndsWith
  <2> HIDE DEF row
  <2>8. a \in AttemptRecord
    BY <2>1
  <2> QED BY <2>5, <2>7, <2>8
<1> QED BY <1>2, <1>3

\* What KeptTogether allows a step to do to feed g.
KeptStep(g) ==
  LET kept      == stored'[g] # stored[g]
      vouched   == tagged'[g] # tagged[g]
      confirmed == rows'[g].last_successful_fetch_at # rows[g].last_successful_fetch_at
  IN  /\ kept \/ vouched =>
           ~ended'.failed /\ rows'[g].last_successful_fetch_at = clock
      /\ (vouched \/ confirmed) /\ ended'.feed = g /\ ended'.wrote => stored'[g] = clock

\* An attempt brings what it stores with its success, or nothing.
LEMMA EndIsKept ==
  ASSUME PipeInv, NEW f \in Feeds, task[f] # "none", Completes(f) \/ Overflows(f), NEW g \in Feeds
  PROVE  KeptStep(g)
<1>1. PICK row \in Feed, a \in AttemptRecord : EndsWith(f, row, a)
  BY EndsAreConfirmed, Zenon
<1>2. /\ rows \in [Feeds -> Feed] /\ stored \in [Feeds -> Fetched] /\ tagged \in [Feeds -> Fetched]
  BY DEF PipeInv, TypeOK
<1>3. ended'.feed = f /\ ended'.failed = a.failed /\ ended'.wrote = a.wrote
  BY <1>1 DEF EndsWith, Over
<1>4. CASE UNCHANGED dbVars
  BY <1>4 DEF dbVars, KeptStep
<1>5. CASE /\ rows' = [rows EXCEPT ![f] = row]
           /\ stored' = [stored EXCEPT ![f] = a.stored]
           /\ tagged' = [tagged EXCEPT ![f] = a.tagged]
  <2>1. CASE g # f
    <3>1. rows'[g] = rows[g] /\ stored'[g] = stored[g] /\ tagged'[g] = tagged[g]
      BY <1>2, <1>5, <2>1
    <3> QED BY <3>1 DEF KeptStep
  <2>2. CASE g = f
    <3>1. rows'[g] = row /\ stored'[g] = a.stored /\ tagged'[g] = a.tagged
      BY <1>2, <1>5, <2>2
    <3>2. EmptyHanded(f, a) \/ (row.last_successful_fetch_at = clock /\ ~a.failed)
      BY <1>1 DEF EndsWith
    <3>3. a.wrote => a.stored = clock
      BY <1>1 DEF EndsWith
    <3> QED BY <1>3, <2>2, <3>1, <3>2, <3>3 DEF KeptStep, EmptyHanded
  <2> QED BY <2>1, <2>2
<1> QED BY <1>1, <1>4, <1>5 DEF EndsWith, Written

\* The end of an attempt keeps the invariant, and takes an error status for a
\* success on hosts in refused only.
LEMMA EndKeepsInv ==
  ASSUME PipeInv, NEW f \in Feeds, task[f] # "none", Completes(f) \/ Overflows(f),
         \/ fallback' = fallback
         \/ task[f] = "refused" /\ fallback' = fallback \cup {HostOf[url[f]]}
  PROVE  /\ PipeInv'
         /\ ended'.feed = f
         /\ ~ended'.failed /\ ended'.status \notin {200, 304, 429} => HostOf[url[f]] \in refused
<1>1. PICK row \in Feed, a \in AttemptRecord : EndsWith(f, row, a)
  BY EndsAreConfirmed, Zenon
<1>2. /\ task' = [task EXCEPT ![f] = "none"]
      /\ ended' = [feed |-> f, status |-> a.status, failed |-> a.failed, wrote |-> a.wrote]
      /\ clock' = clock /\ refused' = refused /\ faults' \in 0..MaxFaults
  BY <1>1 DEF EndsWith, Over
<1>3. \/ rows' = rows /\ url' = url /\ stored' = stored /\ tagged' = tagged
      \/ /\ rows' = [rows EXCEPT ![f] = row]
         /\ url' = [url EXCEPT ![f] = a.url]
         /\ stored' = [stored EXCEPT ![f] = a.stored]
         /\ tagged' = [tagged EXCEPT ![f] = a.tagged]
  BY <1>1 DEF EndsWith, Written, dbVars
<1>4. TypeOK'
  <2>0. a.url \in Urls /\ a.stored \in Fetched /\ a.tagged \in Fetched
    BY DEF AttemptRecord
  <2>1. /\ rows' \in [Feeds -> Feed] /\ url' \in [Feeds -> Urls]
        /\ stored' \in [Feeds -> Fetched] /\ tagged' \in [Feeds -> Fetched]
    BY <1>1, <1>3, <2>0 DEF PipeInv, TypeOK
  <2>2. task' \in [Feeds -> {"none", "guard", "direct", "refused", "fallback"}]
    BY <1>2 DEF PipeInv, TypeOK
  <2>3. fallback' \subseteq Hosts
    BY DEF PipeInv, TypeOK, Hosts
  <2>4. ended' \in [feed : Feeds, status : Status, failed : BOOLEAN, wrote : BOOLEAN]
    BY <1>1, <1>2 DEF AttemptRecord
  <2> QED BY <1>2, <2>1, <2>2, <2>3, <2>4 DEF PipeInv, TypeOK, Hosts
<1>6. LeaseInv' /\ RefusalInv'
  <2>1. ASSUME NEW g \in Feeds, task'[g] # "none"
        PROVE  g # f /\ task'[g] = task[g] /\ rows'[g] = rows[g] /\ url'[g] = url[g]
    BY <1>2, <1>3, <2>1 DEF PipeInv, TypeOK
  <2>2. LeaseInv'
    BY <1>2, <2>1 DEF PipeInv, LeaseInv
  <2>3. fallback' \subseteq refused'
    BY <1>2 DEF PipeInv, RefusalInv
  <2> QED BY <1>2, <2>1, <2>2, <2>3 DEF PipeInv, RefusalInv
<1>7. ended'.feed = f /\ ended'.failed = a.failed /\ ended'.status = a.status
  BY <1>2
<1>8. ~a.failed /\ a.status \notin {200, 304, 429} => HostOf[url[f]] \in refused
  BY <1>1 DEF EndsWith, PipeInv, RefusalInv
<1> QED BY <1>4, <1>6, <1>7, <1>8 DEF PipeInv

\* Which steps end an attempt, and what they remember.
LEMMA TaskStepEnds ==
  ASSUME PipeInv, NEW f \in Feeds, TaskStep(f), ~PassGuard(f), ~AnswerRefused(f)
  PROVE  /\ task[f] # "none"
         /\ \/ Completes(f)
            \/ Overflows(f) /\ AnswerNotModified(f)
         /\ \/ fallback' = fallback
            \/ task[f] = "refused" /\ fallback' = fallback \cup {HostOf[url[f]]}
<1> USE DEF TaskStep
<1>1. task[f] # "none"
  BY DEF PassGuard, FailGuard, AnswerNotModified, AnswerRateLimited, AnswerRefused,
         AnswerError, AnswerNothing, AnswerOk, FallbackFails, FallbackAnswers
<1>2. \/ fallback' = fallback
      \/ task[f] = "refused" /\ fallback' = fallback \cup {HostOf[url[f]]}
  BY DEF FailGuard, AnswerNotModified, AnswerRateLimited,
         AnswerError, AnswerNothing, AnswerOk, FallbackFails, FallbackAnswers
<1>3. Completes(f) \/ (Overflows(f) /\ AnswerNotModified(f))
  BY NotModifiedEnds, RateLimitedEnds, OtherEnds
<1> QED BY <1>1, <1>2, <1>3
-----------------------------------------------------------------------------
(* The invariant *)

\* No feed has been fetched at first.
LEMMA PipeInit == Init => PipeInv
<1> SUFFICES ASSUME Init PROVE PipeInv
  OBVIOUS
<1>1. NewFeed(0, 0) \in Feed
  BY NewFeedType
<1>2. TypeOK
  BY <1>1, PipelineAssumption DEF Init, TypeOK, Fetched
<1> QED BY <1>1, <1>2 DEF Init, PipeInv, LeaseInv, RefusalInv

\* tick_once's claim leases at the present instant and touches nothing else.
LEMMA StartTickKeepsInv == ASSUME PipeInv, StartTick PROVE PipeInv'
<1> DEFINE due == {f \in Feeds : Claimable(rows[f], clock)}
<1>1. /\ rows' = [f \in Feeds |-> IF f \in due THEN Leased(rows[f], clock) ELSE rows[f]]
      /\ task' = [f \in Feeds |-> IF f \in due THEN "guard" ELSE "none"]
      /\ UNCHANGED <<url, stored, tagged, fallback, clock, faults, refused>> /\ ended' = NoAttempt
  BY DEF StartTick
<1>2. clock \in Int
  BY DEF PipeInv, TypeOK
<1>3. ASSUME NEW f \in Feeds
      PROVE  /\ rows'[f] \in Feed
             /\ task'[f] # "none" => task'[f] = "guard" /\ rows'[f].last_attempt_at = clock
  <2>1. rows[f] \in Feed
    BY DEF PipeInv, TypeOK
  <2>2. CASE f \in due
    <3>1. rows'[f] = Leased(rows[f], clock) /\ task'[f] = "guard"
      BY <1>1, <2>2
    <3> QED BY <1>2, <2>1, <3>1, LeasedType DEF Leased, Feed
  <2>3. CASE f \notin due
    BY <1>1, <2>1, <2>3
  <2> QED BY <2>2, <2>3
<1>4. TypeOK'
  <2>1. rows' \in [Feeds -> Feed]
    BY <1>1, <1>3
  <2>2. task' \in [Feeds -> {"none", "guard", "direct", "refused", "fallback"}]
    BY <1>1
  <2> QED BY <1>1, <2>1, <2>2 DEF PipeInv, TypeOK, Hosts
<1> HIDE DEF due
<1>5. LeaseInv'
  BY <1>1, <1>3 DEF PipeInv, LeaseInv
<1>6. RefusalInv'
  BY <1>1, <1>3 DEF PipeInv, RefusalInv
<1> QED BY <1>4, <1>5, <1>6 DEF PipeInv

\* The invariant is inductive.
LEMMA PipeStep == PipeInv /\ [Next]_vars => PipeInv'
<1> SUFFICES ASSUME PipeInv, [Next]_vars PROVE PipeInv'
  OBVIOUS
<1>1. CASE StartTick
  BY <1>1, StartTickKeepsInv
<1>2. ASSUME NEW f \in Feeds, PassGuard(f) PROVE PipeInv'
  <2>1. /\ task' = [task EXCEPT ![f] = IF HostOf[url[f]] \in fallback THEN "fallback" ELSE "direct"]
        /\ UNCHANGED <<rows, url, stored, tagged, fallback, clock, faults, refused>>
        /\ ended' = NoAttempt /\ task[f] # "none"
    BY <1>2 DEF PassGuard, dbVars
  <2>2. TypeOK'
    BY <2>1 DEF PipeInv, TypeOK, Hosts
  <2>3. LeaseInv'
    BY <2>1 DEF PipeInv, TypeOK, LeaseInv
  <2>4. RefusalInv'
    BY <2>1 DEF PipeInv, TypeOK, RefusalInv
  <2> QED BY <2>2, <2>3, <2>4 DEF PipeInv
<1>3. ASSUME NEW f \in Feeds, AnswerRefused(f) PROVE PipeInv'
  <2>1. /\ task' = [task EXCEPT ![f] = "refused"]
        /\ refused' = refused \cup {HostOf[url[f]]}
        /\ UNCHANGED <<rows, url, stored, tagged, fallback, clock, faults>>
        /\ ended' = NoAttempt /\ task[f] # "none"
    BY <1>3 DEF AnswerRefused, dbVars
  <2>2. TypeOK'
    BY <2>1 DEF PipeInv, TypeOK, Hosts
  <2>3. LeaseInv'
    BY <2>1 DEF PipeInv, TypeOK, LeaseInv
  <2>4. RefusalInv'
    BY <2>1 DEF PipeInv, TypeOK, RefusalInv
  <2> QED BY <2>2, <2>3, <2>4 DEF PipeInv
<1>4. ASSUME NEW f \in Feeds, TaskStep(f), ~PassGuard(f), ~AnswerRefused(f) PROVE PipeInv'
  BY <1>4, TaskStepEnds, EndKeepsInv
<1>5. CASE Restart
  <2>1. TypeOK'
    BY <1>5, PipelineAssumption DEF Restart, PipeInv, TypeOK, dbVars, Hosts
  <2> QED BY <1>5, <2>1 DEF Restart, PipeInv, LeaseInv, RefusalInv, dbVars
<1>6. CASE Wait
  <2>1. TypeOK'
    BY <1>6, PipelineAssumption DEF Wait, PipeInv, TypeOK, dbVars, Hosts
  <2> QED BY <1>6, <2>1 DEF Wait, Idle, PipeInv, LeaseInv, RefusalInv, dbVars
<1>7. CASE UNCHANGED vars
  BY <1>7 DEF vars, dbVars, PipeInv, TypeOK, Hosts, LeaseInv, RefusalInv
<1> QED BY <1>1, <1>2, <1>3, <1>4, <1>5, <1>6, <1>7 DEF Next
-----------------------------------------------------------------------------
(* The abstract feed *)

\* AtomicFeed is about the same handlers: its copies of the operators of
\* FeedLifecycle are these.
LEMMA SameClaim ==
  ASSUME NEW f, NEW feed, NEW t
  PROVE  /\ Atomic(f)!Claimable(feed, t) = Claimable(feed, t)
         /\ Atomic(f)!Leased(feed, t) = Leased(feed, t)
BY DEF Atomic!Leased, Leased, Atomic!Claimable, Claimable, Atomic!Null, Null

\* The timer of policy.py.
LEMMA SameTimer ==
  ASSUME NEW f, NEW feed, NEW t, NEW w, NEW h, NEW j
  PROVE  Atomic(f)!Rescheduled(feed, t, w, h, j) = Rescheduled(feed, t, w, h, j)
BY DEF Atomic!Rescheduled, Rescheduled, Atomic!ComputeNextFetchAt, ComputeNextFetchAt,
       Atomic!Backoff, Backoff, Atomic!PollInterval, PollInterval, Atomic!Larger, Larger,
       Atomic!Smaller, Smaller

\* A 200 and a 304.
LEMMA SameSuccess ==
  ASSUME NEW f, NEW feed, NEW t, NEW r
  PROVE  /\ Atomic(f)!OnSuccess(feed, t, r) = OnSuccess(feed, t, r)
         /\ Atomic(f)!OnNotModified(feed, t) = OnNotModified(feed, t)
BY DEF Atomic!OnSuccess, OnSuccess, Atomic!MarkFetchSuccess, MarkFetchSuccess,
       Atomic!OnNotModified, OnNotModified

\* A failure and a 429.
LEMMA SameFailure ==
  ASSUME NEW f, NEW feed, NEW t, NEW c, NEW h
  PROVE  /\ Atomic(f)!MarkFetchFailure(feed, t, c) = MarkFetchFailure(feed, t, c)
         /\ Atomic(f)!OnRateLimited(feed, t, h) = OnRateLimited(feed, t, h)
BY DEF Atomic!MarkFetchFailure, MarkFetchFailure, Atomic!SinceSuccess, SinceSuccess,
       Atomic!Null, Null, Atomic!OnRateLimited, OnRateLimited, Atomic!Larger, Larger

\* The whole of fetch_one.
LEMMA SameFetch ==
  ASSUME NEW f, NEW feed, NEW t, NEW r, NEW w, NEW j
  PROVE  Atomic(f)!FetchOne(feed, t, r, w, j) = FetchOne(feed, t, r, w, j)
BY SameTimer, SameSuccess, SameFailure, Zenon DEF Atomic!FetchOne, FetchOne

\* What a server may answer.
LEMMA SameResponses ==
  ASSUME NEW f, NEW feed
  PROVE  Atomic(f)!Responses(feed) = Responses(feed)
BY DEF Atomic!Responses, Responses, Atomic!AnyResponse, AnyResponse, Atomic!Success, Success,
       Atomic!NotModified, NotModified, Atomic!RateLimited, RateLimited, Atomic!Failure, Failure

\* A lease taken is a Claim of the abstract feed.
LEMMA LeaseIsClaim ==
  ASSUME NEW f \in Feeds, clock \in Nat, task[f] = "none", task'[f] # "none",
         Claimable(rows[f], clock), rows'[f] = Leased(rows[f], clock)
  PROVE  Atomic(f)!FeedStep
<1>1. clock \in 0..(clock + 0)
  OBVIOUS
<1>2. Atomic(f)!Claim
  BY <1>1, SameClaim DEF Atomic!Claim
<1> QED BY <1>2 DEF Atomic!FeedStep

\* A task that ends without having written is an Abandon.
LEMMA NothingIsAbandon ==
  ASSUME NEW f \in Feeds, task[f] # "none", task'[f] = "none", rows'[f] = rows[f]
  PROVE  Atomic(f)!FeedStep
<1>1. Atomic(f)!Abandon
  BY DEF Atomic!Abandon
<1> QED BY <1>1 DEF Atomic!FeedStep

\* A task that ends with the row of FetchOne is a Complete.
LEMMA FetchOneIsComplete ==
  ASSUME NEW f \in Feeds, NEW r \in Responses(rows[f]), NEW w \in WeeklyCounts, NEW j \in Jitters,
         task[f] # "none", task'[f] = "none", rows[f].last_attempt_at = clock,
         rows'[f] = FetchOne(rows[f], clock, r, w, j)
  PROVE  Atomic(f)!FeedStep
<1>1. Atomic(f)!Complete
  BY SameFetch, SameResponses DEF Atomic!Complete
<1> QED BY <1>1 DEF Atomic!FeedStep

\* What FetchIsAtomic allows a step to do to feed g.
AtomicStep(g) ==
  \/ Atomic(g)!FeedStep
  \/ UNCHANGED <<rows[g], task[g] = "none">>
  \/ /\ task[g] = "direct"
     /\ ended'.feed = g /\ ended'.status = 304 /\ ended'.failed

\* An attempt that ends is one step of its own feed and none of the others.
LEMMA EndIsAtomic ==
  ASSUME PipeInv, NEW f \in Feeds, task[f] # "none", Completes(f) \/ Overflows(f), NEW g \in Feeds
  PROVE  AtomicStep(g)
<1>1. /\ rows \in [Feeds -> Feed] /\ rows[f].last_attempt_at = clock
      /\ task \in [Feeds -> {"none", "guard", "direct", "refused", "fallback"}]
  BY DEF PipeInv, TypeOK, LeaseInv
<1>2. CASE g # f
  <2>1. task' = [task EXCEPT ![f] = "none"] /\ (rows' = rows \/ \E row : rows' = [rows EXCEPT ![f] = row])
    <3>1. PICK row, a : Over(f, a) /\ Written(f, row, a)
      BY Zenon DEF Completes, CompletesAs, Overflows
    <3> QED BY <3>1 DEF Over, Written, dbVars
  <2>2. rows'[g] = rows[g] /\ task'[g] = task[g]
    BY <1>1, <1>2, <2>1
  <2> QED BY <2>2 DEF AtomicStep
<1>3. CASE g = f /\ Completes(f)
  <2>1. PICK r \in Responses(rows[f]), w \in WeeklyCounts, j \in Jitters, a \in AttemptRecord :
          CompletesAs(f, r, w, j, a)
    BY <1>3, Zenon DEF Completes
  <2>2. Over(f, a) /\ Written(f, FetchOne(rows[f], clock, r, w, j), a)
    BY <2>1 DEF CompletesAs
  <2>3. task'[f] = "none"
    BY <1>1, <2>2 DEF Over
  <2>4. rows'[f] = rows[f] \/ rows'[f] = FetchOne(rows[f], clock, r, w, j)
    BY <1>1, <2>2 DEF Written, dbVars
  <2>5. Atomic(f)!FeedStep
    BY <1>1, <2>1, <2>3, <2>4, NothingIsAbandon, FetchOneIsComplete
  <2> QED BY <1>3, <2>5 DEF AtomicStep
<1>4. CASE g = f /\ Overflows(f)
  BY <1>4 DEF Overflows, Over, AtomicStep
<1> QED BY <1>2, <1>3, <1>4

\* Every step of the pipeline is an abstract step of each feed, or leaves it
\* alone.
LEMMA StepIsAtomic ==
  ASSUME PipeInv, Next, NEW g \in Feeds
  PROVE  AtomicStep(g)
<1>1. CASE StartTick
  <2> DEFINE due == {f \in Feeds : Claimable(rows[f], clock)}
  <2>1. /\ rows' = [f \in Feeds |-> IF f \in due THEN Leased(rows[f], clock) ELSE rows[f]]
        /\ task' = [f \in Feeds |-> IF f \in due THEN "guard" ELSE "none"]
        /\ task[g] = "none" /\ clock \in Nat
    BY <1>1 DEF StartTick, Idle, PipeInv, TypeOK
  <2>2. CASE g \in due
    BY <2>1, <2>2, LeaseIsClaim DEF AtomicStep
  <2>3. CASE g \notin due
    BY <2>1, <2>3 DEF AtomicStep
  <2> QED BY <2>2, <2>3
<1>2. ASSUME NEW f \in Feeds, PassGuard(f) \/ AnswerRefused(f) PROVE AtomicStep(g)
  <2>1. rows' = rows /\ (task'[g] = "none" <=> task[g] = "none")
    BY <1>2 DEF PassGuard, AnswerRefused, dbVars, PipeInv, TypeOK
  <2> QED BY <2>1 DEF AtomicStep
<1>3. ASSUME NEW f \in Feeds, TaskStep(f), ~PassGuard(f), ~AnswerRefused(f) PROVE AtomicStep(g)
  BY <1>3, TaskStepEnds, EndIsAtomic
<1>4. CASE Restart
  <2>1. rows' = rows /\ task'[g] = "none"
    BY <1>4 DEF Restart, dbVars
  <2>2. CASE task[g] = "none"
    BY <2>1, <2>2 DEF AtomicStep
  <2>3. CASE task[g] # "none"
    BY <2>1, <2>3, NothingIsAbandon DEF AtomicStep
  <2> QED BY <2>2, <2>3
<1>5. CASE Wait
  BY <1>5 DEF Wait, dbVars, AtomicStep
<1> QED BY <1>1, <1>2, <1>3, <1>4, <1>5 DEF Next
-----------------------------------------------------------------------------
(* The theorems *)

\* fetch_one, _process_feed: rows stay rows and the shared set holds hosts only,
\* for any number of feeds and URLs.
THEOREM PipelineTyped == Spec => []TypeOK
<1>1. PipeInv => TypeOK
  BY DEF PipeInv
<1> QED BY <1>1, PipeInit, PipeStep, PTL DEF Spec

\* fetch_one, _process_feed: wherever an attempt raises and whatever is rolled
\* back, entries and validators are stored in the step that records the success
\* they came with, at its instant, and a success or validators never without
\* the entries of their document.
THEOREM StoredIsConfirmed == Spec => KeptTogether
<1>1. PipeInv /\ [Next]_vars => [\A f \in Feeds : KeptStep(f)]_vars
  <2> SUFFICES ASSUME PipeInv, Next, NEW g \in Feeds PROVE KeptStep(g)
    OBVIOUS
  <2>1. CASE StartTick
    <3> DEFINE due == {f \in Feeds : Claimable(rows[f], clock)}
    <3>1. /\ rows' = [f \in Feeds |-> IF f \in due THEN Leased(rows[f], clock) ELSE rows[f]]
          /\ stored' = stored /\ tagged' = tagged /\ rows[g] \in Feed
      BY <2>1 DEF StartTick, PipeInv, TypeOK
    <3>2. rows'[g] = Leased(rows[g], clock) \/ rows'[g] = rows[g]
      BY <3>1
    <3>3. rows'[g].last_successful_fetch_at = rows[g].last_successful_fetch_at
      BY <3>1, <3>2 DEF Leased, Feed
    <3> QED BY <3>1, <3>3 DEF KeptStep
  <2>2. ASSUME NEW f \in Feeds, TaskStep(f), ~PassGuard(f), ~AnswerRefused(f) PROVE KeptStep(g)
    BY <2>2, TaskStepEnds, EndIsKept
  <2>3. CASE UNCHANGED dbVars
    BY <2>3 DEF dbVars, KeptStep
  <2> QED BY <2>1, <2>2, <2>3 DEF Next, PassGuard, AnswerRefused, Restart, Wait
<1> QED BY <1>1, PipeInit, PipeStep, PTL DEF Spec, KeptTogether, KeptStep

\* _DOMAINS_NEEDING_FALLBACK: the client that ignores status codes is used, on
\* any feed's behalf, only for hosts one of whose URLs ended in a 403 here.
THEOREM FallbackFollowsRefusal == Spec => BlindOnlyAfterRefusal
<1> DEFINE Blind == \A f \in Feeds :
              ended'.feed = f /\ ~ended'.failed /\ ended'.status \notin {200, 304, 429} =>
                HostOf[url[f]] \in refused
<1>1. PipeInv /\ [Next]_vars => [Blind]_vars
  <2> SUFFICES ASSUME PipeInv, Next, NEW f \in Feeds, ended'.feed = f, ~ended'.failed,
                      ended'.status \notin {200, 304, 429}
               PROVE  HostOf[url[f]] \in refused
    OBVIOUS
  <2>1. CASE ended' = NoAttempt
    BY <2>1, PipelineAssumption DEF NoAttempt
  <2>2. ASSUME NEW g \in Feeds, TaskStep(g), ~PassGuard(g), ~AnswerRefused(g)
        PROVE  HostOf[url[f]] \in refused
    BY <2>2, TaskStepEnds, EndKeepsInv
  <2> QED BY <2>1, <2>2 DEF Next, StartTick, TaskStep, PassGuard, AnswerRefused, Restart, Wait
<1> QED BY <1>1, PipeInit, PipeStep, PTL DEF Spec, BlindOnlyAfterRefusal

\* fetch_one, _process_feed: the row of an attempt ends as FetchOne makes it or
\* keeps its lease; every step implements a step of AtomicFeed.
THEOREM PipelineImplementsFeed == Spec => FetchIsAtomic
<1>1. PipeInv /\ [Next]_vars => [\A f \in Feeds : AtomicStep(f)]_vars
  BY StepIsAtomic
<1> QED BY <1>1, PipeInit, PipeStep, PTL DEF Spec, FetchIsAtomic, AtomicStep
=============================================================================
