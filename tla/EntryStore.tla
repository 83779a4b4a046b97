----------------------------- MODULE EntryStore -----------------------------
(***************************************************************************)
(* The entries table: fetch sessions that upsert the entries of a document, *)
(* retention sweeps, and the cascade of a feed's deletion, all at once on    *)
(* one Postgres in READ COMMITTED.                                          *)
(*                                                                         *)
(* A session writes one statement per entry and commits at the end; until   *)
(* then its rows are its own (pending) and the keys it touched are locked,  *)
(* also where nothing was changed.  A sweep picks its victims on the        *)
(* snapshot its DELETE starts from and removes them when it has all locks.  *)
(* Every worker process runs a sweeper of its own.                          *)
(*                                                                         *)
(* A document is the sequence of entries parse_feed returns and stands for  *)
(* its ETag as well; url, title, content, author and published_at are one   *)
(* content.  A 200 may carry no ETag: the stored one stays.                 *)
(***************************************************************************)
EXTENDS Integers, Sequences, FiniteSets, Functions

CONSTANTS
  Feeds,             \* feed ids
  NoFeed,            \* the feed of a session that is closed
  Guids,             \* entry guids
  Contents,          \* what the compared columns of an entry may hold
  Documents,         \* the documents a server may answer with
  NoDocument,        \* no ETag stored
  Sessions,          \* sessions of _process_feed
  Sweepers,          \* sessions of retention.tick_once
  RetentionDays,     \* settings.retention_days
  MinPerFeed,        \* settings.retention_min_per_feed
  BatchSize,         \* settings.retention_batch_size, 0 for no batches
  MaxPerFetch,       \* settings.fetch_max_entries_per_fetch
  MaxInitial,        \* settings.fetch_max_entries_initial
  TickBudget,        \* longest time from a tick's clock reading to a session
  MaxClock,          \* bound: the last instant of a behaviour
  MaxId,             \* bound: rows inserted
  MaxFaults          \* bound: sweeps that fail

ASSUME StoreAssumption ==
  /\ Documents \subseteq Seq([guid : Guids, content : Contents])
  /\ NoDocument \notin Documents /\ NoFeed \notin Feeds
  /\ RetentionDays \in Nat /\ MinPerFeed \in Nat /\ BatchSize \in Nat
  /\ MaxPerFetch \in Nat \ {0} /\ MaxInitial \in Nat \ {0}
  /\ TickBudget \in Nat /\ MaxClock \in Nat /\ MaxId \in Nat /\ MaxFaults \in Nat

VARIABLES
  entries,     \* the committed rows
  lastId,      \* the entries id sequence
  live,        \* feeds that have a row
  etag,        \* etag[f]: the validator column of f
  session,     \* session[s]: what session s is doing
  sweep,       \* sweep[p]: the victims of p's DELETE under way, or idle
  swept,       \* history: entries a sweep took since the ETag was stored
  since,       \* since[f], history: the ETag's document and those stored after it
  clock, faults

vars == <<entries, lastId, live, etag, session, sweep, swept, since, clock, faults>>

\* models.Entry
Entry ==
  [id : Nat, feed : Feeds, guid : Guids, content : Contents,
   fetched_at : Int, content_updated_at : Int]

\* feed, now: the arguments of fetch_one. begun: the transaction's start, which
\* is what SQL now() returns. doc: the body received.
\* todo: entries still to upsert. pending: rows written. touched: keys locked.
Session ==
  [state : {"closed", "requesting", "upserting"}, feed : Feeds \cup {NoFeed}, now : Int,
   begun : Int, doc : Documents \cup {NoDocument},
   todo : Seq([guid : Guids, content : Contents]), pending : SUBSET Entry,
   touched : SUBSET Guids]

Closed ==
  [state |-> "closed", feed |-> NoFeed, now |-> 0, begun |-> 0,
   doc |-> NoDocument, todo |-> <<>>, pending |-> {}, touched |-> {}]

Idle == [running |-> FALSE, victims |-> {}]

TypeOK ==
  /\ entries \subseteq Entry /\ lastId \in 0..MaxId
  /\ live \subseteq Feeds
  /\ DOMAIN etag = Feeds /\ \A f \in Feeds : etag[f] \in Documents \cup {NoDocument}
  /\ DOMAIN session = Sessions
  /\ \A s \in Sessions :
       /\ session[s].state \in {"closed", "requesting", "upserting"}
       /\ session[s].pending \subseteq Entry /\ session[s].touched \subseteq Guids
  /\ DOMAIN sweep = Sweepers /\ \A p \in Sweepers : sweep[p].victims \subseteq 1..MaxId
  /\ swept \subseteq Feeds \X Guids
  /\ DOMAIN since = Feeds /\ \A f \in Feeds : since[f] \subseteq Documents
  /\ clock \in 0..MaxClock /\ faults \in 0..MaxFaults

Init ==
  /\ entries = {}
  /\ lastId = 0
  /\ live = Feeds
  /\ etag = [f \in Feeds |-> NoDocument]
  /\ session = [s \in Sessions |-> Closed]
  /\ sweep = [p \in Sweepers |-> Idle]
  /\ swept = {}
  /\ since = [f \in Feeds |-> {}]
  /\ clock = 0
  /\ faults = 0
-----------------------------------------------------------------------------
(* A fetch session *)

\* _process_feed opens its transaction and loads the row, some time after
\* tick_once read the clock.
OpenSession(s) ==
  /\ session[s].state = "closed"
  /\ \E f \in live, now \in (clock - TickBudget)..clock :
       session' = [session EXCEPT ![s] =
         [Closed EXCEPT !.state = "requesting", !.feed = f, !.now = now,
                        !.begun = clock]]
  /\ UNCHANGED <<entries, lastId, live, etag, sweep, swept, since, clock, faults>>

\* The caps of fetch_one: one for every fetch, one for a feed without entries.
Capped(doc, hasExisting) ==
  LET cap == IF hasExisting \/ MaxPerFetch <= MaxInitial THEN MaxPerFetch ELSE MaxInitial
  IN  SubSeq(doc, 1, IF Len(doc) > cap THEN cap ELSE Len(doc))

\* A 200 with a document that parses, be it the one of the ETag that was sent.
Receive(s) ==
  /\ session[s].state = "requesting"
  /\ \E doc \in Documents :
       session' = [session EXCEPT
         ![s].state = "upserting",
         ![s].doc = doc,
         ![s].todo = Capped(doc, \E e \in entries : e.feed = session[s].feed)]
  /\ UNCHANGED <<entries, lastId, live, etag, sweep, swept, since, clock, faults>>

\* A key one session has inserted, updated or merely compared is locked until
\* that session ends.
KeyLocked(s, f, guid) ==
  \E o \in Sessions \ {s} : session[o].feed = f /\ guid \in session[o].touched

\* Mutant of Visible: the conflict clause knows the rows of the call only.
VisibleOwn(s, guid) == {e \in session[s].pending : e.guid = guid}

\* The row of a key as session s sees it: its own version, else the committed.
Visible(s, guid) ==
  LET own == {e \in session[s].pending : e.guid = guid}
  IN  IF own # {} THEN own
      ELSE {e \in entries : e.feed = session[s].feed /\ e.guid = guid}

\* Mutant of Inserted: the parsed entry is stored in place of its content.
InsertedWhole(s, item) ==
  [id |-> lastId + 1, feed |-> session[s].feed, guid |-> item.guid,
   content |-> item, fetched_at |-> session[s].now,
   content_updated_at |-> session[s].now]

Inserted(s, item) ==
  [id |-> lastId + 1, feed |-> session[s].feed, guid |-> item.guid,
   content |-> item.content, fetched_at |-> session[s].now,
   content_updated_at |-> session[s].now]

\* Mutant of Updated: an edit restarts the retention clock.
UpdatedRejuvenated(s, row, item) ==
  [row EXCEPT !.content = item.content, !.content_updated_at = session[s].begun,
              !.fetched_at = session[s].now]

\* DO UPDATE SET ...: fetched_at is not in the list, and content_updated_at is
\* the database's now().
Updated(s, row, item) ==
  [row EXCEPT !.content = item.content, !.content_updated_at = session[s].begun]

\* One INSERT ... ON CONFLICT DO UPDATE ... WHERE ... IS DISTINCT FROM. It waits
\* for a lock on the key.
UpsertEntry(s) ==
  LET me == session[s]  item == Head(me.todo)
  IN  /\ me.state = "upserting" /\ me.todo # <<>>
      /\ me.feed \in live
      /\ ~KeyLocked(s, me.feed, item.guid)
      /\ \/ /\ Visible(s, item.guid) = {}
            /\ lastId < MaxId
            /\ lastId' = lastId + 1
            /\ session' = [session EXCEPT ![s].todo = Tail(@),
                 ![s].touched = @ \cup {item.guid},
                 ![s].pending = @ \cup {Inserted(s, item)}]
         \/ \E row \in Visible(s, item.guid) :
              /\ lastId' = lastId
              /\ session' = [session EXCEPT ![s].todo = Tail(@),
                   ![s].touched = @ \cup {item.guid},
                   ![s].pending = IF row.content = item.content THEN @
                                  ELSE (@ \ {row}) \cup {Updated(s, row, item)}]
      /\ UNCHANGED <<entries, live, etag, sweep, swept, since, clock, faults>>

\* mark_fetch_success, the ETag if the 200 carries one, and the commit of
\* _process_feed: what is stored becomes visible together. Without an ETag the
\* column keeps the one of an earlier document.
CommitSession(s) ==
  LET me == session[s]
      old == {e \in entries : \E p \in me.pending : p.id = e.id}
  IN  /\ me.state = "upserting" /\ me.todo = <<>>
      /\ me.feed \in live
      /\ entries' = (entries \ old) \cup me.pending
      /\ \/ /\ etag' = [etag EXCEPT ![me.feed] = me.doc]
            /\ since' = [since EXCEPT ![me.feed] = {me.doc}]
            /\ swept' = {k \in swept : k[1] # me.feed}
         \/ /\ etag' = etag
            /\ since' = [since EXCEPT ![me.feed] =
                  IF etag[me.feed] = NoDocument THEN {} ELSE @ \cup {me.doc}]
            /\ swept' = {k \in swept : k[1] # me.feed \/ k[2] \notin me.touched}
      /\ session' = [session EXCEPT ![s] = Closed]
      /\ UNCHANGED <<lastId, live, sweep, clock, faults>>

\* Mutant of AbandonSession: the ETag is kept although the entries are lost.
AbandonKeepingETag(s) ==
  /\ session[s].state # "closed"
  /\ session' = [session EXCEPT ![s] = Closed]
  /\ etag' = IF session[s].feed \in live
             THEN [etag EXCEPT ![session[s].feed] = session[s].doc] ELSE etag
  /\ UNCHANGED <<entries, lastId, live, sweep, swept, since, clock, faults>>

\* A 304, a 429, a failed fetch or a rollback: no entry changes. Deadlock
\* victims, foreign key violations, crashes and lost connections end here.
AbandonSession(s) ==
  /\ session[s].state # "closed"
  /\ session' = [session EXCEPT ![s] = Closed]
  /\ UNCHANGED <<entries, lastId, live, etag, sweep, swept, since, clock, faults>>
-----------------------------------------------------------------------------
(* Retention *)

\* ORDER BY fetched_at DESC, id DESC
MoreRecent(d, e) ==
  d.fetched_at > e.fetched_at \/ (d.fetched_at = e.fetched_at /\ d.id > e.id)

\* Mutant of RowNumber: no PARTITION BY feed_id.
RowNumberOfAll(e) == 1 + Cardinality({d \in entries : MoreRecent(d, e)})

\* row_number() OVER (PARTITION BY feed_id ...)
RowNumber(e) == 1 + Cardinality({d \in entries : d.feed = e.feed /\ MoreRecent(d, e)})

\* Mutant of Keep: the time window is not kept.
KeepTopOnly(cutoff) == {e \in entries : RowNumber(e) <= MinPerFeed}

\* Mutant of Keep: one entry too many is kept.
KeepOneMore(cutoff) ==
  {e \in entries : e.fetched_at >= cutoff \/ RowNumber(e) <= MinPerFeed + 1}

\* time_window UNION top_n
Keep(cutoff) == {e \in entries : e.fetched_at >= cutoff \/ RowNumber(e) <= MinPerFeed}

Ids(rows) == {e.id : e \in rows}

\* The DELETE takes its snapshot. LIMIT has no ORDER BY.
StartSweep(p) ==
  LET doomed == Ids(entries \ Keep(clock - RetentionDays))
      size   == IF BatchSize > 0 /\ BatchSize < Cardinality(doomed)
                THEN BatchSize ELSE Cardinality(doomed)
  IN  /\ ~sweep[p].running
      /\ \E victims \in SUBSET doomed :
           /\ Cardinality(victims) = size
           /\ sweep' = [sweep EXCEPT ![p] = [running |-> TRUE, victims |-> victims]]
      /\ UNCHANGED <<entries, lastId, live, etag, session, swept, since, clock, faults>>

\* It has waited for the sessions that hold its victims, and commits. Victims
\* that are gone by then are skipped.
FinishSweep(p) ==
  LET gone == {e \in entries : e.id \in sweep[p].victims}
      vouched == {e \in gone : etag[e.feed] # NoDocument}
  IN  /\ sweep[p].running
      /\ \A e \in gone, s \in Sessions :
           ~(session[s].feed = e.feed /\ e.guid \in session[s].touched)
      /\ entries' = entries \ gone
      /\ swept' = swept \cup {<<e.feed, e.guid>> : e \in vouched}
      /\ sweep' = [sweep EXCEPT ![p] = Idle]
      /\ UNCHANGED <<lastId, live, etag, session, since, clock, faults>>

\* tick_once rolls back; run logs and goes on.
FailSweep(p) ==
  /\ sweep[p].running
  /\ faults < MaxFaults
  /\ faults' = faults + 1
  /\ sweep' = [sweep EXCEPT ![p] = Idle]
  /\ UNCHANGED <<entries, lastId, live, etag, session, swept, since, clock>>
-----------------------------------------------------------------------------
\* DELETE /v1/feeds/{id} cascades. It waits for sessions that have written
\* entries of the feed: an insert locks the feed row, an update the entry.
DeleteFeed(f) ==
  /\ f \in live
  /\ \A s \in Sessions : session[s].feed = f => session[s].touched = {}
  /\ live' = live \ {f}
  /\ entries' = {e \in entries : e.feed # f}
  /\ etag' = [etag EXCEPT ![f] = NoDocument]
  /\ swept' = {k \in swept : k[1] # f}
  /\ since' = [since EXCEPT ![f] = {}]
  /\ UNCHANGED <<lastId, session, sweep, clock, faults>>

Tick ==
  /\ clock < MaxClock
  /\ clock' = clock + 1
  /\ UNCHANGED <<entries, lastId, live, etag, session, sweep, swept, since, faults>>

SessionStep(s) ==
  OpenSession(s) \/ Receive(s) \/ UpsertEntry(s) \/ CommitSession(s) \/ AbandonSession(s)

Next ==
  \/ \E s \in Sessions : SessionStep(s)
  \/ \E p \in Sweepers : StartSweep(p) \/ FinishSweep(p) \/ FailSweep(p)
  \/ \E f \in Feeds : DeleteFeed(f)
  \/ Tick

Spec == Init /\ [][Next]_vars

\* A sweeper's loop keeps running, Postgres queues its DELETE for the row locks
\* it waits for, sessions end one way or the other, time passes.
Fairness ==
  /\ \A p \in Sweepers : WF_vars(StartSweep(p)) /\ SF_vars(FinishSweep(p))
  /\ \A s \in Sessions : WF_vars(CommitSession(s) \/ AbandonSession(s))
  /\ WF_vars(Tick)

FairSpec == Spec /\ Fairness
-----------------------------------------------------------------------------
(* Properties *)

\* At least MinPerFeed entries of e's feed were fetched after e.
Outranked(e) ==
  MinPerFeed <= Cardinality({d \in entries : /\ d.feed = e.feed
                                             /\ \/ d.fetched_at > e.fetched_at
                                                \/ d.fetched_at = e.fetched_at /\ d.id > e.id})

\* ADR 001 invariant 2, upsert.py: a guid names one row of its feed, although
\* two sessions may insert it at the same time and a sweep may take it in
\* between. Ids are not reused.
OneRowPerGuid ==
  \A d, e \in entries : (d.feed = e.feed /\ d.guid = e.guid) \/ d.id = e.id => d = e

\* ADR 004 decision 2, retention.sweep: the DELETE decides on a snapshot and
\* several sweeps run at once, with upserts in between; still nothing but the
\* deletion of the feed ever removes one of its MinPerFeed most recent entries.
MostRecentSurvive ==
  [][\A e \in entries : e.feed \in live' /\ ~Outranked(e) => e.id \in Ids(entries')]_vars

\* ADR 004 decision 2: what left the table was past the time window as well.
WindowSurvives ==
  [][\A e \in entries : e.feed \in live' /\ e.fetched_at >= clock - RetentionDays
       => e.id \in Ids(entries')]_vars

\* ADR 001 invariant 4: the retention clock of a row never moves. An edit leaves
\* it alone, and a guid gets a new one only with a new row, after its old row
\* was swept.
AgeIsKept ==
  [][\A d \in entries, e \in entries' :
       d.feed = e.feed /\ d.guid = e.guid => d.id = e.id /\ d.fetched_at = e.fetched_at]_vars

\* fetch_one: what the ETag vouches for is stored. A later 304 would otherwise
\* hide for ever an entry that was lost to a rollback or to another session.
\* Each of its entries is a row as the ETag's document has it, or as one has it
\* that was stored later, under a 200 that left the ETag alone. The first
\* MaxInitial entries are never capped away; a sweep may take some.
ETagIsBacked ==
  \A f \in live : etag[f] # NoDocument =>
    \A item \in Range(Capped(etag[f], FALSE)) :
      \/ <<f, item.guid>> \in swept
      \/ \E e \in entries, doc \in since[f] :
           /\ e.feed = f /\ e.guid = item.guid
           /\ [guid |-> e.guid, content |-> e.content] \in Range(doc)

\* retention.run: an entry outside both retain windows goes away for good, one
\* batch an hour, whichever rows LIMIT happens to pick.
ExpiredAreSwept ==
  \A i \in 1..MaxId :
    (\E e \in entries : /\ e.id = i /\ Outranked(e)
                        /\ e.fetched_at < clock - RetentionDays) ~> (i \notin Ids(entries))
=============================================================================
