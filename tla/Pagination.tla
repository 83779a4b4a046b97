----------------------------- MODULE Pagination -----------------------------
(***************************************************************************)
(* A client that walks GET /v1/entries or GET /v1/feeds page by page with   *)
(* the opaque keyset cursor, while fetches, sweeps and other clients change *)
(* the table between its requests.                                          *)
(*                                                                         *)
(* A row has the columns the two queries look at: id, published_at (NULL is *)
(* Null; entries only) and matches, the WHERE of the request: feed_id IN    *)
(* (...) for entries, the status filter for feeds.  A feed's status may     *)
(* change, an entry's published_at may be edited.                           *)
(***************************************************************************)
EXTENDS Integers, Sequences, FiniteSets, SequencesExt

CONSTANTS
  Times,        \* values of published_at
  MaxLimit,     \* api_entries_max_limit, api_feeds_max_limit
  MaxRows,      \* bound: ids handed out
  MaxChanges    \* bound: changes of the table during the walk

ASSUME PagesAssumption ==
  /\ Times \subseteq Nat
  /\ MaxLimit \in Nat \ {0}
  /\ MaxRows \in Nat /\ MaxChanges \in Nat

Null == -1

Row == [id : 1..MaxRows, published_at : Times \cup {Null}, matches : BOOLEAN]

VARIABLES
  endpoint,   \* "entries" or "feeds"
  table,      \* the rows
  lastId,     \* the id sequence
  limit,      \* the page size the client asked for
  cursor,     \* next_cursor of the last page, decoded
  walk,       \* "first", "more" or "done"
  items,      \* every row received so far, in order
  disturbed,  \* history: ids inserted, edited or deleted during the walk
  changes

vars == <<endpoint, table, lastId, limit, cursor, walk, items, disturbed, changes>>

TypeOK ==
  /\ endpoint \in {"entries", "feeds"}
  /\ table \subseteq Row
  /\ lastId \in 0..MaxRows
  /\ limit \in 1..MaxLimit
  /\ cursor \in [p : Times \cup {Null}, i : 0..MaxRows]
  /\ walk \in {"first", "more", "done"}
  /\ ToSet(items) \subseteq Row
  /\ disturbed \subseteq 1..MaxRows
  /\ changes \in 0..MaxChanges

\* Any table whose ids were handed out in order, rows deleted before included.
Init ==
  /\ endpoint \in {"entries", "feeds"}
  /\ lastId \in 0..MaxRows
  /\ \E ids \in SUBSET (1..lastId) :
       \E pub \in [ids -> Times \cup {Null}], ok \in [ids -> BOOLEAN] :
         /\ table = {[id |-> i, published_at |-> pub[i], matches |-> ok[i]] : i \in ids}
         /\ endpoint = "feeds" => \A i \in ids : pub[i] = Null
  /\ limit \in 1..MaxLimit
  /\ cursor = [p |-> Null, i |-> 0]
  /\ walk = "first"
  /\ items = <<>>
  /\ disturbed = {}
  /\ changes = 0
-----------------------------------------------------------------------------
(* The queries *)

\* ORDER BY published_at DESC, id DESC: Postgres puts NULLs first.
EntryPrecedes(r, s) ==
  \/ r.published_at = Null /\ s.published_at # Null
  \/ r.published_at # Null /\ s.published_at # Null /\ r.published_at > s.published_at
  \/ r.published_at = s.published_at /\ r.id > s.id

\* ORDER BY id ASC
FeedPrecedes(r, s) == r.id < s.id

Precedes(r, s) == IF endpoint = "entries" THEN EntryPrecedes(r, s) ELSE FeedPrecedes(r, s)

\* Mutant of EntryAfter: after a NULL date only NULL dates follow.
EntryAfterNullsOnly(r) ==
  IF cursor.p = Null
  THEN r.published_at = Null /\ r.id < cursor.i
  ELSE r.published_at # Null
       /\ (r.published_at < cursor.p \/ (r.published_at = cursor.p /\ r.id < cursor.i))

\* Mutant of EntryAfter: the cursor's own row is returned again.
EntryAfterInclusive(r) ==
  IF cursor.p = Null
  THEN (r.published_at = Null /\ r.id <= cursor.i) \/ r.published_at # Null
  ELSE r.published_at # Null
       /\ (r.published_at < cursor.p \/ (r.published_at = cursor.p /\ r.id <= cursor.i))

\* list_entries' WHERE for a cursor. A comparison with NULL is not true.
EntryAfter(r) ==
  IF cursor.p = Null
  THEN (r.published_at = Null /\ r.id < cursor.i) \/ r.published_at # Null
  ELSE r.published_at # Null
       /\ (r.published_at < cursor.p \/ (r.published_at = cursor.p /\ r.id < cursor.i))

\* list_feeds' WHERE for a cursor.
FeedAfter(r) == r.id > cursor.i

After(r) ==
  walk = "first" \/ (IF endpoint = "entries" THEN EntryAfter(r) ELSE FeedAfter(r))

\* How many rows the ORDER BY puts before r.
Rank(rows, r) == Cardinality({d \in rows : Precedes(d, r)})

\* The result of the query: the rows that match, in order, at most limit + 1.
Selected ==
  LET rows == {r \in table : r.matches /\ After(r)}
  IN  [n \in 1..Min({limit + 1, Cardinality(rows)}) |->
         CHOOSE r \in rows : Rank(rows, r) = n - 1]

\* Mutant of CursorOf: the id is off by one.
CursorPast(row) == [p |-> row.published_at, i |-> row.id + 1]

\* _encode_cursor, and _encode_feed_cursor for the id alone.
CursorOf(row) == [p |-> row.published_at, i |-> row.id]

\* One request: has_more is told by the extra row, and only then is there a
\* next_cursor, that of the last item.
NextPage ==
  LET rows    == Selected
      hasMore == Len(rows) > limit
      page    == SubSeq(rows, 1, Min({limit, Len(rows)}))
  IN  /\ walk # "done"
      /\ items' = items \o page
      /\ walk' = IF hasMore THEN "more" ELSE "done"
      /\ cursor' = IF hasMore THEN CursorOf(Last(page)) ELSE cursor
      /\ UNCHANGED <<endpoint, table, lastId, limit, disturbed, changes>>
-----------------------------------------------------------------------------
(* What happens to the table meanwhile *)

Changes(id) ==
  /\ walk = "more"
  /\ changes < MaxChanges
  /\ changes' = changes + 1
  /\ disturbed' = disturbed \cup {id}
  /\ UNCHANGED <<endpoint, limit, cursor, walk, items>>

\* An upsert's INSERT, or POST /v1/feeds.
InsertRow ==
  /\ lastId < MaxRows
  /\ lastId' = lastId + 1
  /\ \E pub \in (IF endpoint = "feeds" THEN {Null} ELSE Times \cup {Null}), ok \in BOOLEAN :
       table' = table \cup {[id |-> lastId + 1, published_at |-> pub, matches |-> ok]}
  /\ Changes(lastId + 1)

\* An upsert that edits published_at, or a lifecycle transition of a feed.
EditRow(r) ==
  /\ \/ /\ endpoint = "entries"
        /\ \E pub \in (Times \cup {Null}) \ {r.published_at} :
             table' = (table \ {r}) \cup {[r EXCEPT !.published_at = pub]}
     \/ /\ endpoint = "feeds"
        /\ table' = (table \ {r}) \cup {[r EXCEPT !.matches = ~@]}
  /\ lastId' = lastId
  /\ Changes(r.id)

\* A sweep, a cascade, or DELETE /v1/feeds/{id}.
RemoveRow(r) ==
  /\ table' = table \ {r}
  /\ lastId' = lastId
  /\ Changes(r.id)

Next ==
  \/ NextPage
  \/ InsertRow
  \/ \E r \in table : EditRow(r) \/ RemoveRow(r)

Spec == Init /\ [][Next]_vars
-----------------------------------------------------------------------------
(* Properties *)

\* Rows the walk owes the client: they match, and nobody touched them.
Steady == {r \in table : r.matches /\ r.id \notin disturbed}

\* api/entries.py and api/feeds.py: whatever else is inserted, edited or deleted
\* between two requests, also the very row the cursor points at, a finished
\* walk has returned every undisturbed row exactly once, NULL dates included.
WalkIsComplete ==
  walk = "done" =>
    \A r \in Steady : Cardinality({n \in DOMAIN items : items[n].id = r.id}) = 1

\* ADR 002: (published_at DESC, id DESC) orders the whole walk, and id the one
\* over feeds: a row that is inserted or edited between two requests never makes
\* a later page go back behind an earlier one.
WalkIsOrdered ==
  \A m, n \in DOMAIN items : m < n => Precedes(items[m], items[n])
=============================================================================
