---------------------------- MODULE FeedRegistry ----------------------------
(***************************************************************************)
(* Registration: concurrent POST and DELETE requests on /v1/feeds, each a   *)
(* READ COMMITTED transaction of several statements.  FastAPI leaves the    *)
(* get_session dependency, and so commits, after the answer was sent: an    *)
(* answer is given before what it announces is certain.                     *)
(*                                                                         *)
(* Scheduler takes a registration for one step; here it is three.           *)
(***************************************************************************)
EXTENDS Naturals, FiniteSets

CONSTANTS
  Bases,       \* URLs without fragment and without slashes at the end of the path
  Blocked,     \* those validate_public_url(resolve=False) refuses
  MaxSlashes,  \* bound: slashes at the end of a path
  Requests,    \* requests, each used once
  MaxLosses    \* bound: sessions that lose the database

ASSUME RegistryAssumption ==
  /\ Bases # {} /\ Blocked \subseteq Bases
  /\ MaxSlashes \in Nat /\ MaxLosses \in Nat
  /\ IsFiniteSet(Requests)

Raw == [base : Bases, slashes : 0..MaxSlashes, fragment : BOOLEAN]

VARIABLES
  feeds,     \* committed rows: id and url
  sequence,  \* the last id the sequence of feeds.id has given out
  request,   \* request[r]: the handler of r and what it has seen
  deleted,   \* history: ids whose deletion was committed
  losses

vars == <<feeds, sequence, request, deleted, losses>>

NoId == 0
Ids == 0..Cardinality(Requests)

\* url: what a POST asks for; met: the row its INSERT ran into; own: the row it
\* inserted; id: the row it answers with, or that a DELETE is about to remove.
Request ==
  [stage : {"unused", "insert", "select", "commit", "ended"},
   op : {"none", "post", "delete"}, url : Raw, met : Ids, own : Ids, id : Ids,
   answer : {0, 200, 201, 204, 400, 500}, lost : BOOLEAN]

Unused == [stage |-> "unused", op |-> "none",
           url |-> [base |-> CHOOSE b \in Bases : TRUE, slashes |-> 0, fragment |-> FALSE],
           met |-> NoId, own |-> NoId, id |-> NoId, answer |-> 0, lost |-> FALSE]

TypeOK ==
  /\ feeds \subseteq [id : Ids \ {NoId}, url : Raw]
  /\ sequence \in Ids
  /\ request \in [Requests -> Request]
  /\ deleted \subseteq Ids
  /\ losses \in 0..MaxLosses

Init ==
  /\ feeds = {}
  /\ sequence = 0
  /\ request = [r \in Requests |-> Unused]
  /\ deleted = {}
  /\ losses = 0

Go(r, to) == request' = [request EXCEPT ![r] = to]

RowsOf(url) == {f \in feeds : f.url = url}

\* Rows inserted by a session that is still open.
Pending(r) ==
  IF request[r].own # NoId /\ request[r].stage \in {"select", "commit"}
  THEN {[id |-> request[r].own, url |-> request[r].url]} ELSE {}
-----------------------------------------------------------------------------
(* POST: create_feed *)

\* Mutant of NormalizeUrl: one slash is cut off.
NormalizeOneSlash(raw) ==
  [raw EXCEPT !.slashes = IF @ > 0 THEN @ - 1 ELSE 0, !.fragment = FALSE]

\* rstrip of the path, "/" becomes "", the fragment goes.
NormalizeUrl(raw) == [raw EXCEPT !.slashes = 0, !.fragment = FALSE]

Post(r, raw) ==
  /\ request[r].stage = "unused"
  /\ Go(r, IF raw.base \in Blocked
           THEN [Unused EXCEPT !.stage = "ended", !.op = "post", !.answer = 400]
           ELSE [Unused EXCEPT !.stage = "insert", !.op = "post", !.url = NormalizeUrl(raw)])
  /\ UNCHANGED <<feeds, sequence, deleted, losses>>

\* Mutant of CanInsert: no unique index on feeds.url.
InsertAnyway(r) == request[r].stage = "insert"

\* Mutant of CanInsert: a registration that failed is tried again.
InsertAgain(r) ==
  /\ request[r].stage = "insert" \/ request[r].answer = 500
  /\ \A s \in Requests : \A f \in Pending(s) : f.url # request[r].url

\* The unique index makes an INSERT wait for the end of a session that has
\* inserted the same url.
CanInsert(r) ==
  /\ request[r].stage = "insert"
  /\ \A s \in Requests : \A f \in Pending(s) : f.url # request[r].url

\* INSERT ... ON CONFLICT DO NOTHING: a conflict costs an id, too.
Insert(r) ==
  /\ CanInsert(r)
  /\ sequence' = sequence + 1
  /\ LET q == request[r]
     IN  \/ /\ RowsOf(q.url) = {}
            /\ Go(r, [q EXCEPT !.stage = "select", !.own = sequence'])
         \/ \E f \in RowsOf(q.url) : Go(r, [q EXCEPT !.stage = "select", !.met = f.id])
  /\ UNCHANGED <<feeds, deleted, losses>>

\* Mutant of Found: the SELECT does not see the insert of its own session.
FoundCommitted(r) == RowsOf(request[r].url)

\* What the SELECT sees: the committed rows of its own instant, and its own.
Found(r) == RowsOf(request[r].url) \cup Pending(r)

\* Mutant of SelectNothing: the handler waits for the row to come back.
SelectAgain(r) ==
  /\ request[r].stage = "select"
  /\ Found(r) = {}
  /\ UNCHANGED vars

\* scalar_one raises when the row that was in the way has gone: 500, rollback.
SelectNothing(r) ==
  /\ request[r].stage = "select"
  /\ Found(r) = {}
  /\ Go(r, [request[r] EXCEPT !.stage = "ended", !.answer = 500])
  /\ UNCHANGED <<feeds, sequence, deleted, losses>>

\* The answer is sent; get_session has not committed yet.
Select(r) ==
  /\ request[r].stage = "select"
  /\ \E f \in Found(r) :
       Go(r, [request[r] EXCEPT !.stage = "commit", !.id = f.id,
                                !.answer = IF request[r].own = NoId THEN 200 ELSE 201])
  /\ UNCHANGED <<feeds, sequence, deleted, losses>>
-----------------------------------------------------------------------------
(* DELETE: delete_feed *)

\* The row is looked up by id and 204 is sent either way. The DELETE statement
\* follows when get_session commits.
Delete(r, id) ==
  /\ request[r].stage = "unused"
  /\ Go(r, [Unused EXCEPT !.op = "delete", !.id = id, !.answer = 204,
              !.stage = IF \E f \in feeds : f.id = id THEN "commit" ELSE "ended"])
  /\ UNCHANGED <<feeds, sequence, deleted, losses>>
-----------------------------------------------------------------------------
(* The end of a session: get_session *)

Ended(r) == [request[r] EXCEPT !.stage = "ended"]

\* Mutant of Commit: the session is closed without a commit.
CommitNothing(r) ==
  /\ request[r].stage = "commit"
  /\ Go(r, Ended(r))
  /\ UNCHANGED <<feeds, sequence, deleted, losses>>

\* A row that somebody else has deleted meanwhile is no error for a DELETE.
Commit(r) ==
  /\ request[r].stage = "commit"
  /\ Go(r, Ended(r))
  /\ IF request[r].op = "post"
     THEN feeds' = feeds \cup Pending(r) /\ deleted' = deleted
     ELSE /\ feeds' = {f \in feeds : f.id # request[r].id}
          /\ deleted' = deleted \cup {request[r].id}
  /\ UNCHANGED <<sequence, losses>>

\* Any statement, the commit included, may raise: everything is rolled back. An
\* answer that was sent stays sent.
Lose(r) ==
  /\ request[r].stage \in {"insert", "select", "commit"}
  /\ losses < MaxLosses
  /\ losses' = losses + 1
  /\ Go(r, [Ended(r) EXCEPT !.lost = TRUE, !.answer = IF @ = 0 THEN 500 ELSE @])
  /\ UNCHANGED <<feeds, sequence, deleted>>
-----------------------------------------------------------------------------
HandlerStep(r) == Insert(r) \/ SelectNothing(r) \/ Select(r) \/ Commit(r)

Next ==
  \E r \in Requests :
    \/ \E raw \in Raw : Post(r, raw)
    \/ \E id \in 1..sequence : Delete(r, id)
    \/ HandlerStep(r)
    \/ Lose(r)

Spec == Init /\ [][Next]_vars

\* Handlers run, and Postgres wakes up who waits for a lock.
FairSpec == Spec /\ \A r \in Requests : WF_vars(HandlerStep(r))
-----------------------------------------------------------------------------
(* Properties *)

Answered(r) == request[r].answer \in {200, 201}

\* create_feed, ADR 002: one resource is one feed, however its URL was spelled
\* and however many clients register it at once.
OneFeedPerResource ==
  \A f, g \in feeds : f.url.base = g.url.base => f = g

\* create_feed, "POST is idempotent": two clients that register one resource are
\* told the same id, unless the feed of one of them was deleted or never
\* committed.
PostsAgree ==
  \A r, s \in Requests :
    Answered(r) /\ Answered(s) /\ request[r].url.base = request[s].url.base =>
      \/ request[r].id = request[s].id
      \/ {request[r].id, request[s].id} \cap deleted # {}
      \/ \E t \in {r, s} : request[t].lost /\ request[t].answer = 201

\* get_session commits after the answer: once a registration has ended, the feed
\* it named is there until somebody deletes it, whether this request inserted it
\* or found it, and whatever became of the session that did; only the answer to
\* an insertion whose own commit failed is void.
AcknowledgedIsKept ==
  \A r \in Requests :
    request[r].stage = "ended" /\ Answered(r) =>
      \/ \E f \in feeds : f.id = request[r].id
      \/ request[r].id \in deleted
      \/ request[r].lost /\ request[r].answer = 201

\* create_feed's scalar_one: the SELECT comes back empty only if the row that
\* stopped the INSERT was deleted between the two statements.
FailsOnlyUnderDelete ==
  \A r \in Requests :
    request[r].op = "post" /\ request[r].answer = 500 /\ ~request[r].lost =>
      request[r].met \in deleted

\* Requests that wait for each other's inserts all come to an end.
RequestsEnd ==
  \A r \in Requests : request[r].stage # "unused" ~> request[r].stage = "ended"
=============================================================================
