------------------------- MODULE FeedRegistryProofs -------------------------
(***************************************************************************)
(* Registration for any number of concurrent requests, urls and lost         *)
(* sessions: one resource stays one feed, and an answer stays true.          *)
(*                                                                         *)
(* None of the properties is inductive. What they need to know of each      *)
(* other is RegistryInv: how far a handler is decides what its record holds  *)
(* (StageInv); every url in the system is normalised (UrlInv); ids come from *)
(* the sequence and are given out once (IdInv); a row that is pending is     *)
(* neither committed nor pending twice, by id and by url (RowInv); and what  *)
(* a request was told exists, or was deleted (SeenInv).                      *)
(***************************************************************************)
EXTENDS FeedRegistry, FiniteSetTheorems, TLAPS

\* The sequence was asked once for each of these.
Inserted == {r \in Requests : request[r].own # NoId \/ request[r].met # NoId}

\* The session of r is open and holds an uncommitted row.
Open(r) == request[r].own # NoId /\ request[r].stage \in {"select", "commit"}

\* A committed row has this id, or once had.
Known(i) == i \in deleted \/ \E f \in feeds : f.id = i

\* What the stage of a handler says about the rest of its record.
StageOK(q) ==
  /\ q.stage = "unused" => q.op = "none" /\ q.answer = 0
  /\ q.stage \in {"unused", "insert"} => q.own = NoId /\ q.met = NoId
  /\ q.stage \in {"insert", "select"} => q.op = "post" /\ q.answer = 0
  /\ q.stage = "select" => q.own # NoId \/ q.met # NoId
  /\ q.stage = "commit" => q.op = "delete" \/ (q.op = "post" /\ q.answer \in {200, 201})
  /\ q.op = "delete" => q.answer = 204 /\ q.own = NoId
  /\ q.answer = 201 => q.own # NoId /\ q.id = q.own
  /\ q.answer = 200 => q.own = NoId
  /\ q.lost => q.stage = "ended"

StageInv == \A r \in Requests : StageOK(request[r])

Normal(url) == url.slashes = 0 /\ url.fragment = FALSE

UrlInv ==
  /\ \A r \in Requests : Normal(request[r].url)
  /\ \A f \in feeds : Normal(f.url)

IdInv ==
  /\ sequence = Cardinality(Inserted)
  /\ deleted \subseteq 1..sequence
  /\ \A f \in feeds : f.id <= sequence
  /\ \A r \in Requests : request[r].own <= sequence
  /\ \A r, s \in Requests :
       request[r].own # NoId /\ request[r].own = request[s].own => r = s

RowInv ==
  /\ \A f \in feeds : f.id \notin deleted
  /\ \A f, g \in feeds : f.id = g.id \/ f.url = g.url => f = g
  /\ \A r \in Requests : Open(r) => /\ ~Known(request[r].own)
                                    /\ RowsOf(request[r].url) = {}
  /\ \A r, s \in Requests :
       Open(r) /\ Open(s) /\ request[r].url = request[s].url => r = s

\* The row with id i, if it is still there, has this url.
Names(i, url) == Known(i) /\ \A f \in feeds : f.id = i => f.url = url

SeenOK(q) ==
  /\ q.met # NoId => Names(q.met, q.url)
  /\ q.answer = 200 => Names(q.id, q.url)
  /\ q.own # NoId /\ q.stage = "ended" /\ ~q.lost => Names(q.own, q.url)
  /\ q.own # NoId /\ q.lost => ~Known(q.own)
  /\ q.op = "delete" /\ q.stage = "commit" => Known(q.id)
  /\ q.op = "post" /\ q.answer = 500 /\ ~q.lost => q.met \in deleted

SeenInv == \A r \in Requests : SeenOK(request[r])

RegistryInv == TypeOK /\ StageInv /\ UrlInv /\ IdInv /\ RowInv /\ SeenInv
-----------------------------------------------------------------------------
(* Records and ids *)

\* The record of a request that has not come in is a record.
LEMMA UnusedType == Unused \in Request /\ StageOK(Unused) /\ Normal(Unused.url)
<1>1. (CHOOSE b \in Bases : TRUE) \in Bases
  BY RegistryAssumption
<1>2. 0 \in Ids /\ 0 \in 0..MaxSlashes
  BY FS_CardinalityType, RegistryAssumption DEF Ids
<1>3. Unused \in Request
  BY <1>1, <1>2 DEF Unused, Request, Raw, NoId
<1> QED BY <1>3 DEF Unused, StageOK, Normal, NoId

Stages == {"unused", "insert", "select", "commit", "ended"}
Ops == {"none", "post", "delete"}
Answers == {0, 200, 201, 204, 400, 500}

\* Assigning one field.
LEMMA FieldType ==
  ASSUME NEW q \in Request
  PROVE  /\ \A s \in Stages : [q EXCEPT !.stage = s] \in Request
         /\ \A o \in Ops : [q EXCEPT !.op = o] \in Request
         /\ \A u \in Raw : [q EXCEPT !.url = u] \in Request
         /\ \A i \in Ids : [q EXCEPT !.met = i] \in Request
         /\ \A i \in Ids : [q EXCEPT !.own = i] \in Request
         /\ \A i \in Ids : [q EXCEPT !.id = i] \in Request
         /\ \A a \in Answers : [q EXCEPT !.answer = a] \in Request
         /\ \A l \in BOOLEAN : [q EXCEPT !.lost = l] \in Request
BY DEF Request, Stages, Ops, Answers

\* The assignments the handlers make.
LEMMA EditedType ==
  ASSUME NEW q \in Request
  PROVE  /\ \A s \in Stages, i \in Ids : [q EXCEPT !.stage = s, !.met = i] \in Request
         /\ \A s \in Stages, i \in Ids : [q EXCEPT !.stage = s, !.own = i] \in Request
         /\ \A s \in Stages, a \in Answers : [q EXCEPT !.stage = s, !.answer = a] \in Request
         /\ \A s \in Stages, o \in Ops, a \in Answers :
              [q EXCEPT !.stage = s, !.op = o, !.answer = a] \in Request
         /\ \A s \in Stages, o \in Ops, u \in Raw :
              [q EXCEPT !.stage = s, !.op = o, !.url = u] \in Request
         /\ \A s \in Stages, i \in Ids, a \in Answers :
              [q EXCEPT !.stage = s, !.id = i, !.answer = a] \in Request
         /\ \A s \in Stages, o \in Ops, i \in Ids, a \in Answers :
              [q EXCEPT !.op = o, !.id = i, !.answer = a, !.stage = s] \in Request
         /\ \A s \in Stages, l \in BOOLEAN, a \in Answers :
              [q EXCEPT !.stage = s, !.lost = l, !.answer = a] \in Request
<1>1. ASSUME NEW s \in Stages
      PROVE  /\ \A i \in Ids : [q EXCEPT !.stage = s, !.met = i] \in Request
             /\ \A i \in Ids : [q EXCEPT !.stage = s, !.own = i] \in Request
             /\ \A a \in Answers : [q EXCEPT !.stage = s, !.answer = a] \in Request
             /\ \A i \in Ids : [q EXCEPT !.stage = s, !.id = i] \in Request
             /\ \A o \in Ops : [q EXCEPT !.stage = s, !.op = o] \in Request
             /\ \A l \in BOOLEAN : [q EXCEPT !.stage = s, !.lost = l] \in Request
  <2> DEFINE p == [q EXCEPT !.stage = s]
  <2>1. p \in Request
    BY FieldType, Zenon
  <2> HIDE DEF p
  <2>2. /\ \A i \in Ids : [p EXCEPT !.met = i] \in Request
        /\ \A i \in Ids : [p EXCEPT !.own = i] \in Request
        /\ \A a \in Answers : [p EXCEPT !.answer = a] \in Request
        /\ \A i \in Ids : [p EXCEPT !.id = i] \in Request
        /\ \A o \in Ops : [p EXCEPT !.op = o] \in Request
        /\ \A l \in BOOLEAN : [p EXCEPT !.lost = l] \in Request
    BY <2>1, FieldType, Zenon
  <2> QED BY <2>2, Zenon DEF p
<1>2. ASSUME NEW s \in Stages, NEW o \in Ops
      PROVE  /\ \A a \in Answers : [q EXCEPT !.stage = s, !.op = o, !.answer = a] \in Request
             /\ \A u \in Raw : [q EXCEPT !.stage = s, !.op = o, !.url = u] \in Request
  <2> DEFINE p == [q EXCEPT !.stage = s, !.op = o]
  <2>1. p \in Request
    BY <1>1, Zenon
  <2> HIDE DEF p
  <2>2. /\ \A a \in Answers : [p EXCEPT !.answer = a] \in Request
        /\ \A u \in Raw : [p EXCEPT !.url = u] \in Request
    BY <2>1, FieldType, Zenon
  <2> QED BY <2>2, Zenon DEF p
<1>3. ASSUME NEW s \in Stages, NEW i \in Ids, NEW a \in Answers
      PROVE  [q EXCEPT !.stage = s, !.id = i, !.answer = a] \in Request
  <2> DEFINE p == [q EXCEPT !.stage = s, !.id = i]
  <2>1. p \in Request
    BY <1>1, Zenon
  <2> HIDE DEF p
  <2>2. [p EXCEPT !.answer = a] \in Request
    BY <2>1, FieldType, Zenon
  <2> QED BY <2>2, Zenon DEF p
<1>4. ASSUME NEW s \in Stages, NEW o \in Ops, NEW i \in Ids, NEW a \in Answers
      PROVE  [q EXCEPT !.op = o, !.id = i, !.answer = a, !.stage = s] \in Request
  <2> DEFINE p1 == [q EXCEPT !.op = o]
             p2 == [p1 EXCEPT !.id = i]
             p3 == [p2 EXCEPT !.answer = a]
  <2>1. p1 \in Request
    BY FieldType, Zenon
  <2> HIDE DEF p1
  <2>2. p2 \in Request
    BY <2>1, FieldType, Zenon
  <2> HIDE DEF p2
  <2>3. p3 \in Request
    BY <2>2, FieldType, Zenon
  <2> HIDE DEF p3
  <2>4. [p3 EXCEPT !.stage = s] \in Request
    BY <2>3, FieldType, Zenon
  <2> QED BY <2>4, Zenon DEF p1, p2, p3
<1>5. ASSUME NEW s \in Stages, NEW l \in BOOLEAN, NEW a \in Answers
      PROVE  [q EXCEPT !.stage = s, !.lost = l, !.answer = a] \in Request
  <2> DEFINE p == [q EXCEPT !.stage = s, !.lost = l]
  <2>1. p \in Request
    BY <1>1, Zenon
  <2> HIDE DEF p
  <2>2. [p EXCEPT !.answer = a] \in Request
    BY <2>1, FieldType, Zenon
  <2> QED BY <2>2, Zenon DEF p
<1> QED BY <1>1, <1>2, <1>3, <1>4, <1>5, Zenon

\* NormalizeUrl returns a url in normal form.
LEMMA NormalizeType ==
  ASSUME NEW raw \in Raw
  PROVE  NormalizeUrl(raw) \in Raw /\ Normal(NormalizeUrl(raw))
<1>1. 0 \in 0..MaxSlashes
  BY RegistryAssumption
<1> QED BY <1>1 DEF NormalizeUrl, Raw, Normal

\* Two normal urls with the same base are the same url.
LEMMA NormalByBase ==
  ASSUME NEW u \in Raw, NEW v \in Raw, Normal(u), Normal(v), u.base = v.base
  PROVE  u = v
BY DEF Raw, Normal

\* The sequence does not run beyond one id per request, and asking it for one
\* more is counted.
LEMMA SequenceCounts ==
  ASSUME RegistryInv, NEW r \in Requests, r \notin Inserted
  PROVE  /\ sequence + 1 \in Ids
         /\ Cardinality(Inserted \cup {r}) = sequence + 1
<1>1. Inserted \in SUBSET Requests /\ Inserted \cup {r} \in SUBSET Requests
  BY DEF Inserted
<1>2. IsFiniteSet(Inserted)
  BY <1>1, FS_Subset, RegistryAssumption
<1>3. Cardinality(Inserted \cup {r}) = sequence + 1
  BY <1>2, FS_AddElement DEF RegistryInv, IdInv
<1>4. Cardinality(Inserted \cup {r}) <= Cardinality(Requests)
  BY <1>1, FS_Subset, RegistryAssumption
<1>5. sequence \in Nat /\ Cardinality(Requests) \in Nat
  BY FS_CardinalityType, RegistryAssumption DEF RegistryInv, TypeOK, Ids
<1> QED BY <1>3, <1>4, <1>5 DEF Ids

\* What moving one request does to the requests.
LEMMA GoMoves ==
  ASSUME TypeOK, NEW r \in Requests, NEW to \in Request, Go(r, to)
  PROVE  /\ request' \in [Requests -> Request]
         /\ request'[r] = to
         /\ \A s \in Requests : s # r => request'[s] = request[s]
BY DEF TypeOK, Go
-----------------------------------------------------------------------------
(* Every step keeps the invariant *)

\* A step of one handler that writes nothing keeps the invariant if the
\* handler's new record is one it may have, and it has the same ids and no new
\* row pending.
LEMMA HandlerMoves ==
  ASSUME RegistryInv, NEW r \in Requests, NEW to \in Request, Go(r, to),
         UNCHANGED <<feeds, sequence, deleted>>, losses' \in 0..MaxLosses,
         StageOK(to), Normal(to.url), SeenOK(to),
         to.own = request[r].own, to.met = request[r].met,
         to.own # NoId /\ to.stage \in {"select", "commit"} =>
           Open(r) /\ to.url = request[r].url
  PROVE  RegistryInv'
<1> USE DEF RegistryInv
<1>1. /\ request' \in [Requests -> Request]
      /\ request'[r] = to
      /\ \A s \in Requests : s # r => request'[s] = request[s]
  BY GoMoves
<1>2. TypeOK'
  BY <1>1 DEF TypeOK
<1>3. StageInv'
  BY <1>1 DEF StageInv
<1>4. UrlInv'
  BY <1>1 DEF UrlInv
<1>5. \A s \in Requests : request'[s].own = request[s].own /\ request'[s].met = request[s].met
  BY <1>1
<1>6. Inserted' = Inserted
  BY <1>5 DEF Inserted
<1>7. IdInv'
  BY <1>5, <1>6 DEF IdInv
<1>8. \A s \in Requests : Open(s)' => Open(s) /\ request'[s].url = request[s].url
  BY <1>1 DEF Open
<1>9. RowInv'
  BY <1>5, <1>8 DEF RowInv, RowsOf, Known
<1>10. \A q : SeenOK(q)' <=> SeenOK(q)
  BY DEF SeenOK, Names, Known
<1>11. SeenInv'
  BY <1>1, <1>10 DEF SeenInv
<1> QED BY <1>2, <1>3, <1>4, <1>7, <1>9, <1>11

\* create_feed up to its INSERT.
LEMMA PostSteps ==
  ASSUME RegistryInv, NEW r \in Requests, NEW raw \in Raw, Post(r, raw)
  PROVE  RegistryInv'
<1> DEFINE to == IF raw.base \in Blocked
                 THEN [Unused EXCEPT !.stage = "ended", !.op = "post", !.answer = 400]
                 ELSE [Unused EXCEPT !.stage = "insert", !.op = "post", !.url = NormalizeUrl(raw)]
<1>1. Go(r, to)
  BY DEF Post
<1>2. to \in Request
  <2> DEFINE a == 400
  <2>1. "ended" \in Stages /\ "insert" \in Stages /\ "post" \in Ops /\ a \in Answers
    BY DEF Stages, Ops, Answers
  <2>2. NormalizeUrl(raw) \in Raw /\ Unused \in Request
    BY UnusedType, NormalizeType
  <2> HIDE DEF a
  <2>3. [Unused EXCEPT !.stage = "ended", !.op = "post", !.answer = a] \in Request
    BY <2>1, <2>2, EditedType, Zenon
  <2>4. [Unused EXCEPT !.stage = "insert", !.op = "post", !.url = NormalizeUrl(raw)] \in Request
    BY <2>1, <2>2, EditedType, Zenon
  <2> QED BY <2>3, <2>4, Zenon DEF a
<1>3. StageOK(to) /\ Normal(to.url) /\ SeenOK(to)
  BY UnusedType, NormalizeType DEF Unused, StageOK, SeenOK, NoId
<1>4. to.own = request[r].own /\ to.met = request[r].met /\ to.own = NoId
  BY DEF Post, Unused, RegistryInv, StageInv, StageOK
<1>5. UNCHANGED <<feeds, sequence, deleted>> /\ losses' \in 0..MaxLosses
  BY DEF Post, RegistryInv, TypeOK
<1> HIDE DEF to
<1> QED BY <1>1, <1>2, <1>3, <1>4, <1>5, HandlerMoves

\* delete_feed up to its commit.
LEMMA DeleteSteps ==
  ASSUME RegistryInv, NEW r \in Requests, NEW id \in 1..sequence, Delete(r, id)
  PROVE  RegistryInv'
<1> DEFINE to == [Unused EXCEPT !.op = "delete", !.id = id, !.answer = 204,
                    !.stage = IF \E f \in feeds : f.id = id THEN "commit" ELSE "ended"]
<1>1. Go(r, to)
  BY DEF Delete
<1>2. to \in Request
  <2>1. id \in Ids
    BY FS_CardinalityType, RegistryAssumption DEF RegistryInv, TypeOK, Ids
  <2> DEFINE a == 204
             st == IF \E f \in feeds : f.id = id THEN "commit" ELSE "ended"
  <2>2. st \in Stages /\ "delete" \in Ops /\ a \in Answers
    BY DEF Stages, Ops, Answers
  <2> HIDE DEF a, st
  <2>3. [Unused EXCEPT !.op = "delete", !.id = id, !.answer = a, !.stage = st] \in Request
    BY <2>1, <2>2, UnusedType, EditedType, Zenon
  <2> QED BY <2>3, Zenon DEF a, st
<1>3. StageOK(to) /\ Normal(to.url) /\ SeenOK(to)
  BY UnusedType DEF Unused, StageOK, SeenOK, NoId, Known
<1>4. to.own = request[r].own /\ to.met = request[r].met /\ to.own = NoId
  BY DEF Delete, Unused, RegistryInv, StageInv, StageOK
<1>5. UNCHANGED <<feeds, sequence, deleted>> /\ losses' \in 0..MaxLosses
  BY DEF Delete, RegistryInv, TypeOK
<1> HIDE DEF to
<1> QED BY <1>1, <1>2, <1>3, <1>4, <1>5, HandlerMoves

\* create_feed's SELECT finds nothing. What the INSERT met has been deleted.
LEMMA SelectNothingSteps ==
  ASSUME RegistryInv, NEW r \in Requests, SelectNothing(r)
  PROVE  RegistryInv'
<1> DEFINE to == [request[r] EXCEPT !.stage = "ended", !.answer = 500]
<1>1. Go(r, to) /\ UNCHANGED <<feeds, sequence, deleted>> /\ losses' \in 0..MaxLosses
  BY DEF SelectNothing, RegistryInv, TypeOK
<1>2. request[r] \in Request /\ StageOK(request[r]) /\ SeenOK(request[r]) /\ Normal(request[r].url)
  BY DEF RegistryInv, TypeOK, StageInv, SeenInv, UrlInv
<1>3. RowsOf(request[r].url) = {} /\ request[r].own = NoId /\ request[r].met # NoId
  BY <1>2 DEF SelectNothing, Found, Pending, StageOK
<1>4. request[r].met \in deleted
  BY <1>2, <1>3 DEF SeenOK, Names, Known, RowsOf
<1>5. to \in Request
  <2> DEFINE a == 500
  <2>1. "ended" \in Stages /\ a \in Answers
    BY DEF Stages, Answers
  <2> HIDE DEF a
  <2>2. [request[r] EXCEPT !.stage = "ended", !.answer = a] \in Request
    BY <1>2, <2>1, EditedType, Zenon
  <2> QED BY <2>2, Zenon DEF a
<1>6. StageOK(to) /\ SeenOK(to) /\ Normal(to.url)
  BY <1>2, <1>3, <1>4 DEF StageOK, SeenOK, SelectNothing, Request
<1>7. to.own = request[r].own /\ to.met = request[r].met
  BY <1>2 DEF Request
<1> HIDE DEF to
<1> QED BY <1>1, <1>3, <1>5, <1>6, <1>7, HandlerMoves

\* create_feed's SELECT finds the row it will answer with: its own if it has
\* inserted one, and a committed one if not.
LEMMA SelectSteps ==
  ASSUME RegistryInv, NEW r \in Requests, Select(r)
  PROVE  RegistryInv'
<1>1. PICK f \in Found(r) :
        Go(r, [request[r] EXCEPT !.stage = "commit", !.id = f.id,
                                 !.answer = IF request[r].own = NoId THEN 200 ELSE 201])
  BY DEF Select
<1> DEFINE to == [request[r] EXCEPT !.stage = "commit", !.id = f.id,
                                    !.answer = IF request[r].own = NoId THEN 200 ELSE 201]
<1>2. request[r] \in Request /\ StageOK(request[r]) /\ SeenOK(request[r]) /\ Normal(request[r].url)
  BY DEF RegistryInv, TypeOK, StageInv, SeenInv, UrlInv
<1>3. CASE request[r].own = NoId
  <2>1. f \in feeds /\ f.url = request[r].url
    BY <1>3 DEF Found, Pending, RowsOf
  <2>2. f.id \in Ids
    BY <2>1 DEF RegistryInv, TypeOK
  <2>3. Names(f.id, request[r].url)
    BY <2>1 DEF Names, Known, RegistryInv, RowInv
  <2>4. to \in Request
    <3> DEFINE a == IF request[r].own = NoId THEN 200 ELSE 201
    <3>1. "commit" \in Stages /\ a \in Answers
      BY DEF Stages, Answers
    <3> HIDE DEF a
    <3>2. [request[r] EXCEPT !.stage = "commit", !.id = f.id, !.answer = a] \in Request
      BY <1>2, <2>2, <3>1, EditedType, Zenon
    <3> QED BY <3>2, Zenon DEF a
  <2>5. to.stage = "commit" /\ to.id = f.id /\ to.answer = 200
    BY <1>2, <1>3 DEF Request
  <2>6. \A k \in {"op", "url", "met", "own", "lost"} : to[k] = request[r][k]
    BY <1>2 DEF Request
  <2>7. /\ to.op = request[r].op /\ to.url = request[r].url /\ to.met = request[r].met
        /\ to.own = request[r].own /\ to.lost = request[r].lost
    BY <2>6
  <2> HIDE DEF to
  <2>8. StageOK(to) /\ SeenOK(to) /\ Normal(to.url)
    BY <1>2, <1>3, <2>3, <2>5, <2>7 DEF StageOK, SeenOK, Select
  <2>9. Go(r, to) /\ UNCHANGED <<feeds, sequence, deleted>> /\ losses' \in 0..MaxLosses
    BY <1>1 DEF Select, RegistryInv, TypeOK, to
  <2> QED BY <1>3, <2>4, <2>7, <2>8, <2>9, HandlerMoves
<1>4. CASE request[r].own # NoId
  <2>1. Open(r) /\ f.id = request[r].own
    BY <1>4 DEF Found, Pending, RowsOf, Select, Open, RegistryInv, RowInv
  <2>2. f.id \in Ids
    BY <1>2, <2>1 DEF Request
  <2>4. to \in Request
    <3> DEFINE a == IF request[r].own = NoId THEN 200 ELSE 201
    <3>1. "commit" \in Stages /\ a \in Answers
      BY DEF Stages, Answers
    <3> HIDE DEF a
    <3>2. [request[r] EXCEPT !.stage = "commit", !.id = f.id, !.answer = a] \in Request
      BY <1>2, <2>2, <3>1, EditedType, Zenon
    <3> QED BY <3>2, Zenon DEF a
  <2>5. to.stage = "commit" /\ to.id = f.id /\ to.answer = 201
    BY <1>2, <1>4 DEF Request
  <2>6. /\ to.op = request[r].op /\ to.url = request[r].url /\ to.met = request[r].met
        /\ to.own = request[r].own /\ to.lost = request[r].lost
    BY <1>2 DEF Request
  <2> HIDE DEF to
  <2>8. StageOK(to) /\ SeenOK(to) /\ Normal(to.url)
    BY <1>2, <1>4, <2>1, <2>5, <2>6 DEF StageOK, SeenOK, Select
  <2>9. Go(r, to) /\ UNCHANGED <<feeds, sequence, deleted>> /\ losses' \in 0..MaxLosses
    BY <1>1 DEF Select, RegistryInv, TypeOK, to
  <2> QED BY <2>1, <2>4, <2>6, <2>8, <2>9, HandlerMoves
<1> QED BY <1>3, <1>4

\* The session is rolled back: what it had inserted is gone for good, and no
\* other request can have been told about it.
LEMMA LoseSteps ==
  ASSUME RegistryInv, NEW r \in Requests, Lose(r)
  PROVE  RegistryInv'
<1> DEFINE to == [Ended(r) EXCEPT !.lost = TRUE, !.answer = IF @ = 0 THEN 500 ELSE @]
<1>1. request[r] \in Request /\ StageOK(request[r]) /\ SeenOK(request[r]) /\ Normal(request[r].url)
  BY DEF RegistryInv, TypeOK, StageInv, SeenInv, UrlInv
<1>2. to \in Request
  <2> DEFINE a == IF request[r].answer = 0 THEN 500 ELSE request[r].answer
  <2>1. "ended" \in Stages /\ TRUE \in BOOLEAN /\ a \in Answers
    BY <1>1 DEF Request, Stages, Answers
  <2>2. to = [request[r] EXCEPT !.stage = "ended", !.lost = TRUE, !.answer = a]
    BY <1>1 DEF Ended, Request
  <2> HIDE DEF a
  <2>3. [request[r] EXCEPT !.stage = "ended", !.lost = TRUE, !.answer = a] \in Request
    BY <1>1, <2>1, EditedType, Zenon
  <2> QED BY <2>2, <2>3, Zenon
<1>3. /\ to.stage = "ended" /\ to.lost
      /\ to.answer = IF request[r].answer = 0 THEN 500 ELSE request[r].answer
  BY <1>1 DEF Request, Ended
<1>4. /\ to.op = request[r].op /\ to.url = request[r].url /\ to.met = request[r].met
      /\ to.own = request[r].own /\ to.id = request[r].id
  BY <1>1 DEF Request, Ended
<1>5. Go(r, to) /\ UNCHANGED <<feeds, sequence, deleted>> /\ losses' \in 0..MaxLosses
  BY RegistryAssumption DEF Lose, RegistryInv, TypeOK
<1> HIDE DEF to
<1>6. request[r].own # NoId => ~Known(request[r].own)
  BY <1>1 DEF RegistryInv, RowInv, Open, Lose, StageOK
<1>7. StageOK(to) /\ SeenOK(to) /\ Normal(to.url)
  BY <1>1, <1>3, <1>4, <1>6 DEF StageOK, SeenOK, Lose
<1> QED BY <1>2, <1>3, <1>4, <1>5, <1>7, HandlerMoves

\* create_feed's INSERT: the row is new to the committed and to the pending
\* ones, because the INSERT has waited, and its id is new to everybody; or a
\* committed row is in the way.
LEMMA InsertSteps ==
  ASSUME RegistryInv, NEW r \in Requests, Insert(r)
  PROVE  RegistryInv'
<1> DEFINE q == request[r]
<1>1. q \in Request /\ StageOK(q) /\ Normal(q.url)
  BY DEF RegistryInv, TypeOK, StageInv, UrlInv
<1>2. q.stage = "insert" /\ q.own = NoId /\ q.met = NoId /\ q.op = "post" /\ q.answer = 0 /\ ~q.lost
  BY <1>1 DEF Insert, CanInsert, StageOK
<1>3. r \notin Inserted
  BY <1>2 DEF Inserted
<1>4. sequence + 1 \in Ids /\ Cardinality(Inserted \cup {r}) = sequence + 1
  BY <1>3, SequenceCounts
<1>5. sequence \in Nat /\ sequence' = sequence + 1 /\ UNCHANGED <<feeds, deleted, losses>>
  <2>1. sequence \in Nat
    BY FS_CardinalityType, RegistryAssumption DEF RegistryInv, TypeOK, Ids
  <2> QED BY <2>1 DEF Insert
<1>6. "select" \in Stages
  BY DEF Stages
<1>7. \A t : SeenOK(t)' <=> SeenOK(t)
  BY <1>5 DEF SeenOK, Names, Known
<1>8. ASSUME NEW to \in Request, Go(r, to),
             to.stage = "select", to.op = "post", to.url = q.url, to.answer = 0, ~to.lost,
             to.own # NoId \/ to.met # NoId,
             to.own # NoId => to.own = sequence + 1 /\ RowsOf(q.url) = {},
             to.met # NoId => Names(to.met, q.url)
      PROVE  RegistryInv'
  <2>1. /\ request' \in [Requests -> Request]
        /\ request'[r] = to
        /\ \A s \in Requests : s # r => request'[s] = request[s]
    BY <1>8, GoMoves DEF RegistryInv
  <2>2. TypeOK'
    BY <1>4, <1>5, <2>1 DEF RegistryInv, TypeOK
  <2>3. StageOK(to)
    BY <1>8 DEF StageOK
  <2>4. StageInv'
    BY <2>1, <2>3 DEF RegistryInv, StageInv
  <2>5. UrlInv'
    BY <1>1, <1>5, <1>8, <2>1 DEF RegistryInv, UrlInv
  <2>6. Inserted' = Inserted \cup {r}
    BY <1>8, <2>1 DEF Inserted
  <2>7. to.own <= sequence'
    BY <1>5, <1>8 DEF NoId
  <2>8. \A s \in Requests : request[s].own \in Nat /\ request[s].own <= sequence
    BY FS_CardinalityType, RegistryAssumption DEF RegistryInv, IdInv, TypeOK, Request, Ids
  <2>9. IdInv'
    <3>1. (\A s \in Requests : request[s].own <= sequence)'
      BY <1>5, <2>1, <2>7, <2>8
    <3>2. (\A s, t \in Requests : request[s].own # NoId /\ request[s].own = request[t].own => s = t)'
      BY <1>5, <1>8, <2>1, <2>8 DEF RegistryInv, IdInv
    <3>3. (deleted \subseteq 1..sequence /\ \A f \in feeds : f.id <= sequence)'
      <4>1. \A f \in feeds : f.id \in Nat
        BY FS_CardinalityType, RegistryAssumption DEF RegistryInv, TypeOK, Ids
      <4> QED BY <1>5, <4>1 DEF RegistryInv, IdInv
    <3> QED BY <1>4, <1>5, <2>6, <3>1, <3>2, <3>3 DEF IdInv
  <2>10. ~Known(sequence + 1)
    <3>1. \A f \in feeds : f.id <= sequence /\ f.id \in Nat
      BY FS_CardinalityType, RegistryAssumption DEF RegistryInv, IdInv, TypeOK, Ids
    <3> QED BY <1>5, <3>1 DEF RegistryInv, IdInv, Known
  <2>11. \A s \in Requests : Open(s) => request[s].url # q.url
    BY DEF Insert, CanInsert, Pending, Open
  <2>12. RowInv'
    <3>1. \A s \in Requests : s # r => (Open(s)' <=> Open(s))
      BY <2>1 DEF Open
    <3>2. (\A s \in Requests : Open(s) => ~Known(request[s].own) /\ RowsOf(request[s].url) = {})'
      BY <1>5, <1>8, <2>1, <2>10, <3>1 DEF RegistryInv, RowInv, Known, RowsOf, Open
    <3>3. (\A s, t \in Requests : Open(s) /\ Open(t) /\ request[s].url = request[t].url => s = t)'
      BY <1>8, <2>1, <2>11, <3>1 DEF RegistryInv, RowInv
    <3> QED BY <1>5, <3>2, <3>3 DEF RegistryInv, RowInv
  <2>13. SeenOK(to)
    BY <1>8 DEF SeenOK
  <2>14. SeenInv'
    BY <1>7, <2>1, <2>13 DEF RegistryInv, SeenInv
  <2> QED BY <2>2, <2>4, <2>5, <2>9, <2>12, <2>14 DEF RegistryInv
<1>9. CASE RowsOf(q.url) = {} /\ Go(r, [q EXCEPT !.stage = "select", !.own = sequence'])
  <2> DEFINE i == sequence'
             to == [q EXCEPT !.stage = "select", !.own = i]
  <2>1. to \in Request
    <3>1. i \in Ids
      BY <1>4, <1>5
    <3> HIDE DEF i
    <3> QED BY <1>1, <1>6, <3>1, EditedType, Zenon
  <2>2. /\ to.stage = "select" /\ to.own = i /\ to.op = q.op /\ to.url = q.url
        /\ to.answer = q.answer /\ to.lost = q.lost /\ to.met = q.met
    BY <1>1 DEF Request
  <2>3. Go(r, to)
    BY <1>9
  <2>4. i = sequence + 1 /\ i # NoId
    BY <1>5 DEF NoId
  <2> HIDE DEF to, i, q
  <2> QED BY <1>2, <1>8, <1>9, <2>1, <2>2, <2>3, <2>4
<1>10. ASSUME NEW f \in RowsOf(q.url), Go(r, [q EXCEPT !.stage = "select", !.met = f.id])
       PROVE  RegistryInv'
  <2> DEFINE i == f.id
             to == [q EXCEPT !.stage = "select", !.met = i]
  <2>1. i \in Ids /\ i # NoId
    BY DEF RegistryInv, TypeOK, RowsOf
  <2>2. Names(i, q.url)
    BY DEF Names, Known, RowsOf, RegistryInv, RowInv
  <2>3. Go(r, to)
    BY <1>10
  <2> HIDE DEF i
  <2>4. to \in Request
    BY <1>1, <1>6, <2>1, EditedType, Zenon
  <2>5. /\ to.stage = "select" /\ to.met = i /\ to.op = q.op /\ to.url = q.url
        /\ to.answer = q.answer /\ to.lost = q.lost /\ to.own = q.own
    BY <1>1 DEF Request
  <2> HIDE DEF to, q
  <2> QED BY <1>2, <1>8, <2>1, <2>2, <2>3, <2>4, <2>5
<1> QED BY <1>9, <1>10 DEF Insert

\* get_session's commit: the pending row becomes a committed one, or the row
\* that delete_feed looked up is gone and its id will not come back.
LEMMA CommitSteps ==
  ASSUME RegistryInv, NEW r \in Requests, Commit(r)
  PROVE  RegistryInv'
<1> DEFINE q == request[r]
           to == Ended(r)
<1>1. q \in Request /\ StageOK(q) /\ SeenOK(q) /\ Normal(q.url)
  BY DEF RegistryInv, TypeOK, StageInv, SeenInv, UrlInv
<1>2. q.stage = "commit" /\ ~q.lost /\ Go(r, to) /\ UNCHANGED <<sequence, losses>>
  BY <1>1 DEF Commit, StageOK
<1>3. to \in Request
  <2>1. "ended" \in Stages
    BY DEF Stages
  <2> QED BY <1>1, <2>1, FieldType, Zenon DEF Ended
<1>4. /\ to.stage = "ended" /\ to.op = q.op /\ to.url = q.url /\ to.met = q.met
      /\ to.own = q.own /\ to.id = q.id /\ to.answer = q.answer /\ to.lost = q.lost
  BY <1>1 DEF Request, Ended
<1> HIDE DEF to
<1>5. StageOK(to) /\ Normal(to.url)
  BY <1>1, <1>2, <1>4 DEF StageOK
<1>6. /\ request' \in [Requests -> Request]
      /\ request'[r] = to
      /\ \A s \in Requests : s # r => request'[s] = request[s]
  BY <1>2, <1>3, GoMoves DEF RegistryInv
<1>7. StageInv'
  BY <1>5, <1>6 DEF RegistryInv, StageInv
<1>8. Inserted' = Inserted /\ \A s \in Requests : request'[s].own = request[s].own
  BY <1>4, <1>6 DEF Inserted
<1>9. \A s \in Requests : Open(s)' => s # r /\ Open(s) /\ request'[s] = request[s]
  BY <1>4, <1>6 DEF Open
<1>10. sequence \in Nat /\ \A f \in feeds : f.id \in Nat \ {0} /\ f.id <= sequence
  BY FS_CardinalityType, RegistryAssumption DEF RegistryInv, TypeOK, Ids, IdInv, NoId
<1>11. CASE q.op = "post" /\ q.own = NoId
  <2>1. UNCHANGED <<feeds, sequence, deleted>> /\ losses' \in 0..MaxLosses
    BY <1>11 DEF Commit, Pending, RegistryInv, TypeOK
  <2>2. SeenOK(to)
    BY <1>1, <1>2, <1>4, <1>11 DEF SeenOK, StageOK
  <2> QED BY <1>2, <1>3, <1>4, <1>5, <1>11, <2>1, <2>2, HandlerMoves
<1>12. CASE q.op = "post" /\ q.own # NoId
  <2> DEFINE row == [id |-> q.own, url |-> q.url]
  <2>1. feeds' = feeds \cup {row} /\ deleted' = deleted
    BY <1>2, <1>12 DEF Commit, Pending
  <2>2. row \in [id : Ids \ {NoId}, url : Raw] /\ row.id = q.own /\ row.url = q.url
    BY <1>1, <1>12 DEF Request
  <2> HIDE DEF row
  <2>3. Open(r) /\ ~Known(q.own) /\ RowsOf(q.url) = {}
    BY <1>2, <1>12 DEF Open, RegistryInv, RowInv
  <2>4. TypeOK'
    BY <1>2, <1>6, <2>1, <2>2 DEF RegistryInv, TypeOK
  <2>5. UrlInv'
    BY <1>1, <1>5, <1>6, <2>1, <2>2 DEF RegistryInv, UrlInv
  <2>6. IdInv'
    BY <1>2, <1>8, <2>1, <2>2 DEF RegistryInv, IdInv
  <2>7. \A i : Known(i)' <=> Known(i) \/ i = q.own
    BY <2>1, <2>2 DEF Known
  <2>8. \A i, u : Names(i, u) => Names(i, u)'
    BY <2>1, <2>2, <2>3, <2>7 DEF Names
  <2>9. RowInv'
    <3>1. (\A f \in feeds : f.id \notin deleted)'
      BY <2>1, <2>2, <2>3 DEF RegistryInv, RowInv, Known
    <3>2. (\A f, g \in feeds : f.id = g.id \/ f.url = g.url => f = g)'
      BY <2>1, <2>2, <2>3 DEF RegistryInv, RowInv, Known, RowsOf
    <3>3. ASSUME NEW s \in Requests, Open(s)'
          PROVE  (~Known(request[s].own) /\ RowsOf(request[s].url) = {})'
      <4>1. s # r /\ Open(s) /\ request'[s] = request[s]
        BY <1>9, <3>3
      <4>2. request[s].own # q.own /\ request[s].url # q.url
        BY <2>3, <4>1 DEF RegistryInv, IdInv, RowInv, Open
      <4>3. ~Known(request[s].own)'
        BY <2>7, <4>1, <4>2 DEF RegistryInv, RowInv
      <4>4. RowsOf(request[s].url)' = {}
        BY <2>1, <2>2, <4>1, <4>2 DEF RegistryInv, RowInv, RowsOf
      <4> QED BY <4>1, <4>3, <4>4
    <3>4. (\A s, t \in Requests : Open(s) /\ Open(t) /\ request[s].url = request[t].url => s = t)'
      BY <1>9 DEF RegistryInv, RowInv
    <3> QED BY <3>1, <3>2, <3>3, <3>4 DEF RowInv
  <2>10. SeenOK(request[r])'
    <3>1. Names(request[r].own, request[r].url)'
      BY <1>4, <1>6, <2>1, <2>2, <2>3, <2>7 DEF Names, Known
    <3> QED BY <1>1, <1>2, <1>4, <1>6, <1>12, <2>1, <2>8, <3>1 DEF SeenOK, StageOK
  <2>11. ASSUME NEW s \in Requests, s # r PROVE SeenOK(request[s])'
    <3>1. SeenOK(request[s]) /\ request'[s] = request[s]
      BY <1>6, <2>11 DEF RegistryInv, SeenInv
    <3>2. request[s].own # NoId => request[s].own # q.own
      BY <2>11 DEF RegistryInv, IdInv
    <3> QED BY <2>1, <2>7, <2>8, <3>1, <3>2 DEF SeenOK
  <2>12. SeenInv'
    BY <2>10, <2>11 DEF SeenInv
  <2> QED BY <1>7, <2>4, <2>5, <2>6, <2>9, <2>12 DEF RegistryInv
<1>13. CASE q.op # "post"
  <2>1. q.op = "delete" /\ Known(q.id) /\ q.own = NoId /\ q.answer = 204
    BY <1>1, <1>2, <1>13 DEF StageOK, SeenOK
  <2>2. feeds' = {f \in feeds : f.id # q.id} /\ deleted' = deleted \cup {q.id}
    BY <1>13 DEF Commit
  <2>3. q.id \in Ids /\ q.id \in 1..sequence
    <3>1. q.id \in Ids
      BY <1>1 DEF Request
    <3>2. CASE q.id \in deleted
      BY <3>1, <3>2 DEF RegistryInv, IdInv
    <3>3. CASE \E f \in feeds : f.id = q.id
      BY <1>10, <3>1, <3>3
    <3> QED BY <2>1, <3>2, <3>3 DEF Known
  <2>4. TypeOK'
    BY <1>2, <1>6, <2>2, <2>3 DEF RegistryInv, TypeOK
  <2>5. UrlInv'
    BY <1>5, <1>6, <2>2 DEF RegistryInv, UrlInv
  <2>6. IdInv'
    BY <1>2, <1>8, <2>2, <2>3 DEF RegistryInv, IdInv
  <2>7. \A i : Known(i)' <=> Known(i)
    BY <2>1, <2>2 DEF Known
  <2>8. \A i, u : Names(i, u) => Names(i, u)'
    BY <2>2, <2>7 DEF Names
  <2>9. RowInv'
    <3>1. (\A f \in feeds : f.id \notin deleted)'
      BY <2>2 DEF RegistryInv, RowInv
    <3>2. (\A f, g \in feeds : f.id = g.id \/ f.url = g.url => f = g)'
      BY <2>2 DEF RegistryInv, RowInv
    <3>3. (\A s \in Requests : Open(s) => ~Known(request[s].own) /\ RowsOf(request[s].url) = {})'
      BY <1>9, <2>2, <2>7 DEF RegistryInv, RowInv, RowsOf
    <3>4. (\A s, t \in Requests : Open(s) /\ Open(t) /\ request[s].url = request[t].url => s = t)'
      BY <1>9 DEF RegistryInv, RowInv
    <3> QED BY <3>1, <3>2, <3>3, <3>4 DEF RowInv
  <2>10. SeenOK(request[r])'
    BY <1>1, <1>4, <1>6, <2>1, <2>8 DEF SeenOK
  <2>11. ASSUME NEW s \in Requests, s # r PROVE SeenOK(request[s])'
    <3>1. SeenOK(request[s]) /\ request'[s] = request[s]
      BY <1>6, <2>11 DEF RegistryInv, SeenInv
    <3> QED BY <2>2, <2>7, <2>8, <3>1 DEF SeenOK
  <2>12. SeenInv'
    BY <2>10, <2>11 DEF SeenInv
  <2> QED BY <1>7, <2>4, <2>5, <2>6, <2>9, <2>12 DEF RegistryInv
<1> QED BY <1>11, <1>12, <1>13

\* Nothing is registered and nobody has asked.
LEMMA RegistryInit == Init => RegistryInv
<1> SUFFICES ASSUME Init PROVE RegistryInv
  OBVIOUS
<1>1. \A r \in Requests : request[r] = Unused
  BY DEF Init
<1>2. Cardinality(Requests) \in Nat
  BY FS_CardinalityType, RegistryAssumption
<1>3. TypeOK
  BY <1>2, UnusedType, RegistryAssumption DEF Init, TypeOK, Ids
<1>4. StageInv /\ UrlInv
  BY <1>1, UnusedType DEF Init, StageInv, UrlInv
<1>5. /\ Unused.own = NoId /\ Unused.met = NoId /\ Unused.stage = "unused"
      /\ Unused.op = "none" /\ Unused.answer = 0 /\ Unused.lost = FALSE
  BY DEF Unused
<1>6. Inserted = {}
  BY <1>1, <1>5 DEF Inserted
<1>7. IdInv
  BY <1>1, <1>5, <1>6, FS_EmptySet DEF Init, IdInv, NoId
<1>8. RowInv
  BY <1>1, <1>5 DEF Init, RowInv, Open
<1>9. SeenInv
  BY <1>1, <1>5 DEF SeenInv, SeenOK
<1> QED BY <1>3, <1>4, <1>7, <1>8, <1>9 DEF RegistryInv

\* One step per operation.
LEMMA RegistryStep == RegistryInv /\ [Next]_vars => RegistryInv'
<1> SUFFICES ASSUME RegistryInv, [Next]_vars PROVE RegistryInv'
  OBVIOUS
<1>1. ASSUME NEW r \in Requests, NEW raw \in Raw, Post(r, raw) PROVE RegistryInv'
  BY <1>1, PostSteps
<1>2. ASSUME NEW r \in Requests, NEW id \in 1..sequence, Delete(r, id) PROVE RegistryInv'
  BY <1>2, DeleteSteps
<1>3. ASSUME NEW r \in Requests, Insert(r) PROVE RegistryInv'
  BY <1>3, InsertSteps
<1>4. ASSUME NEW r \in Requests, SelectNothing(r) PROVE RegistryInv'
  BY <1>4, SelectNothingSteps
<1>5. ASSUME NEW r \in Requests, Select(r) PROVE RegistryInv'
  BY <1>5, SelectSteps
<1>6. ASSUME NEW r \in Requests, Commit(r) PROVE RegistryInv'
  BY <1>6, CommitSteps
<1>7. ASSUME NEW r \in Requests, Lose(r) PROVE RegistryInv'
  BY <1>7, LoseSteps
<1>8. CASE UNCHANGED vars
  <2>1. \A q : SeenOK(q)' <=> SeenOK(q)
    BY <1>8 DEF SeenOK, Names, Known, vars
  <2>2. SeenInv'
    BY <1>8, <2>1 DEF RegistryInv, SeenInv, vars
  <2> QED BY <1>8, <2>2 DEF vars, RegistryInv, TypeOK, StageInv, UrlInv, IdInv, Inserted, RowInv,
                Open, Known, RowsOf
<1> QED BY <1>1, <1>2, <1>3, <1>4, <1>5, <1>6, <1>7, <1>8 DEF Next, HandlerStep
-----------------------------------------------------------------------------
(* The results *)

\* The inductive invariant holds throughout.
LEMMA RegistryInvariant == Spec => []RegistryInv
BY RegistryInit, RegistryStep, PTL DEF Spec

\* create_feed and delete_feed keep every row and every handler well-formed,
\* and ask the sequence for no more ids than there are requests.
THEOREM RegistryTyped == Spec => []TypeOK
<1>1. RegistryInv => TypeOK
  BY DEF RegistryInv
<1> QED BY <1>1, RegistryInvariant, PTL

\* create_feed registers a resource once: whatever number of clients post
\* whatever spellings of its url, and whatever is deleted or lost meanwhile, two
\* committed rows never have the same base.
THEOREM OneFeedIsKept == Spec => []OneFeedPerResource
<1>1. RegistryInv => OneFeedPerResource
  <2> SUFFICES ASSUME RegistryInv, NEW f \in feeds, NEW g \in feeds, f.url.base = g.url.base
               PROVE  f = g
    BY DEF OneFeedPerResource
  <2>1. f.url \in Raw /\ g.url \in Raw /\ Normal(f.url) /\ Normal(g.url)
    BY DEF RegistryInv, TypeOK, UrlInv
  <2>2. f.url = g.url
    BY <2>1, NormalByBase
  <2> QED BY <2>2 DEF RegistryInv, RowInv
<1> QED BY <1>1, RegistryInvariant, PTL

\* create_feed is idempotent for clients that race: what two of them are told
\* about one resource differs only if a row was deleted or never committed.
THEOREM PostsAlwaysAgree == Spec => []PostsAgree
<1>1. RegistryInv => PostsAgree
  <2> SUFFICES ASSUME RegistryInv, NEW r \in Requests, NEW s \in Requests,
                      Answered(r), Answered(s), request[r].url.base = request[s].url.base,
                      request[r].id \notin deleted, request[s].id \notin deleted,
                      \A t \in {r, s} : ~(request[t].lost /\ request[t].answer = 201)
               PROVE  request[r].id = request[s].id
    BY DEF PostsAgree
  <2>1. request[r].url = request[s].url
    <3>1. /\ request[r].url \in Raw /\ request[s].url \in Raw
          /\ Normal(request[r].url) /\ Normal(request[s].url)
      BY DEF RegistryInv, TypeOK, Request, UrlInv
    <3> QED BY <3>1, NormalByBase
  <2>2. ASSUME NEW t \in {r, s}
        PROVE  \/ Open(t) /\ request[t].id = request[t].own
               \/ \E f \in feeds : f.id = request[t].id /\ f.url = request[t].url
    <3>1. t \in Requests /\ StageOK(request[t]) /\ SeenOK(request[t]) /\ request[t] \in Request
      BY DEF RegistryInv, TypeOK, StageInv, SeenInv
    <3>2. CASE request[t].answer = 200
      BY <3>1, <3>2 DEF SeenOK, Names, Known
    <3>3. CASE request[t].answer = 201
      <4>1. request[t].own # NoId /\ request[t].id = request[t].own /\ ~request[t].lost
        BY <3>1, <3>3 DEF StageOK
      <4>2. request[t].stage \in {"commit", "ended"}
        BY <3>1, <3>3 DEF StageOK, Request
      <4> QED BY <3>1, <4>1, <4>2 DEF SeenOK, Names, Known, Open
    <3> QED BY <3>2, <3>3 DEF Answered
  <2> QED BY <2>1, <2>2 DEF RegistryInv, RowInv, RowsOf
<1> QED BY <1>1, RegistryInvariant, PTL

\* An answer outlives its session: what create_feed has named is there, or was
\* deleted, once the handler has ended, although it answers before the commit
\* of get_session; only the answer of an inserter whose commit failed is void.
THEOREM AnswersAreKept == Spec => []AcknowledgedIsKept
<1>1. RegistryInv => AcknowledgedIsKept
  BY DEF RegistryInv, StageInv, StageOK, SeenInv, SeenOK, Names, Known,
         AcknowledgedIsKept, Answered
<1> QED BY <1>1, RegistryInvariant, PTL

\* create_feed's scalar_one raises only in the window a DELETE opens.
THEOREM PostsFailOnlyUnderDelete == Spec => []FailsOnlyUnderDelete
<1>1. RegistryInv => FailsOnlyUnderDelete
  BY DEF RegistryInv, SeenInv, SeenOK, FailsOnlyUnderDelete
<1> QED BY <1>1, RegistryInvariant, PTL
=============================================================================
