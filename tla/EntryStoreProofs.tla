-------------------------- MODULE EntryStoreProofs --------------------------
(***************************************************************************)
(* The entries table for any number of feeds, sessions and sweepers: a guid  *)
(* stays one row, its age never moves, the ETag is backed by rows, and       *)
(* retention takes only what is outside both of its windows.                *)
(*                                                                         *)
(* The properties are about committed rows, and what a commit does to them  *)
(* was decided statements earlier.  StoreInv says what stays true in        *)
(* between: the locks of two sessions are disjoint (LockInv); a pending row  *)
(* is the next version of the committed row of its key, if there is one     *)
(* (RowInv); a session sees every entry it has handled as its document has  *)
(* it (BackInv); and the victims a sweep has chosen stay outside both        *)
(* windows until it removes them (VictimInv).                               *)
(***************************************************************************)
EXTENDS EntryStore, FiniteSetTheorems, SequenceTheorems, TLAPS

Item == [guid : Guids, content : Contents]

MaybeDocument == Documents \cup {NoDocument}

Sweep == [running : BOOLEAN, victims : SUBSET (1..MaxId)]

\* What the state of a session says about the rest of its record.
StageOK(q) ==
  /\ q.state # "closed" => q.feed \in Feeds
  /\ q.state # "upserting" => q.touched = {} /\ q.pending = {}
  /\ q.state = "upserting" => q.doc \in Documents

TypeInv ==
  /\ entries \subseteq Entry /\ lastId \in 0..MaxId
  /\ live \subseteq Feeds
  /\ etag \in [Feeds -> MaybeDocument]
  /\ session \in [Sessions -> Session] /\ \A s \in Sessions : StageOK(session[s])
  /\ sweep \in [Sweepers -> Sweep]
  /\ swept \subseteq Feeds \X Guids /\ since \in [Feeds -> SUBSET Documents]
  /\ clock \in 0..MaxClock /\ faults \in 0..MaxFaults

LockInv ==
  \A s, o \in Sessions : s # o /\ session[s].feed = session[o].feed =>
    session[s].touched \cap session[o].touched = {}

SameKey(d, e) == d.feed = e.feed /\ d.guid = e.guid

\* r is a version of the row e.
Version(r, e) == SameKey(r, e) /\ r.id = e.id /\ r.fetched_at = e.fetched_at

\* The pending rows of s, by themselves and beside the committed ones.
PendingOK(s) ==
  /\ IsFiniteSet(session[s].pending)
  /\ \A r \in session[s].pending : /\ r.id \in 1..lastId
                                   /\ r.feed = session[s].feed
                                   /\ r.guid \in session[s].touched
  /\ \A r, q \in session[s].pending : r.guid = q.guid \/ r.id = q.id => r = q
  /\ \A r \in session[s].pending, e \in entries :
       SameKey(r, e) \/ r.id = e.id => Version(r, e)

RowInv ==
  /\ IsFiniteSet(entries)
  /\ \A e \in entries : e.id \in 1..lastId
  /\ OneRowPerGuid
  /\ \A s \in Sessions : PendingOK(s)
  /\ \A s, o \in Sessions : s # o =>
       \A r \in session[s].pending, q \in session[o].pending : r.id # q.id

\* Session s sees the row of guid as its document has it.
Shown(s, guid) ==
  \E e \in Visible(s, guid) :
    [guid |-> e.guid, content |-> e.content] \in Range(session[s].doc)

HandledOK(s) ==
  session[s].state = "upserting" =>
    /\ Range(session[s].todo) \subseteq Range(session[s].doc)
    /\ \A item \in Range(Capped(session[s].doc, FALSE)) :
         item.guid \in session[s].touched \/ item \in Range(session[s].todo)
    /\ \A guid \in session[s].touched : Shown(s, guid)

BackInv == ETagIsBacked /\ \A s \in Sessions : HandledOK(s)

VictimInv ==
  \A p \in Sweepers :
    /\ sweep[p].victims \subseteq 1..lastId
    /\ ~sweep[p].running => sweep[p].victims = {}
    /\ \A e \in entries : e.id \in sweep[p].victims =>
         Outranked(e) /\ e.fetched_at < clock - RetentionDays
    /\ \A s \in Sessions : \A r \in session[s].pending :
         r.id \in sweep[p].victims => r.id \in Ids(entries)

StoreInv == TypeInv /\ LockInv /\ RowInv /\ BackInv /\ VictimInv
-----------------------------------------------------------------------------
(* Documents and records *)

\* What a session upserts of a document: a part of it, and at least the part a
\* first fetch would take.
LEMMA CappedParts ==
  ASSUME NEW doc \in Documents, NEW has
  PROVE  /\ Capped(doc, has) \in Seq(Item)
         /\ Range(Capped(doc, has)) \subseteq Range(doc)
         /\ Range(Capped(doc, FALSE)) \subseteq Range(Capped(doc, has))
<1> DEFINE large == IF Len(doc) > MaxPerFetch THEN MaxPerFetch ELSE Len(doc)
           first == IF MaxPerFetch <= MaxInitial THEN MaxPerFetch ELSE MaxInitial
           small == IF Len(doc) > first THEN first ELSE Len(doc)
<1>1. doc \in Seq(Item) /\ Len(doc) \in Nat /\ DOMAIN doc = 1..Len(doc)
  BY StoreAssumption, LenProperties DEF Item
<1>2. small \in 0..Len(doc) /\ large \in 0..Len(doc) /\ small <= large
  BY <1>1, StoreAssumption
<1>3. Capped(doc, FALSE) = SubSeq(doc, 1, small)
  BY DEF Capped
<1>4. Capped(doc, has) = SubSeq(doc, 1, large) \/ Capped(doc, has) = SubSeq(doc, 1, small)
  BY DEF Capped
<1> HIDE DEF small, large
<1>5. ASSUME NEW n \in 0..Len(doc)
      PROVE  /\ SubSeq(doc, 1, n) \in Seq(Item)
             /\ Range(SubSeq(doc, 1, n)) = {doc[i] : i \in 1..n}
  <2>1. \A i \in 1..n : doc[i] \in Item
    BY <1>1, <1>5, ElementOfSeq
  <2>2. /\ SubSeq(doc, 1, n) \in Seq(Item)
        /\ Len(SubSeq(doc, 1, n)) = IF 1 <= n THEN n - 1 + 1 ELSE 0
        /\ \A i \in 1..(n - 1 + 1) : SubSeq(doc, 1, n)[i] = doc[1 + i - 1]
    BY <1>1, <1>5, <2>1, SubSeqProperties
  <2>3. DOMAIN SubSeq(doc, 1, n) = 1..n
    BY <1>5, <2>2, LenProperties
  <2>4. \A i \in 1..n : SubSeq(doc, 1, n)[i] = doc[i]
    BY <1>5, <2>2
  <2> QED BY <2>2, <2>3, <2>4 DEF Range
<1>6. Range(doc) = {doc[i] : i \in 1..Len(doc)}
  BY <1>1 DEF Range
<1> DEFINE Part(n) == {doc[i] : i \in 1..n}
<1>7. Part(small) \subseteq Part(large) /\ Part(large) \subseteq Range(doc)
  BY <1>1, <1>2, <1>6
<1>8. /\ SubSeq(doc, 1, small) \in Seq(Item) /\ Range(SubSeq(doc, 1, small)) = Part(small)
      /\ SubSeq(doc, 1, large) \in Seq(Item) /\ Range(SubSeq(doc, 1, large)) = Part(large)
  BY <1>2, <1>5
<1> HIDE DEF Part
<1> QED BY <1>3, <1>4, <1>7, <1>8

\* Taking the next entry of the list.
LEMMA HeadAndTail ==
  ASSUME NEW todo \in Seq(Item), todo # <<>>
  PROVE  /\ Head(todo) \in Item /\ Tail(todo) \in Seq(Item)
         /\ Range(todo) = {Head(todo)} \cup Range(Tail(todo))
<1>1. /\ Head(todo) \in Item /\ Tail(todo) \in Seq(Item)
      /\ Len(Tail(todo)) = Len(todo) - 1
      /\ \A i \in 1..Len(Tail(todo)) : Tail(todo)[i] = todo[i + 1]
  BY HeadTailProperties
<1>2. /\ Len(todo) \in Nat \ {0} /\ DOMAIN todo = 1..Len(todo)
      /\ DOMAIN Tail(todo) = 1..(Len(todo) - 1) /\ Head(todo) = todo[1]
  BY <1>1, LenProperties, EmptySeq
<1>3. ASSUME NEW i \in 1..Len(todo)
      PROVE  todo[i] \in {Head(todo)} \cup Range(Tail(todo))
  <2>1. CASE i = 1
    BY <2>1, <1>2
  <2>2. CASE i # 1
    <3>1. i - 1 \in 1..(Len(todo) - 1)
      BY <2>2, <1>2
    <3>2. Tail(todo)[i - 1] = todo[i]
      BY <3>1, <1>1, <1>2
    <3> QED BY <3>1, <3>2, <1>2 DEF Range
  <2> QED BY <2>1, <2>2
<1>4. Head(todo) \in Range(todo)
  BY <1>2 DEF Range
<1>5. ASSUME NEW i \in 1..(Len(todo) - 1) PROVE Tail(todo)[i] \in Range(todo)
  <2>1. i + 1 \in 1..Len(todo) /\ Tail(todo)[i] = todo[i + 1]
    BY <1>1, <1>2
  <2> QED BY <2>1, <1>2 DEF Range
<1> QED BY <1>1, <1>2, <1>3, <1>4, <1>5 DEF Range

\* A session that is not under way.
LEMMA ClosedType ==
  /\ Closed \in Session /\ StageOK(Closed)
  /\ Closed.feed = NoFeed /\ Closed.touched = {} /\ Closed.pending = {}
  /\ Closed.state = "closed"
BY EmptySeq DEF Closed, Session, StageOK
-----------------------------------------------------------------------------
(* What the statements of a session do to its record *)

\* The sessions other than s are left alone.
OthersSame(s) == \A o \in Sessions \ {s} : session'[o] = session[o]

\* _process_feed starts with an empty record.
LEMMA OpenEffect ==
  ASSUME TypeInv, NEW s \in Sessions, OpenSession(s)
  PROVE  /\ session' \in [Sessions -> Session] /\ StageOK(session'[s]) /\ OthersSame(s)
         /\ session'[s].state = "requesting"
         /\ session'[s].touched = {} /\ session'[s].pending = {}
<1>1. PICK f \in live, now \in (clock - TickBudget)..clock :
        session' = [session EXCEPT ![s] =
         [Closed EXCEPT !.state = "requesting", !.feed = f, !.now = now,
                        !.begun = clock]]
  BY DEF OpenSession
<1> DEFINE q == [Closed EXCEPT !.state = "requesting", !.feed = f, !.now = now,
                               !.begun = clock]
<1>2. f \in Feeds /\ now \in Int /\ clock \in Int /\ etag[f] \in MaybeDocument
  BY StoreAssumption DEF TypeInv
<1>3. q \in Session
  BY <1>2, ClosedType DEF Session, MaybeDocument
<1>4. q.state = "requesting" /\ q.feed = f /\ q.touched = {} /\ q.pending = {}
  BY DEF Closed
<1> HIDE DEF q
<1>5. session' = [session EXCEPT ![s] = q]
  BY <1>1 DEF q
<1>6. session' \in [Sessions -> Session] /\ session'[s] = q /\ OthersSame(s)
  BY <1>3, <1>5 DEF TypeInv, OthersSame
<1> QED BY <1>2, <1>4, <1>6 DEF StageOK

\* fetch_one has parsed a body and cut it to the cap.
LEMMA ReceiveEffect ==
  ASSUME TypeInv, NEW s \in Sessions, Receive(s)
  PROVE  /\ session' \in [Sessions -> Session] /\ StageOK(session'[s]) /\ OthersSame(s)
         /\ session'[s].state = "upserting" /\ session'[s].doc \in Documents
         /\ Range(session'[s].todo) \subseteq Range(session'[s].doc)
         /\ Range(Capped(session'[s].doc, FALSE)) \subseteq Range(session'[s].todo)
         /\ session'[s].touched = {} /\ session'[s].pending = {}
<1> DEFINE has == \E e \in entries : e.feed = session[s].feed
<1>1. PICK doc \in Documents : session' = [session EXCEPT
         ![s].state = "upserting", ![s].doc = doc, ![s].todo = Capped(doc, has)]
  BY DEF Receive
<1> DEFINE todo == Capped(doc, has)
<1>2. /\ todo \in Seq(Item) /\ Range(todo) \subseteq Range(doc)
      /\ Range(Capped(doc, FALSE)) \subseteq Range(todo)
  BY CappedParts
<1> HIDE DEF todo
<1>3. /\ session[s] \in Session /\ session[s].feed \in Feeds
      /\ session[s].touched = {} /\ session[s].pending = {}
  BY DEF TypeInv, StageOK, Receive
<1> DEFINE q == [session[s] EXCEPT !.state = "upserting", !.doc = doc, !.todo = todo]
<1>4. q \in Session
  BY <1>2, <1>3 DEF Session, Item
<1>5. /\ q.state = "upserting" /\ q.doc = doc /\ q.todo = todo /\ q.feed = session[s].feed
      /\ q.touched = {} /\ q.pending = {}
  BY <1>3 DEF Session
<1>6. session' = [session EXCEPT ![s] = q]
  BY <1>1 DEF TypeInv, todo
<1> HIDE DEF q
<1>7. session' \in [Sessions -> Session] /\ session'[s] = q /\ OthersSame(s)
  BY <1>4, <1>6 DEF TypeInv, OthersSame
<1> QED BY <1>2, <1>3, <1>5, <1>7 DEF StageOK

NextItem(s) == Head(session[s].todo)

\* The three outcomes of INSERT ... ON CONFLICT DO UPDATE ... WHERE.
Inserts(s) ==
  /\ Visible(s, NextItem(s).guid) = {}
  /\ lastId' = lastId + 1
  /\ session'[s].pending = session[s].pending \cup {Inserted(s, NextItem(s))}

Skips(s, row) ==
  /\ row \in Visible(s, NextItem(s).guid)
  /\ lastId' = lastId
  /\ row.content = NextItem(s).content
  /\ session'[s].pending = session[s].pending

Edits(s, row) ==
  /\ row \in Visible(s, NextItem(s).guid)
  /\ lastId' = lastId
  /\ session'[s].pending = (session[s].pending \ {row}) \cup {Updated(s, row, NextItem(s))}

\* A row a session sees is a row.
LEMMA VisibleType ==
  ASSUME TypeInv, NEW s \in Sessions, NEW guid, NEW row \in Visible(s, guid)
  PROVE  row \in Entry /\ row.guid = guid
BY DEF TypeInv, Session, Visible

\* upsert_entries: one statement writes at most one row and locks one key.
LEMMA UpsertEffect ==
  ASSUME TypeInv, NEW s \in Sessions, UpsertEntry(s)
  PROVE  /\ NextItem(s) \in Item /\ session[s].feed \in Feeds
         /\ session' \in [Sessions -> Session] /\ StageOK(session'[s]) /\ OthersSame(s)
         /\ session'[s].state = "upserting" /\ session'[s].doc = session[s].doc
         /\ session'[s].feed = session[s].feed
         /\ session'[s].todo = Tail(session[s].todo)
         /\ session'[s].touched = session[s].touched \cup {NextItem(s).guid}
         /\ Inserts(s) \/ \E row \in Visible(s, NextItem(s).guid) : Skips(s, row) \/ Edits(s, row)
<1> DEFINE me == session[s]  item == NextItem(s)
<1>1. me \in Session /\ me.feed \in Feeds /\ me.state = "upserting" /\ me.todo # <<>>
  BY DEF TypeInv, StageOK, UpsertEntry
<1>2. me.todo \in Seq(Item) /\ me.now \in Int /\ me.begun \in Int /\ me.pending \subseteq Entry
      /\ me.touched \subseteq Guids /\ me.doc \in Documents
  BY <1>1 DEF Session, Item, TypeInv, StageOK
<1>3. item \in Item /\ Tail(me.todo) \in Seq(Item)
  BY <1>1, <1>2, HeadAndTail DEF NextItem
<1>4. item.guid \in Guids /\ item.content \in Contents
  BY <1>3 DEF Item
<1> HIDE DEF item
<1> DEFINE Rec(p) == [me EXCEPT !.todo = Tail(me.todo), !.touched = me.touched \cup {item.guid},
                                !.pending = p]
<1>5. ASSUME NEW p \in SUBSET Entry, session' = [session EXCEPT ![s] = Rec(p)]
      PROVE  /\ session' \in [Sessions -> Session] /\ StageOK(session'[s]) /\ OthersSame(s)
             /\ session'[s].state = "upserting" /\ session'[s].doc = session[s].doc
             /\ session'[s].feed = session[s].feed
             /\ session'[s].todo = Tail(session[s].todo)
             /\ session'[s].touched = session[s].touched \cup {item.guid}
             /\ session'[s].pending = p
  <2>1. Rec(p) \in Session
    BY <1>1, <1>2, <1>3, <1>4 DEF Session, Item
  <2>2. /\ Rec(p).state = "upserting" /\ Rec(p).doc = me.doc /\ Rec(p).feed = me.feed
        /\ Rec(p).todo = Tail(me.todo) /\ Rec(p).touched = me.touched \cup {item.guid}
        /\ Rec(p).pending = p
    BY <1>1 DEF Session
  <2> HIDE DEF Rec
  <2>3. session' \in [Sessions -> Session] /\ session'[s] = Rec(p) /\ OthersSame(s)
    BY <1>5, <2>1 DEF TypeInv, OthersSame
  <2> QED BY <1>1, <1>2, <2>2, <2>3 DEF StageOK
<1>6. CASE /\ Visible(s, item.guid) = {}
           /\ lastId < MaxId
           /\ lastId' = lastId + 1
           /\ session' = [session EXCEPT ![s].todo = Tail(@),
                ![s].touched = @ \cup {item.guid},
                ![s].pending = @ \cup {Inserted(s, item)}]
  <2>1. Inserted(s, item) \in Entry
    BY <1>1, <1>2, <1>4 DEF Inserted, Entry, TypeInv
  <2>2. session' = [session EXCEPT ![s] = Rec(me.pending \cup {Inserted(s, item)})]
    BY <1>6 DEF TypeInv
  <2>3. me.pending \cup {Inserted(s, item)} \in SUBSET Entry
    BY <2>1, <1>2
  <2> HIDE DEF Rec
  <2> QED BY <1>1, <1>3, <1>5, <1>6, <2>2, <2>3 DEF Inserts, item
<1>7. ASSUME NEW row \in Visible(s, item.guid),
             lastId' = lastId,
             session' = [session EXCEPT ![s].todo = Tail(@),
                ![s].touched = @ \cup {item.guid},
                ![s].pending = IF row.content = item.content THEN @
                               ELSE (@ \ {row}) \cup {Updated(s, row, item)}]
      PROVE  /\ session' \in [Sessions -> Session] /\ StageOK(session'[s]) /\ OthersSame(s)
             /\ session'[s].state = "upserting" /\ session'[s].doc = session[s].doc
             /\ session'[s].feed = session[s].feed
             /\ session'[s].todo = Tail(session[s].todo)
             /\ session'[s].touched = session[s].touched \cup {item.guid}
             /\ Skips(s, row) \/ Edits(s, row)
  <2>0. row \in Entry
    BY VisibleType
  <2>1. Updated(s, row, item) \in Entry
    BY <2>0, <1>2, <1>4 DEF Updated, Entry
  <2> DEFINE p == IF row.content = item.content THEN me.pending
                  ELSE (me.pending \ {row}) \cup {Updated(s, row, item)}
  <2>2. p \in SUBSET Entry
    BY <2>1, <1>2
  <2>3. session' = [session EXCEPT ![s] = Rec(p)]
    BY <1>7 DEF TypeInv
  <2>4. \/ p = me.pending /\ row.content = item.content
        \/ p = (me.pending \ {row}) \cup {Updated(s, row, item)}
    OBVIOUS
  <2> HIDE DEF Rec, p
  <2>5. session'[s].pending = p
    BY <1>5, <2>2, <2>3
  <2>6. Skips(s, row) \/ Edits(s, row)
    BY <1>7, <2>4, <2>5 DEF Skips, Edits, item
  <2> QED BY <1>5, <2>2, <2>3, <2>6
<1>8. \/ /\ Visible(s, item.guid) = {}
         /\ lastId < MaxId
         /\ lastId' = lastId + 1
         /\ session' = [session EXCEPT ![s].todo = Tail(@),
                ![s].touched = @ \cup {item.guid},
                ![s].pending = @ \cup {Inserted(s, item)}]
      \/ \E row \in Visible(s, item.guid) :
           /\ lastId' = lastId
           /\ session' = [session EXCEPT ![s].todo = Tail(@),
                ![s].touched = @ \cup {item.guid},
                ![s].pending = IF row.content = item.content THEN @
                               ELSE (@ \ {row}) \cup {Updated(s, row, item)}]
  BY DEF UpsertEntry, item, NextItem
<1> QED BY <1>1, <1>3, <1>6, <1>7, <1>8 DEF item

\* Closing a session forgets its rows and its locks.
LEMMA CloseEffect ==
  ASSUME TypeInv, NEW s \in Sessions, session' = [session EXCEPT ![s] = Closed]
  PROVE  /\ session' \in [Sessions -> Session] /\ StageOK(session'[s]) /\ OthersSame(s)
         /\ session'[s] = Closed
<1>1. session' \in [Sessions -> Session] /\ session'[s] = Closed /\ OthersSame(s)
  BY ClosedType DEF TypeInv, OthersSame
<1> QED BY <1>1, ClosedType
-----------------------------------------------------------------------------
(* Types *)

\* The table starts empty.
LEMMA TypeInit == Init => TypeInv
<1> SUFFICES ASSUME Init PROVE TypeInv
  OBVIOUS
<1>1. session \in [Sessions -> Session] /\ \A s \in Sessions : StageOK(session[s])
  BY ClosedType DEF Init
<1>2. etag \in [Feeds -> MaybeDocument] /\ sweep \in [Sweepers -> Sweep]
  BY DEF Init, MaybeDocument, Sweep, Idle
<1> QED BY <1>1, <1>2, StoreAssumption DEF Init, TypeInv

\* One session changes, the others keep their stage.
LEMMA StageStep ==
  ASSUME TypeInv, NEW s \in Sessions, OthersSame(s), StageOK(session'[s])
  PROVE  \A o \in Sessions : StageOK(session'[o])
BY DEF TypeInv, OthersSame

\* Every step keeps the columns and records typed.
LEMMA TypeStep == TypeInv /\ RowInv /\ [Next]_vars => TypeInv'
<1> SUFFICES ASSUME TypeInv, RowInv, [Next]_vars PROVE TypeInv'
  OBVIOUS
<1>1. ASSUME NEW s \in Sessions, OpenSession(s) PROVE TypeInv'
  <2>1. session' \in [Sessions -> Session] /\ \A o \in Sessions : StageOK(session'[o])
    BY <1>1, OpenEffect, StageStep
  <2> QED BY <1>1, <2>1 DEF TypeInv, OpenSession
<1>2. ASSUME NEW s \in Sessions, Receive(s) PROVE TypeInv'
  <2>1. session' \in [Sessions -> Session] /\ \A o \in Sessions : StageOK(session'[o])
    BY <1>2, ReceiveEffect, StageStep
  <2> QED BY <1>2, <2>1 DEF TypeInv, Receive
<1>3. ASSUME NEW s \in Sessions, UpsertEntry(s) PROVE TypeInv'
  <2>1. session' \in [Sessions -> Session] /\ \A o \in Sessions : StageOK(session'[o])
    BY <1>3, UpsertEffect, StageStep
  <2>2. lastId' \in 0..MaxId
    BY <1>3, StoreAssumption DEF UpsertEntry, TypeInv
  <2>3. UNCHANGED <<entries, live, etag, sweep, swept, since, clock, faults>>
    BY <1>3 DEF UpsertEntry
  <2> QED BY <2>1, <2>2, <2>3 DEF TypeInv
<1>4. ASSUME NEW s \in Sessions, CommitSession(s) PROVE TypeInv'
  <2>1. session' = [session EXCEPT ![s] = Closed]
    BY <1>4 DEF CommitSession
  <2>2. session' \in [Sessions -> Session] /\ \A o \in Sessions : StageOK(session'[o])
    BY <2>1, CloseEffect, StageStep
  <2>3. session[s].pending \subseteq Entry /\ session[s].doc \in Documents
    BY <1>4 DEF TypeInv, Session, StageOK, CommitSession
  <2>4. entries' \subseteq Entry
    BY <1>4, <2>3 DEF CommitSession, TypeInv
  <2>5. etag' \in [Feeds -> MaybeDocument]
    BY <1>4, <2>3 DEF CommitSession, TypeInv, MaybeDocument
  <2>6. swept' \subseteq Feeds \X Guids /\ since' \in [Feeds -> SUBSET Documents]
    BY <1>4, <2>3 DEF CommitSession, TypeInv
  <2>7. UNCHANGED <<lastId, live, sweep, clock, faults>>
    BY <1>4 DEF CommitSession
  <2> QED BY <2>2, <2>4, <2>5, <2>6, <2>7 DEF TypeInv
<1>5. ASSUME NEW s \in Sessions, AbandonSession(s) PROVE TypeInv'
  <2>1. session' = [session EXCEPT ![s] = Closed]
    BY <1>5 DEF AbandonSession
  <2>2. session' \in [Sessions -> Session] /\ \A o \in Sessions : StageOK(session'[o])
    BY <2>1, CloseEffect, StageStep
  <2> QED BY <1>5, <2>2 DEF TypeInv, AbandonSession
<1>6. ASSUME NEW p \in Sweepers, StartSweep(p) PROVE TypeInv'
  <2>1. PICK victims \in SUBSET Ids(entries \ Keep(clock - RetentionDays)) :
          sweep' = [sweep EXCEPT ![p] = [running |-> TRUE, victims |-> victims]]
    BY <1>6 DEF StartSweep
  <2>2. victims \subseteq 1..MaxId
    BY StoreAssumption DEF Ids, RowInv, TypeInv
  <2>3. sweep' \in [Sweepers -> Sweep]
    BY <2>1, <2>2 DEF TypeInv, Sweep
  <2> QED BY <1>6, <2>3 DEF StartSweep, TypeInv
<1>7. ASSUME NEW p \in Sweepers, FinishSweep(p) PROVE TypeInv'
  <2> DEFINE gone == {e \in entries : e.id \in sweep[p].victims}
  <2>1. entries' \subseteq Entry
    BY <1>7 DEF FinishSweep, TypeInv
  <2>2. \A e \in gone : <<e.feed, e.guid>> \in Feeds \X Guids
    BY DEF TypeInv, Entry
  <2>3. swept' \subseteq Feeds \X Guids
    BY <1>7, <2>2 DEF FinishSweep, TypeInv
  <2>4. sweep' \in [Sweepers -> Sweep]
    BY <1>7 DEF FinishSweep, TypeInv, Sweep, Idle
  <2> QED BY <1>7, <2>1, <2>3, <2>4 DEF FinishSweep, TypeInv
<1>8. ASSUME NEW p \in Sweepers, FailSweep(p) PROVE TypeInv'
  <2>1. sweep' \in [Sweepers -> Sweep]
    BY <1>8 DEF FailSweep, TypeInv, Sweep, Idle
  <2>2. faults' \in 0..MaxFaults
    BY <1>8, StoreAssumption DEF FailSweep, TypeInv
  <2> QED BY <1>8, <2>1, <2>2 DEF FailSweep, TypeInv
<1>9. ASSUME NEW f \in Feeds, DeleteFeed(f) PROVE TypeInv'
  <2>1. etag' \in [Feeds -> MaybeDocument]
    BY <1>9 DEF DeleteFeed, TypeInv, MaybeDocument
  <2>2. /\ entries' \subseteq Entry /\ live' \subseteq Feeds
        /\ swept' \subseteq Feeds \X Guids /\ since' \in [Feeds -> SUBSET Documents]
    BY <1>9 DEF DeleteFeed, TypeInv
  <2> QED BY <1>9, <2>1, <2>2 DEF DeleteFeed, TypeInv
<1>10. CASE Tick
  BY <1>10, StoreAssumption DEF Tick, TypeInv
<1>11. CASE UNCHANGED vars
  BY <1>11 DEF vars, TypeInv
<1> QED BY <1>1, <1>2, <1>3, <1>4, <1>5, <1>6, <1>7, <1>8, <1>9, <1>10, <1>11
        DEF Next, SessionStep
-----------------------------------------------------------------------------
(* Locks *)

\* A statement locks a key nobody else holds; sessions give locks back at once.
LEMMA LockStep == TypeInv /\ LockInv /\ [Next]_vars => LockInv'
<1> SUFFICES ASSUME TypeInv, LockInv, [Next]_vars PROVE LockInv'
  OBVIOUS
<1>1. ASSUME NEW s \in Sessions, OthersSame(s), session'[s].touched = {} PROVE LockInv'
  BY <1>1 DEF LockInv, OthersSame
<1>2. ASSUME NEW s \in Sessions, OpenSession(s) \/ Receive(s) PROVE LockInv'
  BY <1>1, <1>2, OpenEffect, ReceiveEffect
<1>3. ASSUME NEW s \in Sessions, CommitSession(s) \/ AbandonSession(s) PROVE LockInv'
  <2>1. session' = [session EXCEPT ![s] = Closed]
    BY <1>3 DEF CommitSession, AbandonSession
  <2>2. OthersSame(s) /\ session'[s].touched = {}
    BY <2>1, CloseEffect, ClosedType
  <2> QED BY <1>1, <2>2
<1>4. ASSUME NEW s \in Sessions, UpsertEntry(s) PROVE LockInv'
  <2>1. /\ OthersSame(s) /\ session'[s].feed = session[s].feed
        /\ session'[s].touched = session[s].touched \cup {NextItem(s).guid}
    BY <1>4, UpsertEffect
  <2>2. \A o \in Sessions \ {s} :
          session[o].feed = session[s].feed => NextItem(s).guid \notin session[o].touched
    BY <1>4 DEF UpsertEntry, KeyLocked, NextItem
  <2>3. ASSUME NEW o \in Sessions \ {s}, session[o].feed = session[s].feed
        PROVE  session'[s].touched \cap session'[o].touched = {}
    BY <2>1, <2>2, <2>3 DEF LockInv, OthersSame
  <2> QED BY <2>1, <2>3 DEF LockInv, OthersSame
<1>5. CASE session' = session
  BY <1>5 DEF LockInv
<1>6. ASSUME NEW p \in Sweepers, StartSweep(p) \/ FinishSweep(p) \/ FailSweep(p)
      PROVE  session' = session
  BY <1>6 DEF StartSweep, FinishSweep, FailSweep
<1>7. ASSUME NEW f \in Feeds, DeleteFeed(f) PROVE session' = session
  BY <1>7 DEF DeleteFeed
<1>8. CASE Tick \/ UNCHANGED vars
  BY <1>5, <1>8 DEF Tick, vars
<1> QED BY <1>2, <1>3, <1>4, <1>5, <1>6, <1>7, <1>8 DEF Next, SessionStep
-----------------------------------------------------------------------------
(* Rows *)

\* Rows that leave the table and sessions that are thrown away harm nothing.
LEMMA RowsShrink ==
  ASSUME RowInv, entries' \subseteq entries, lastId' = lastId,
         \A o \in Sessions : session'[o] = session[o] \/ session'[o].pending = {}
  PROVE  RowInv'
<1>1. IsFiniteSet(entries')
  BY FS_Subset DEF RowInv
<1>2. OneRowPerGuid'
  BY DEF RowInv, OneRowPerGuid
<1>3. \A e \in entries' : e.id \in 1..lastId'
  BY DEF RowInv
<1>4. ASSUME NEW o \in Sessions PROVE PendingOK(o)'
  <2>1. CASE session'[o] = session[o]
    BY <2>1 DEF RowInv, PendingOK
  <2>2. CASE session'[o].pending = {}
    BY <2>2, FS_EmptySet DEF PendingOK
  <2> QED BY <2>1, <2>2
<1>5. \A s, o \in Sessions : s # o =>
        \A r \in session'[s].pending, q \in session'[o].pending : r.id # q.id
  BY DEF RowInv
<1> QED BY <1>1, <1>2, <1>3, <1>4, <1>5 DEF RowInv

\* The row a statement edits is the only one of its key that the session sees,
\* and no other session has a version of it.
LEMMA VisibleRow ==
  ASSUME TypeInv, RowInv, NEW s \in Sessions, UpsertEntry(s),
         NEW row \in Visible(s, NextItem(s).guid)
  PROVE  /\ row.feed = session[s].feed /\ row.guid = NextItem(s).guid
         /\ row.id \in 1..lastId
         /\ \A r \in session[s].pending : r.guid = row.guid \/ r.id = row.id => r = row
         /\ \A e \in entries : SameKey(row, e) \/ row.id = e.id => Version(row, e)
         /\ \A o \in Sessions \ {s} : \A q \in session[o].pending : q.id # row.id
<1> DEFINE guid == NextItem(s).guid
           own == {e \in session[s].pending : e.guid = guid}
<1>0. PendingOK(s)
  BY DEF RowInv
<1>1. CASE row \in own
  <2>1. row \in session[s].pending /\ row.guid = guid
    BY <1>1
  <2>2. \A o \in Sessions \ {s} : \A q \in session[o].pending : q.id # row.id
    BY <2>1 DEF RowInv
  <2> QED BY <2>1, <2>2, <1>0 DEF PendingOK
<1>2. CASE own = {} /\ row \in entries /\ row.feed = session[s].feed /\ row.guid = guid
  <2>1. \A e \in entries : SameKey(row, e) \/ row.id = e.id => Version(row, e)
    BY <1>2 DEF RowInv, OneRowPerGuid, SameKey, Version
  <2>2. ASSUME NEW r \in session[s].pending, r.guid = row.guid \/ r.id = row.id PROVE FALSE
    <3>1. SameKey(r, row)
      BY <1>0, <1>2, <2>2 DEF PendingOK, SameKey, Version
    <3> QED BY <1>2, <3>1 DEF SameKey
  <2>3. ASSUME NEW o \in Sessions \ {s}, NEW q \in session[o].pending, q.id = row.id
        PROVE  FALSE
    <3>1. PendingOK(o)
      BY DEF RowInv
    <3>2. /\ SameKey(q, row) /\ q.feed = session[o].feed /\ q.guid \in session[o].touched
      BY <1>2, <2>3, <3>1 DEF PendingOK, Version
    <3>3. KeyLocked(s, session[s].feed, guid)
      BY <1>2, <3>2 DEF KeyLocked, SameKey
    <3> QED BY <3>3 DEF UpsertEntry, NextItem
  <2>4. row.id \in 1..lastId
    BY <1>2 DEF RowInv
  <2> QED BY <1>2, <2>1, <2>2, <2>3, <2>4
<1> QED BY <1>1, <1>2 DEF Visible

\* One statement keeps the pending rows in order.
LEMMA RowsUpsert ==
  ASSUME TypeInv, RowInv, NEW s \in Sessions, UpsertEntry(s)
  PROVE  RowInv'
<1> DEFINE item == NextItem(s)  old == session[s].pending  new == session'[s].pending
<1>1. /\ OthersSame(s) /\ session'[s].feed = session[s].feed
      /\ session'[s].touched = session[s].touched \cup {item.guid}
      /\ Inserts(s) \/ \E row \in Visible(s, item.guid) : Skips(s, row) \/ Edits(s, row)
  BY UpsertEffect
<1>2. entries' = entries
  BY DEF UpsertEntry
<1>3. lastId' \in {lastId, lastId + 1} /\ lastId \in Nat
  BY <1>1 DEF Inserts, Skips, Edits, TypeInv
<1>4. 1..lastId \subseteq 1..lastId'
  BY <1>3
<1>5. PendingOK(s)
  BY DEF RowInv
\* It is enough to look at the pending rows of s.
<1>6. ASSUME IsFiniteSet(new),
             \A r \in new : /\ r.id \in 1..lastId' /\ r.feed = session[s].feed
                            /\ r.guid \in session'[s].touched,
             \A r, q \in new : r.guid = q.guid \/ r.id = q.id => r = q,
             \A r \in new, e \in entries : SameKey(r, e) \/ r.id = e.id => Version(r, e),
             \A o \in Sessions \ {s} : \A r \in new, q \in session[o].pending : r.id # q.id
      PROVE  RowInv'
  <2>1. PendingOK(s)'
    BY <1>1, <1>2, <1>6 DEF PendingOK
  <2>2. ASSUME NEW o \in Sessions \ {s} PROVE PendingOK(o)'
    <3>1. session'[o] = session[o] /\ PendingOK(o)
      BY <1>1 DEF OthersSame, RowInv
    <3> QED BY <1>2, <1>4, <3>1 DEF PendingOK
  <2>3. ASSUME NEW i \in Sessions, NEW o \in Sessions, i # o,
               NEW r \in session'[i].pending, NEW q \in session'[o].pending
        PROVE  r.id # q.id
    <3>1. CASE i = s
      BY <1>1, <1>6, <2>3, <3>1 DEF OthersSame
    <3>2. CASE o = s
      BY <1>1, <1>6, <2>3, <3>2 DEF OthersSame
    <3>3. CASE i # s /\ o # s
      BY <1>1, <2>3, <3>3 DEF OthersSame, RowInv
    <3> QED BY <3>1, <3>2, <3>3
  <2>4. IsFiniteSet(entries') /\ OneRowPerGuid'
    BY <1>2 DEF RowInv, OneRowPerGuid
  <2>5. \A e \in entries' : e.id \in 1..lastId'
    BY <1>2, <1>4 DEF RowInv
  <2> QED BY <2>1, <2>2, <2>3, <2>4, <2>5 DEF RowInv
<1>7. CASE Inserts(s)
  <2> DEFINE row == Inserted(s, item)
  <2>1. new = old \cup {row} /\ lastId' = lastId + 1 /\ Visible(s, item.guid) = {}
    BY <1>7 DEF Inserts
  <2>2. row.id = lastId + 1 /\ row.feed = session[s].feed /\ row.guid = item.guid
    BY DEF Inserted
  <2> HIDE DEF row
  <2>3. \A r \in old : r.guid # item.guid
    BY <2>1 DEF Visible
  <2>4. old = {} \/ \A r \in old : r.id # row.id
    BY <1>3, <1>5, <2>2 DEF PendingOK
  <2>5. ASSUME NEW e \in entries PROVE ~SameKey(row, e) /\ row.id # e.id
    <3>1. e.id \in 1..lastId
      BY DEF RowInv
    <3>2. ~(e.feed = session[s].feed /\ e.guid = item.guid)
      BY <2>1 DEF Visible
    <3> QED BY <1>3, <2>2, <3>1, <3>2 DEF SameKey
  <2>6. ASSUME NEW o \in Sessions \ {s}, NEW q \in session[o].pending PROVE row.id # q.id
    <3>1. q.id \in 1..lastId
      BY DEF RowInv, PendingOK
    <3> QED BY <1>3, <2>2, <3>1
  <2>7. IsFiniteSet(new)
    BY <1>5, <2>1, FS_AddElement DEF PendingOK
  <2>8. ASSUME NEW r \in new
        PROVE  r.id \in 1..lastId' /\ r.feed = session[s].feed /\ r.guid \in session'[s].touched
    BY <1>1, <1>3, <1>4, <1>5, <2>1, <2>2 DEF PendingOK
  <2>9. ASSUME NEW r \in new, NEW q \in new, r.guid = q.guid \/ r.id = q.id PROVE r = q
    BY <1>5, <2>1, <2>2, <2>3, <2>4, <2>9 DEF PendingOK
  <2>10. ASSUME NEW r \in new, NEW e \in entries, SameKey(r, e) \/ r.id = e.id
         PROVE  Version(r, e)
    BY <1>5, <2>1, <2>5, <2>10 DEF PendingOK
  <2>11. ASSUME NEW o \in Sessions \ {s}, NEW r \in new, NEW q \in session[o].pending
         PROVE  r.id # q.id
    BY <2>1, <2>6 DEF RowInv
  <2> QED BY <1>6, <2>7, <2>8, <2>9, <2>10, <2>11
<1>8. ASSUME NEW row \in Visible(s, item.guid), Skips(s, row) PROVE RowInv'
  <2>1. new = old /\ lastId' = lastId
    BY <1>8 DEF Skips
  <2>2. \A o \in Sessions \ {s} : \A r \in old, q \in session[o].pending : r.id # q.id
    BY DEF RowInv
  <2> QED BY <1>1, <1>5, <1>6, <2>1, <2>2 DEF PendingOK
<1>9. ASSUME NEW row \in Visible(s, item.guid), Edits(s, row) PROVE RowInv'
  <2> DEFINE upd == Updated(s, row, item)
  <2>1. new = (old \ {row}) \cup {upd} /\ lastId' = lastId
    BY <1>9 DEF Edits
  <2>2. row \in Entry
    BY VisibleType
  <2>3. /\ upd.id = row.id /\ upd.feed = row.feed /\ upd.guid = row.guid
        /\ upd.fetched_at = row.fetched_at
    BY <2>2 DEF Updated, Entry
  <2> HIDE DEF upd
  <2>4. /\ row.feed = session[s].feed /\ row.guid = item.guid /\ row.id \in 1..lastId
        /\ \A r \in old : r.guid = row.guid \/ r.id = row.id => r = row
        /\ \A e \in entries : SameKey(row, e) \/ row.id = e.id => Version(row, e)
        /\ \A o \in Sessions \ {s} : \A q \in session[o].pending : q.id # row.id
    BY VisibleRow
  <2>5. IsFiniteSet(new)
    <3>1. IsFiniteSet(old \ {row})
      BY <1>5, FS_RemoveElement DEF PendingOK
    <3> QED BY <2>1, <3>1, FS_AddElement
  <2>6. ASSUME NEW r \in new
        PROVE  r.id \in 1..lastId' /\ r.feed = session[s].feed /\ r.guid \in session'[s].touched
    BY <1>1, <1>5, <2>1, <2>3, <2>4 DEF PendingOK
  <2>7. ASSUME NEW r \in new, NEW q \in new, r.guid = q.guid \/ r.id = q.id PROVE r = q
    BY <1>5, <2>1, <2>3, <2>4, <2>7 DEF PendingOK
  <2>8. ASSUME NEW r \in new, NEW e \in entries, SameKey(r, e) \/ r.id = e.id
        PROVE  Version(r, e)
    <3>1. CASE r = upd
      BY <2>3, <2>4, <2>8, <3>1 DEF SameKey, Version
    <3>2. CASE r \in old
      BY <1>5, <2>8, <3>2 DEF PendingOK
    <3> QED BY <2>1, <3>1, <3>2
  <2>9. ASSUME NEW o \in Sessions \ {s}, NEW r \in new, NEW q \in session[o].pending
        PROVE  r.id # q.id
    BY <2>1, <2>3, <2>4 DEF RowInv
  <2> QED BY <1>6, <2>5, <2>6, <2>7, <2>8, <2>9
<1> QED BY <1>1, <1>7, <1>8, <1>9

\* The commit replaces versions by their successors and adds new rows.
LEMMA RowsCommit ==
  ASSUME TypeInv, LockInv, RowInv, NEW s \in Sessions, CommitSession(s)
  PROVE  RowInv'
<1> DEFINE mine == session[s].pending
           old == {e \in entries : \E p \in mine : p.id = e.id}
<1>1. /\ entries' = (entries \ old) \cup mine /\ lastId' = lastId
      /\ session' = [session EXCEPT ![s] = Closed]
  BY DEF CommitSession
<1>2. OthersSame(s) /\ session'[s].pending = {}
  BY <1>1, CloseEffect, ClosedType
<1>3. PendingOK(s)
  BY DEF RowInv
<1>4. IsFiniteSet(entries')
  <2>1. IsFiniteSet(entries \ old)
    BY FS_Difference DEF RowInv
  <2>2. IsFiniteSet((entries \ old) \cup mine)
    BY <1>3, <2>1, FS_Union DEF PendingOK
  <2> QED BY <1>1, <2>2
<1>5. \A e \in entries' : e.id \in 1..lastId'
  BY <1>1, <1>3 DEF RowInv, PendingOK
<1>6. ASSUME NEW d \in entries', NEW e \in entries', SameKey(d, e) \/ d.id = e.id
      PROVE  d = e
  <2>1. ASSUME NEW r \in mine, NEW k \in entries \ old PROVE ~SameKey(r, k) /\ r.id # k.id
    BY <1>3 DEF PendingOK, Version
  <2>2. CASE d \in mine /\ e \in mine
    BY <1>3, <1>6, <2>2 DEF PendingOK, SameKey
  <2>3. CASE d \in entries /\ e \in entries
    BY <1>6, <2>3 DEF RowInv, OneRowPerGuid, SameKey
  <2>4. CASE d \in mine /\ e \in entries \ old
    BY <1>6, <2>1, <2>4
  <2>5. CASE d \in entries \ old /\ e \in mine
    BY <1>6, <2>1, <2>5 DEF SameKey
  <2> QED BY <1>1, <2>2, <2>3, <2>4, <2>5
<1>7. OneRowPerGuid'
  BY <1>6 DEF OneRowPerGuid, SameKey
<1>8. ASSUME NEW o \in Sessions PROVE PendingOK(o)'
  <2>1. CASE o = s
    BY <1>2, <2>1, FS_EmptySet DEF PendingOK
  <2>2. CASE o # s
    <3>1. session'[o] = session[o] /\ PendingOK(o)
      BY <1>2, <2>2 DEF OthersSame, RowInv
    <3>2. ASSUME NEW r \in session[o].pending, NEW e \in mine
          PROVE  ~SameKey(r, e) /\ r.id # e.id
      <4>1. r.id # e.id
        BY <2>2 DEF RowInv
      <4>2. /\ r.feed = session[o].feed /\ r.guid \in session[o].touched
            /\ e.feed = session[s].feed /\ e.guid \in session[s].touched
        BY <1>3, <3>1 DEF PendingOK
      <4>3. session[s].feed = session[o].feed =>
              session[s].touched \cap session[o].touched = {}
        BY <2>2 DEF LockInv
      <4> QED BY <4>1, <4>2, <4>3 DEF SameKey
    <3>3. ASSUME NEW r \in session'[o].pending, NEW e \in entries',
                 SameKey(r, e) \/ r.id = e.id
          PROVE  Version(r, e)
      <4>1. e \in entries
        BY <1>1, <3>1, <3>2, <3>3
      <4> QED BY <3>1, <3>3, <4>1 DEF PendingOK
    <3> QED BY <1>1, <3>1, <3>3 DEF PendingOK
  <2> QED BY <2>1, <2>2
<1>9. \A i, o \in Sessions : i # o =>
        \A r \in session'[i].pending, q \in session'[o].pending : r.id # q.id
  BY <1>2 DEF RowInv, OthersSame
<1> QED BY <1>4, <1>5, <1>7, <1>8, <1>9 DEF RowInv

\* Sessions, sweeps and deletions keep the rows in order.
LEMMA RowStep == TypeInv /\ LockInv /\ RowInv /\ [Next]_vars => RowInv'
<1> SUFFICES ASSUME TypeInv, LockInv, RowInv, [Next]_vars PROVE RowInv'
  OBVIOUS
<1>1. ASSUME NEW s \in Sessions, OpenSession(s) \/ Receive(s) PROVE RowInv'
  <2>1. OthersSame(s) /\ session'[s].pending = {}
    BY <1>1, OpenEffect, ReceiveEffect
  <2>2. entries' = entries /\ lastId' = lastId
    BY <1>1 DEF OpenSession, Receive
  <2> QED BY <2>1, <2>2, RowsShrink DEF OthersSame
<1>2. ASSUME NEW s \in Sessions, AbandonSession(s) PROVE RowInv'
  <2>1. OthersSame(s) /\ session'[s].pending = {}
    BY <1>2, CloseEffect, ClosedType DEF AbandonSession
  <2>2. entries' = entries /\ lastId' = lastId
    BY <1>2 DEF AbandonSession
  <2> QED BY <2>1, <2>2, RowsShrink DEF OthersSame
<1>3. ASSUME NEW p \in Sweepers, StartSweep(p) \/ FinishSweep(p) \/ FailSweep(p) PROVE RowInv'
  <2>1. entries' \subseteq entries /\ lastId' = lastId /\ session' = session
    BY <1>3 DEF StartSweep, FinishSweep, FailSweep
  <2> QED BY <2>1, RowsShrink
<1>4. ASSUME NEW f \in Feeds, DeleteFeed(f) PROVE RowInv'
  <2>1. entries' \subseteq entries /\ lastId' = lastId /\ session' = session
    BY <1>4 DEF DeleteFeed
  <2> QED BY <2>1, RowsShrink
<1>5. CASE Tick \/ UNCHANGED vars
  <2>1. entries' = entries /\ lastId' = lastId /\ session' = session
    BY <1>5 DEF Tick, vars
  <2> QED BY <2>1, RowsShrink
<1> QED BY <1>1, <1>2, <1>3, <1>4, <1>5, RowsUpsert, RowsCommit DEF Next, SessionStep

\* A row that is there before and after a step keeps its id and its age.
LEMMA AgeStep ==
  ASSUME TypeInv, RowInv, [Next]_vars, NEW d \in entries, NEW e \in entries', SameKey(d, e)
  PROVE  d.id = e.id /\ d.fetched_at = e.fetched_at
<1>1. CASE e \in entries
  BY <1>1 DEF RowInv, OneRowPerGuid, SameKey
<1>2. ASSUME NEW s \in Sessions, CommitSession(s), e \notin entries
      PROVE  d.id = e.id /\ d.fetched_at = e.fetched_at
  <2>1. e \in session[s].pending
    BY <1>2 DEF CommitSession
  <2>2. SameKey(e, d) /\ PendingOK(s)
    BY DEF SameKey, RowInv
  <2> QED BY <2>1, <2>2 DEF PendingOK, Version
<1>3. (\A s \in Sessions : ~CommitSession(s)) => entries' \subseteq entries
  BY DEF Next, SessionStep, OpenSession, Receive, UpsertEntry, AbandonSession,
         StartSweep, FinishSweep, FailSweep, DeleteFeed, Tick, vars
<1> QED BY <1>1, <1>2, <1>3
-----------------------------------------------------------------------------
(* What the ETag vouches for *)

\* The entry is in the table as the ETag's document or a later one has it, or
\* retention took it.
Stored(f, item) ==
  \/ <<f, item.guid>> \in swept
  \/ \E e \in entries, doc \in since[f] :
       /\ e.feed = f /\ e.guid = item.guid
       /\ [guid |-> e.guid, content |-> e.content] \in Range(doc)

FeedBacked(f) ==
  etag[f] # NoDocument => \A item \in Range(Capped(etag[f], FALSE)) : Stored(f, item)

\* The ETag of a feed is not touched by what leaves the feed's rows alone or
\* records that it swept them.
LEMMA BackedStays ==
  ASSUME NEW f, FeedBacked(f), etag'[f] = etag[f], since'[f] = since[f],
         \A k \in swept : k[1] = f => k \in swept',
         etag[f] # NoDocument =>
           \A e \in entries : e.feed = f => e \in entries' \/ <<f, e.guid>> \in swept'
  PROVE  FeedBacked(f)'
<1>1. ASSUME NEW item, Stored(f, item), etag[f] # NoDocument PROVE Stored(f, item)'
  <2>1. CASE <<f, item.guid>> \in swept
    BY <2>1 DEF Stored
  <2>2. ASSUME NEW e \in entries, NEW doc \in since[f], e.feed = f, e.guid = item.guid,
               [guid |-> e.guid, content |-> e.content] \in Range(doc)
        PROVE  Stored(f, item)'
    BY <1>1, <2>2 DEF Stored
  <2> QED BY <1>1, <2>1, <2>2 DEF Stored
<1> QED BY <1>1 DEF FeedBacked

\* A session keeps seeing what it saw as long as the rows it locked stay.
LEMMA HandledStays ==
  ASSUME NEW o \in Sessions, HandledOK(o), session'[o] = session[o],
         \A e \in entries :
           e.feed = session[o].feed /\ e.guid \in session[o].touched => e \in entries'
  PROVE  HandledOK(o)'
<1>1. ASSUME NEW guid \in session[o].touched, Shown(o, guid) PROVE Shown(o, guid)'
  <2>1. PICK e \in Visible(o, guid) :
          [guid |-> e.guid, content |-> e.content] \in Range(session[o].doc)
    BY <1>1 DEF Shown
  <2>2. e \in Visible(o, guid)'
    BY <1>1 DEF Visible
  <2> QED BY <2>1, <2>2 DEF Shown
<1> QED BY <1>1 DEF HandledOK

\* A session that has handled nothing.
LEMMA HandledAtFirst ==
  ASSUME NEW s \in Sessions, session'[s].state # "upserting" \/
         (/\ session'[s].touched = {}
          /\ Range(session'[s].todo) \subseteq Range(session'[s].doc)
          /\ Range(Capped(session'[s].doc, FALSE)) \subseteq Range(session'[s].todo))
  PROVE  HandledOK(s)'
BY DEF HandledOK

\* One statement: the entry handled is seen as the document has it.
LEMMA HandledUpsert ==
  ASSUME TypeInv, RowInv, NEW s \in Sessions, HandledOK(s), UpsertEntry(s)
  PROVE  HandledOK(s)'
<1> DEFINE me == session[s]  item == NextItem(s)
<1>1. /\ item \in Item /\ session'[s].state = "upserting" /\ session'[s].doc = me.doc
      /\ session'[s].feed = me.feed /\ session'[s].todo = Tail(me.todo)
      /\ session'[s].touched = me.touched \cup {item.guid}
      /\ Inserts(s) \/ \E row \in Visible(s, item.guid) : Skips(s, row) \/ Edits(s, row)
  BY UpsertEffect
<1>2. entries' = entries /\ me.state = "upserting" /\ me.todo # <<>>
  BY DEF UpsertEntry
<1>3. me.todo \in Seq(Item)
  BY DEF TypeInv, Session, Item
<1>4. Range(me.todo) = {item} \cup Range(Tail(me.todo))
  BY <1>2, <1>3, HeadAndTail DEF NextItem
<1>5. item = [guid |-> item.guid, content |-> item.content] /\ item \in Range(me.doc)
  BY <1>1, <1>2, <1>4 DEF HandledOK, Item
<1>6. PendingOK(s)
  BY DEF RowInv
<1>7. ASSUME NEW guid \in session'[s].touched PROVE Shown(s, guid)'
  <2>1. CASE Inserts(s)
    <3> DEFINE row == Inserted(s, item)
    <3>1. session'[s].pending = me.pending \cup {row}
      BY <2>1 DEF Inserts
    <3>2. row.guid = item.guid /\ row.content = item.content
      BY DEF Inserted
    <3> HIDE DEF row
    <3>3. CASE guid = item.guid
      <4>1. row \in Visible(s, guid)'
        BY <3>1, <3>2, <3>3 DEF Visible
      <4> QED BY <1>1, <1>5, <3>2, <4>1 DEF Shown
    <3>4. CASE guid # item.guid
      <4>1. Visible(s, guid)' = Visible(s, guid)
        BY <1>1, <1>2, <3>1, <3>2, <3>4 DEF Visible
      <4>2. Shown(s, guid)
        BY <1>1, <1>2, <3>4 DEF HandledOK
      <4> QED BY <1>1, <4>1, <4>2 DEF Shown
    <3> QED BY <3>3, <3>4
  <2>2. ASSUME NEW row \in Visible(s, item.guid), Skips(s, row) PROVE Shown(s, guid)'
    <3>1. session'[s].pending = me.pending /\ row.content = item.content
      BY <2>2 DEF Skips
    <3>2. Visible(s, guid)' = Visible(s, guid)
      BY <1>1, <1>2, <3>1 DEF Visible
    <3>3. CASE guid = item.guid
      <4>1. row.guid = item.guid
        BY VisibleType
      <4> QED BY <1>1, <1>5, <3>1, <3>2, <3>3, <4>1 DEF Shown
    <3>4. CASE guid # item.guid
      <4>1. Shown(s, guid)
        BY <1>1, <1>2, <3>4 DEF HandledOK
      <4> QED BY <1>1, <3>2, <4>1 DEF Shown
    <3> QED BY <3>3, <3>4
  <2>3. ASSUME NEW row \in Visible(s, item.guid), Edits(s, row) PROVE Shown(s, guid)'
    <3> DEFINE upd == Updated(s, row, item)
    <3>1. session'[s].pending = (me.pending \ {row}) \cup {upd}
      BY <2>3 DEF Edits
    <3>2. row \in Entry /\ row.guid = item.guid
      BY VisibleType
    <3>3. upd.guid = item.guid /\ upd.content = item.content
      BY <3>2 DEF Updated, Entry
    <3> HIDE DEF upd
    <3>4. CASE guid = item.guid
      <4>1. upd \in Visible(s, guid)'
        BY <3>1, <3>3, <3>4 DEF Visible
      <4> QED BY <1>1, <1>5, <3>3, <4>1 DEF Shown
    <3>5. CASE guid # item.guid
      <4>1. {e \in session'[s].pending : e.guid = guid} = {e \in me.pending : e.guid = guid}
        BY <3>1, <3>2, <3>3, <3>5
      <4>2. Visible(s, guid)' = Visible(s, guid)
        BY <1>1, <1>2, <4>1 DEF Visible
      <4>3. Shown(s, guid)
        BY <1>1, <1>2, <3>5 DEF HandledOK
      <4> QED BY <1>1, <4>2, <4>3 DEF Shown
    <3> QED BY <3>4, <3>5
  <2> QED BY <1>1, <2>1, <2>2, <2>3
<1>8. Range(session'[s].todo) \subseteq Range(session'[s].doc)
  BY <1>1, <1>2, <1>4 DEF HandledOK
<1>9. \A i \in Range(Capped(session'[s].doc, FALSE)) :
        i.guid \in session'[s].touched \/ i \in Range(session'[s].todo)
  BY <1>1, <1>2, <1>4 DEF HandledOK
<1> QED BY <1>7, <1>8, <1>9 DEF HandledOK

\* mark_fetch_success stores the ETag, if there is one, in the transaction that
\* stores the entries: every entry of the document is a row from then on. If
\* there is none, what the old ETag vouches for is still there or was edited.
LEMMA BackedCommit ==
  ASSUME TypeInv, LockInv, RowInv, BackInv, NEW s \in Sessions, CommitSession(s)
  PROVE  BackInv'
<1> DEFINE me == session[s]
           old == {e \in entries : \E p \in me.pending : p.id = e.id}
           Tagged == /\ etag' = [etag EXCEPT ![me.feed] = me.doc]
                     /\ since' = [since EXCEPT ![me.feed] = {me.doc}]
                     /\ swept' = {k \in swept : k[1] # me.feed}
           Bare == /\ etag' = etag
                   /\ since' = [since EXCEPT ![me.feed] =
                        IF etag[me.feed] = NoDocument THEN {} ELSE @ \cup {me.doc}]
                   /\ swept' = {k \in swept : k[1] # me.feed \/ k[2] \notin me.touched}
<1>1. /\ entries' = (entries \ old) \cup me.pending
      /\ session' = [session EXCEPT ![s] = Closed]
      /\ live' = live /\ me.feed \in live /\ me.state = "upserting" /\ me.todo = <<>>
      /\ Tagged \/ Bare
  BY DEF CommitSession
<1>2. OthersSame(s) /\ session'[s] = Closed
  BY <1>1, CloseEffect
<1>3. PendingOK(s)
  BY DEF RowInv
<1>4. ASSUME NEW e \in old PROVE e.feed = me.feed /\ e.guid \in me.touched
  BY <1>3 DEF PendingOK, Version, SameKey
<1>5. ASSUME NEW guid \in me.touched
      PROVE  \E e \in entries' : /\ e.feed = me.feed /\ e.guid = guid
                                 /\ [guid |-> e.guid, content |-> e.content] \in Range(me.doc)
  <2>1. PICK e \in Visible(s, guid) :
          [guid |-> e.guid, content |-> e.content] \in Range(me.doc)
    BY <1>1 DEF BackInv, HandledOK, Shown
  <2>2. e.feed = me.feed /\ e.guid = guid
    BY <1>3 DEF Visible, PendingOK
  <2>3. e \in entries'
    <3>1. CASE e \in me.pending
      BY <1>1, <3>1
    <3>2. CASE /\ e \in entries /\ e.feed = me.feed /\ e.guid = guid
               /\ {r \in me.pending : r.guid = guid} = {}
      <4>1. e \notin old
        BY <1>3, <3>2 DEF PendingOK, Version, SameKey
      <4> QED BY <1>1, <3>2, <4>1
    <3> QED BY <3>1, <3>2 DEF Visible
  <2> QED BY <2>1, <2>2, <2>3
<1>6. ASSUME NEW f \in live, f # me.feed PROVE FeedBacked(f)'
  <2>1. FeedBacked(f)
    BY DEF BackInv, ETagIsBacked, FeedBacked, Stored
  <2>2. etag'[f] = etag[f] /\ since'[f] = since[f]
    BY <1>1, <1>6 DEF TypeInv
  <2>3. \A e \in entries : e.feed = f => e \in entries'
    BY <1>1, <1>4, <1>6
  <2>4. \A k \in swept : k[1] = f => k \in swept'
    BY <1>1, <1>6
  <2> QED BY <2>1, <2>2, <2>3, <2>4, BackedStays
<1>7. ASSUME NEW f \in live, f = me.feed PROVE FeedBacked(f)'
  <2>0. f \in Feeds
    BY DEF TypeInv
  <2>1. CASE Tagged
    <3>1. etag'[f] = me.doc /\ since'[f] = {me.doc}
      BY <1>7, <2>0, <2>1 DEF TypeInv
    <3>2. ASSUME NEW item \in Range(Capped(me.doc, FALSE)) PROVE Stored(f, item)'
      <4>1. Range(me.todo) = {}
        BY <1>1, EmptySeq, LenProperties DEF Range
      <4>2. item.guid \in me.touched
        BY <1>1, <3>2, <4>1 DEF BackInv, HandledOK
      <4> QED BY <1>5, <1>7, <3>1, <4>2 DEF Stored
    <3> QED BY <3>1, <3>2 DEF FeedBacked
  <2>2. CASE Bare /\ etag[f] # NoDocument
    <3>1. etag'[f] = etag[f] /\ since'[f] = since[f] \cup {me.doc}
      BY <1>7, <2>0, <2>2 DEF TypeInv
    <3>2. ASSUME NEW item, Stored(f, item) PROVE Stored(f, item)'
      <4>1. CASE item.guid \in me.touched
        BY <1>5, <1>7, <3>1, <4>1 DEF Stored
      <4>2. CASE item.guid \notin me.touched /\ <<f, item.guid>> \in swept
        BY <2>2, <4>2 DEF Stored
      <4>3. ASSUME item.guid \notin me.touched, NEW e \in entries, NEW doc \in since[f],
                   e.feed = f, e.guid = item.guid,
                   [guid |-> e.guid, content |-> e.content] \in Range(doc)
            PROVE  Stored(f, item)'
        <5>1. e \in entries' /\ doc \in since'[f]
          BY <1>1, <1>4, <3>1, <4>3
        <5> QED BY <4>3, <5>1 DEF Stored
      <4> QED BY <3>2, <4>1, <4>2, <4>3 DEF Stored
    <3>3. FeedBacked(f)
      BY DEF BackInv, ETagIsBacked, FeedBacked, Stored
    <3> QED BY <2>2, <3>1, <3>2, <3>3 DEF FeedBacked
  <2>3. CASE Bare /\ etag[f] = NoDocument
    BY <2>3 DEF FeedBacked
  <2> QED BY <1>1, <2>1, <2>2, <2>3
<1>8. ETagIsBacked'
  BY <1>1, <1>6, <1>7 DEF ETagIsBacked, FeedBacked, Stored
<1>9. ASSUME NEW o \in Sessions PROVE HandledOK(o)'
  <2>1. CASE o = s
    BY <1>2, <2>1, ClosedType, HandledAtFirst
  <2>2. CASE o # s
    <3>1. session'[o] = session[o] /\ HandledOK(o)
      BY <1>2, <2>2 DEF OthersSame, BackInv
    <3>2. ASSUME NEW e \in entries, e.feed = session[o].feed, e.guid \in session[o].touched
          PROVE  e \in entries'
      <4>1. e \notin old
        BY <1>4, <2>2, <3>2 DEF LockInv
      <4> QED BY <1>1, <4>1
    <3> QED BY <3>1, <3>2, HandledStays
  <2> QED BY <2>1, <2>2
<1> QED BY <1>8, <1>9 DEF BackInv

\* Sessions, sweeps and deletions keep the ETags backed.
LEMMA BackStep == TypeInv /\ LockInv /\ RowInv /\ BackInv /\ [Next]_vars => BackInv'
<1> SUFFICES ASSUME TypeInv, LockInv, RowInv, BackInv, [Next]_vars PROVE BackInv'
  OBVIOUS
<1>0. \A f \in live : FeedBacked(f)
  BY DEF BackInv, ETagIsBacked, FeedBacked, Stored
<1>1. ASSUME UNCHANGED <<entries, live, etag, swept, since>> PROVE ETagIsBacked'
  <2>1. ASSUME NEW f \in live PROVE FeedBacked(f)'
    BY <1>0, <1>1, BackedStays
  <2> QED BY <1>1, <2>1 DEF ETagIsBacked, FeedBacked, Stored
<1>2. ASSUME NEW s \in Sessions, OthersSame(s), HandledOK(s)', entries' = entries
      PROVE  \A o \in Sessions : HandledOK(o)'
  <2>1. ASSUME NEW o \in Sessions \ {s} PROVE HandledOK(o)'
    BY <1>2, HandledStays DEF OthersSame, BackInv
  <2> QED BY <1>2, <2>1
<1>3. ASSUME NEW s \in Sessions, OpenSession(s) \/ Receive(s) PROVE BackInv'
  <2>1. OthersSame(s) /\ HandledOK(s)'
    BY <1>3, OpenEffect, ReceiveEffect, HandledAtFirst
  <2>2. UNCHANGED <<entries, live, etag, swept, since>>
    BY <1>3 DEF OpenSession, Receive
  <2> QED BY <1>1, <1>2, <2>1, <2>2 DEF BackInv
<1>4. ASSUME NEW s \in Sessions, UpsertEntry(s) PROVE BackInv'
  <2>1. OthersSame(s) /\ HandledOK(s)'
    BY <1>4, UpsertEffect, HandledUpsert DEF BackInv
  <2>2. UNCHANGED <<entries, live, etag, swept, since>>
    BY <1>4 DEF UpsertEntry
  <2> QED BY <1>1, <1>2, <2>1, <2>2 DEF BackInv
<1>5. ASSUME NEW s \in Sessions, AbandonSession(s) PROVE BackInv'
  <2>1. OthersSame(s) /\ HandledOK(s)'
    BY <1>5, CloseEffect, ClosedType, HandledAtFirst DEF AbandonSession
  <2>2. UNCHANGED <<entries, live, etag, swept, since>>
    BY <1>5 DEF AbandonSession
  <2> QED BY <1>1, <1>2, <2>1, <2>2 DEF BackInv
<1>6. CASE UNCHANGED <<entries, live, etag, swept, since, session>>
  <2>1. \A o \in Sessions : HandledOK(o)'
    BY <1>6, HandledStays DEF BackInv
  <2> QED BY <1>1, <1>6, <2>1 DEF BackInv
<1>7. ASSUME NEW p \in Sweepers, StartSweep(p) \/ FailSweep(p) PROVE BackInv'
  BY <1>6, <1>7 DEF StartSweep, FailSweep
<1>8. ASSUME NEW p \in Sweepers, FinishSweep(p) PROVE BackInv'
  <2> DEFINE gone == {e \in entries : e.id \in sweep[p].victims}
  <2>1. /\ entries' = entries \ gone
        /\ swept' = swept \cup {<<e.feed, e.guid>> :
                                   e \in {d \in gone : etag[d.feed] # NoDocument}}
        /\ UNCHANGED <<live, etag, session, since>>
        /\ \A e \in gone, s \in Sessions :
             ~(session[s].feed = e.feed /\ e.guid \in session[s].touched)
    BY <1>8 DEF FinishSweep
  <2>2. \A e \in entries :
          etag[e.feed] # NoDocument => e \in entries' \/ <<e.feed, e.guid>> \in swept'
    BY <2>1
  <2>3. ASSUME NEW f \in live PROVE FeedBacked(f)'
    BY <1>0, <2>1, <2>2, BackedStays
  <2>4. ASSUME NEW o \in Sessions PROVE HandledOK(o)'
    <3>1. \A e \in entries :
            e.feed = session[o].feed /\ e.guid \in session[o].touched => e \in entries'
      BY <2>1
    <3> QED BY <2>1, <3>1, HandledStays DEF BackInv
  <2> QED BY <2>1, <2>3, <2>4 DEF BackInv, ETagIsBacked, FeedBacked, Stored
<1>9. ASSUME NEW f \in Feeds, DeleteFeed(f) PROVE BackInv'
  <2>1. /\ entries' = {e \in entries : e.feed # f} /\ live' = live \ {f}
        /\ etag' = [etag EXCEPT ![f] = NoDocument] /\ swept' = {k \in swept : k[1] # f}
        /\ since' = [since EXCEPT ![f] = {}] /\ session' = session
        /\ \A s \in Sessions : session[s].feed = f => session[s].touched = {}
    BY <1>9 DEF DeleteFeed
  <2>2. ASSUME NEW g \in live' PROVE FeedBacked(g)'
    <3>1. g \in live /\ g # f /\ etag'[g] = etag[g] /\ since'[g] = since[g]
      BY <2>1 DEF TypeInv
    <3>2. \A e \in entries : e.feed = g => e \in entries'
      BY <2>1, <3>1
    <3>3. \A k \in swept : k[1] = g => k \in swept'
      BY <2>1, <3>1
    <3> QED BY <1>0, <3>1, <3>2, <3>3, BackedStays
  <2>3. ASSUME NEW o \in Sessions PROVE HandledOK(o)'
    <3>1. \A e \in entries :
            e.feed = session[o].feed /\ e.guid \in session[o].touched => e \in entries'
      BY <2>1
    <3> QED BY <2>1, <3>1, HandledStays DEF BackInv
  <2> QED BY <2>2, <2>3 DEF BackInv, ETagIsBacked, FeedBacked, Stored
<1>10. CASE Tick \/ UNCHANGED vars
  BY <1>6, <1>10 DEF Tick, vars
<1> QED BY <1>3, <1>4, <1>5, <1>7, <1>8, <1>9, <1>10, BackedCommit DEF Next, SessionStep
-----------------------------------------------------------------------------
(* Retention *)

\* The rows of the table E that row_number() counts before e.
Ahead(E, e) == {d \in E : d.feed = e.feed /\ MoreRecent(d, e)}

\* Editing rows and adding rows leaves at least as many ahead.
LEMMA AheadKept ==
  ASSUME NEW E, NEW F, IsFiniteSet(F), NEW e, NEW e2, Version(e2, e),
         \A c, d \in E : c.id = d.id => c = d,
         \A d \in E : d.feed = e.feed => \E c \in F : Version(c, d)
  PROVE  Cardinality(Ahead(E, e)) <= Cardinality(Ahead(F, e2))
<1> DEFINE next == [d \in Ahead(E, e) |-> CHOOSE c \in F : Version(c, d)]
<1>1. ASSUME NEW d \in Ahead(E, e)
      PROVE  next[d] \in Ahead(F, e2) /\ next[d].id = d.id
  <2>1. next[d] \in F /\ Version(next[d], d)
    BY DEF Ahead
  <2> HIDE DEF next
  <2>2. next[d].id = d.id /\ next[d].fetched_at = d.fetched_at /\ next[d].feed = d.feed
    BY <2>1 DEF Version, SameKey
  <2>3. e2.id = e.id /\ e2.fetched_at = e.fetched_at /\ e2.feed = e.feed
    BY DEF Version, SameKey
  <2> QED BY <2>1, <2>2, <2>3 DEF Ahead, MoreRecent
<1>2. next \in [Ahead(E, e) -> Ahead(F, e2)]
  BY <1>1
<1>3. \A c, d \in Ahead(E, e) : next[c] = next[d] => c = d
  <2> SUFFICES ASSUME NEW c \in Ahead(E, e), NEW d \in Ahead(E, e), next[c] = next[d]
               PROVE  c = d
    OBVIOUS
  <2>1. c.id = d.id
    BY <1>1
  <2> QED BY <2>1 DEF Ahead
<1> HIDE DEF next
<1>4. next \in Injection(Ahead(E, e), Ahead(F, e2))
  BY <1>2, <1>3 DEF Injection, IsInjective
<1>5. IsFiniteSet(Ahead(F, e2))
  BY FS_Subset DEF Ahead
<1> QED BY <1>4, <1>5, FS_Injection

\* The most recent row of a set of rows.
LEMMA LatestExists ==
  ASSUME NEW E, IsFiniteSet(E), E \subseteq Entry, NEW G, G \subseteq E, G # {}
  PROVE  \E g \in G : \A h \in G : ~MoreRecent(h, g)
<1> DEFINE Above(g) == {h \in G : MoreRecent(h, g)}
           family == {Above(g) : g \in G}
<1>1. IsWellFoundedOn(StrictSubsetOrdering(E), FiniteSubsetsOf(E))
  BY FS_StrictSubsetOrderingWellFounded
<1>2. family \subseteq FiniteSubsetsOf(E) /\ family # {}
  <2>1. ASSUME NEW g \in G PROVE Above(g) \in FiniteSubsetsOf(E)
    <3>1. Above(g) \in SUBSET E
      OBVIOUS
    <3>2. IsFiniteSet(Above(g))
      BY <3>1, FS_Subset
    <3> QED BY <3>1, <3>2 DEF FiniteSubsetsOf
  <2> QED BY <2>1
<1>3. PICK a \in family : \A b \in family : ~(<<b, a>> \in StrictSubsetOrdering(E))
  BY <1>1, <1>2, WFMin
<1>4. PICK g \in G : a = Above(g)
  BY <1>3
<1>5. ASSUME NEW h \in G, MoreRecent(h, g) PROVE FALSE
  <2>1. \A x, y, z \in Entry : MoreRecent(x, y) /\ MoreRecent(y, z) => MoreRecent(x, z)
    BY DEF MoreRecent, Entry
  <2>2. ~MoreRecent(h, h)
    BY DEF MoreRecent, Entry
  <2>3. Above(h) \subseteq Above(g)
    BY <1>5, <2>1
  <2>4. h \in Above(g) /\ h \notin Above(h)
    BY <1>5, <2>2
  <2>5. <<Above(h), Above(g)>> \in StrictSubsetOrdering(E)
    BY <2>3, <2>4 DEF StrictSubsetOrdering
  <2> QED BY <1>3, <1>4, <2>5
<1> QED BY <1>5

\* Taking rows that all have n rows ahead leaves n rows ahead of whoever had
\* them: the most recent row taken had its n from rows that stay.
LEMMA AheadSwept ==
  ASSUME NEW E, IsFiniteSet(E), E \subseteq Entry, NEW G, G \subseteq E, NEW n \in Nat,
         \A g \in G : n <= Cardinality(Ahead(E, g)),
         NEW e \in E, n <= Cardinality(Ahead(E, e))
  PROVE  n <= Cardinality(Ahead(E \ G, e))
<1> DEFINE taken == G \cap Ahead(E, e)
<1>1. CASE taken = {}
  <2>1. Ahead(E \ G, e) = Ahead(E, e)
    BY <1>1 DEF Ahead
  <2> QED BY <2>1
<1>2. CASE taken # {}
  <2>1. PICK g \in taken : \A h \in taken : ~MoreRecent(h, g)
    BY <1>2, LatestExists
  <2>2. g \in G /\ g \in E /\ g.feed = e.feed /\ MoreRecent(g, e)
    BY <2>1 DEF Ahead
  <2>3. \A x, y, z \in Entry : MoreRecent(x, y) /\ MoreRecent(y, z) => MoreRecent(x, z)
    BY DEF MoreRecent, Entry
  <2>4. ASSUME NEW d \in Ahead(E, g) PROVE d \in Ahead(E \ G, e)
    <3>1. d \in E /\ d.feed = e.feed /\ MoreRecent(d, g)
      BY <2>2 DEF Ahead
    <3>2. MoreRecent(d, e)
      BY <2>2, <2>3, <3>1
    <3>3. d \notin G
      BY <2>1, <3>1, <3>2 DEF Ahead
    <3> QED BY <3>1, <3>2, <3>3 DEF Ahead
  <2>5. IsFiniteSet(Ahead(E \ G, e))
    BY FS_Subset DEF Ahead
  <2>6. /\ IsFiniteSet(Ahead(E, g))
        /\ Cardinality(Ahead(E, g)) <= Cardinality(Ahead(E \ G, e))
    BY <2>4, <2>5, FS_Subset
  <2>7. Cardinality(Ahead(E, g)) \in Nat /\ Cardinality(Ahead(E \ G, e)) \in Nat
    BY <2>5, <2>6, FS_CardinalityType
  <2> QED BY <2>2, <2>6, <2>7
<1> QED BY <1>1, <1>2

\* Outranked counts the rows ahead.
LEMMA OutrankedIsAhead ==
  ASSUME NEW e
  PROVE  Outranked(e) <=> MinPerFeed <= Cardinality(Ahead(entries, e))
BY DEF Outranked, Ahead, MoreRecent

\* The same after a step.
LEMMA OutrankedIsAheadNext ==
  ASSUME NEW e
  PROVE  Outranked(e)' <=> MinPerFeed <= Cardinality(Ahead(entries', e))
BY DEF Outranked, Ahead, MoreRecent

\* An outranked row whose table was edited and extended is outranked still.
LEMMA OutrankedKept ==
  ASSUME RowInv, RowInv', NEW e \in entries, NEW e2, Version(e2, e), Outranked(e),
         \A d \in entries : d.feed = e.feed => \E c \in entries' : Version(c, d)
  PROVE  Outranked(e2)'
<1>1. IsFiniteSet(entries) /\ IsFiniteSet(entries')
  BY DEF RowInv
<1>2. \A c, d \in entries : c.id = d.id => c = d
  BY DEF RowInv, OneRowPerGuid
<1>3. Cardinality(Ahead(entries, e)) <= Cardinality(Ahead(entries', e2))
  BY <1>1, <1>2, AheadKept
<1>4. MinPerFeed <= Cardinality(Ahead(entries, e))
  BY OutrankedIsAhead
<1>5. IsFiniteSet(Ahead(entries, e)) /\ IsFiniteSet(Ahead(entries', e2))
  BY <1>1, FS_Subset DEF Ahead
<1>6. /\ Cardinality(Ahead(entries, e)) \in Nat /\ Cardinality(Ahead(entries', e2)) \in Nat
  BY <1>5, FS_CardinalityType
<1> QED BY <1>3, <1>4, <1>6, OutrankedIsAheadNext, StoreAssumption

\* A commit leaves a version of every row.
LEMMA CommitKeepsRows ==
  ASSUME RowInv, NEW s \in Sessions, CommitSession(s), NEW d \in entries
  PROVE  \E c \in entries' : Version(c, d)
<1> DEFINE old == {e \in entries : \E p \in session[s].pending : p.id = e.id}
<1>1. entries' = (entries \ old) \cup session[s].pending
  BY DEF CommitSession
<1>2. CASE d \notin old
  BY <1>1, <1>2 DEF Version, SameKey
<1>3. CASE d \in old
  <2>1. PICK p \in session[s].pending : p.id = d.id
    BY <1>3
  <2>2. Version(p, d)
    BY <2>1 DEF RowInv, PendingOK
  <2> QED BY <1>1, <2>2
<1> QED BY <1>2, <1>3

\* A row is outside both retention windows.
Expired(e) == Outranked(e) /\ e.fetched_at < clock - RetentionDays

\* The parts of VictimInv for one sweeper.
ChosenOK(p) ==
  /\ sweep[p].victims \subseteq 1..lastId
  /\ ~sweep[p].running => sweep[p].victims = {}

ExpiredOK(p) == \A e \in entries : e.id \in sweep[p].victims => Expired(e)

EditedOK(p) ==
  \A s \in Sessions : \A r \in session[s].pending :
    r.id \in sweep[p].victims => r.id \in Ids(entries)

\* VictimInv, sweeper by sweeper.
LEMMA VictimParts ==
  VictimInv <=> \A p \in Sweepers : ChosenOK(p) /\ ExpiredOK(p) /\ EditedOK(p)
BY DEF VictimInv, ChosenOK, ExpiredOK, EditedOK, Expired

\* The same after a step.
LEMMA VictimPartsNext ==
  VictimInv' <=> \A p \in Sweepers : ChosenOK(p)' /\ ExpiredOK(p)' /\ EditedOK(p)'
BY DEF VictimInv, ChosenOK, ExpiredOK, EditedOK, Expired

\* A sweeper that is idle after the step has chosen nothing.
LEMMA IdleVictims ==
  ASSUME NEW p \in Sweepers, sweep'[p] = Idle
  PROVE  ChosenOK(p)' /\ ExpiredOK(p)' /\ EditedOK(p)'
BY DEF Idle, ChosenOK, ExpiredOK, EditedOK

\* The choice of a sweep stands while nothing but pending rows of sessions go.
LEMMA VictimsQuiet ==
  ASSUME TypeInv, TypeInv', NEW p \in Sweepers, ChosenOK(p), ExpiredOK(p), EditedOK(p),
         entries' = entries, sweep'[p] = sweep[p], lastId' >= lastId, clock' >= clock,
         \A s \in Sessions : \A r \in session'[s].pending :
           r \in session[s].pending \/ r.id > lastId \/ r.id \in Ids(entries)
             \/ \E q \in session[s].pending : q.id = r.id
  PROVE  ChosenOK(p)' /\ ExpiredOK(p)' /\ EditedOK(p)'
<1>0. lastId \in Nat /\ lastId' \in Nat /\ clock \in Int /\ clock' \in Int
  BY DEF TypeInv
<1>1. ChosenOK(p)'
  BY <1>0 DEF ChosenOK
<1>2. ASSUME NEW e \in entries', e.id \in sweep'[p].victims PROVE Expired(e)'
  <2>1. Expired(e) /\ e \in Entry
    BY <1>2 DEF ExpiredOK, TypeInv
  <2>2. Outranked(e)'
    BY <2>1 DEF Expired, Outranked
  <2>3. e.fetched_at < clock' - RetentionDays
    BY <1>0, <2>1, StoreAssumption DEF Expired, Entry
  <2> QED BY <2>2, <2>3 DEF Expired
<1>3. ASSUME NEW s \in Sessions, NEW r \in session'[s].pending, r.id \in sweep'[p].victims
      PROVE  r.id \in Ids(entries)
  <2>1. r.id \in 1..lastId
    BY <1>3 DEF ChosenOK
  <2>2. ~(r.id > lastId)
    BY <1>0, <2>1
  <2> QED BY <1>3, <2>2 DEF EditedOK
<1> QED BY <1>1, <1>2, <1>3 DEF ExpiredOK, EditedOK, Ids

\* A commit: what a sweep has chosen is edited, never rejuvenated.
LEMMA VictimsCommit ==
  ASSUME TypeInv, RowInv, RowInv', VictimInv, NEW s \in Sessions, CommitSession(s)
  PROVE  VictimInv'
<1> DEFINE mine == session[s].pending
           old == {e \in entries : \E p \in mine : p.id = e.id}
<1>1. /\ entries' = (entries \ old) \cup mine /\ UNCHANGED <<lastId, sweep, clock>>
      /\ session' = [session EXCEPT ![s] = Closed]
  BY DEF CommitSession
<1>2. OthersSame(s) /\ session'[s].pending = {}
  BY <1>1, CloseEffect, ClosedType
<1>3. \A d \in entries : \E c \in entries' : Version(c, d)
  BY CommitKeepsRows
<1>4. Ids(entries) \subseteq Ids(entries')
  BY <1>3 DEF Ids, Version
<1>5. ASSUME NEW p \in Sweepers PROVE ChosenOK(p)' /\ ExpiredOK(p)' /\ EditedOK(p)'
  <2>0. ChosenOK(p) /\ ExpiredOK(p) /\ EditedOK(p)
    BY VictimParts
  <2>1. ChosenOK(p)'
    BY <1>1, <2>0 DEF ChosenOK
  <2>2. ASSUME NEW e \in entries', e.id \in sweep'[p].victims PROVE Expired(e)'
    <3>1. PICK d \in entries : Version(e, d)
      <4>1. CASE e \in entries
        BY <4>1 DEF Version, SameKey
      <4>2. CASE e \in mine
        <5>1. PICK d \in entries : d.id = e.id
          BY <1>1, <2>0, <2>2, <4>2 DEF EditedOK, Ids
        <5>2. Version(e, d)
          BY <4>2, <5>1 DEF RowInv, PendingOK
        <5> QED BY <5>2
      <4> QED BY <1>1, <4>1, <4>2
    <3>2. Expired(d)
      BY <1>1, <2>0, <2>2, <3>1 DEF ExpiredOK, Version
    <3>3. Outranked(e)'
      BY <1>3, <3>1, <3>2, OutrankedKept DEF Expired
    <3> QED BY <1>1, <3>1, <3>2, <3>3 DEF Expired, Version
  <2>3. EditedOK(p)'
    BY <1>1, <1>2, <1>4, <2>0 DEF EditedOK, OthersSame
  <2> QED BY <2>1, <2>2, <2>3 DEF ExpiredOK
<1> QED BY <1>5, VictimPartsNext

\* The DELETE takes its snapshot: what it chooses is outside both windows, by
\* row_number() and by the cutoff.
LEMMA VictimsStart ==
  ASSUME TypeInv, RowInv, VictimInv, NEW p \in Sweepers, StartSweep(p)
  PROVE  VictimInv'
<1> DEFINE cutoff == clock - RetentionDays
<1>1. PICK victims \in SUBSET Ids(entries \ Keep(cutoff)) :
        sweep' = [sweep EXCEPT ![p] = [running |-> TRUE, victims |-> victims]]
  BY DEF StartSweep
<1>2. UNCHANGED <<entries, lastId, session, clock>>
  BY DEF StartSweep
<1>3. sweep'[p].victims = victims /\ sweep'[p].running = TRUE
      /\ \A q \in Sweepers \ {p} : sweep'[q] = sweep[q]
  BY <1>1 DEF TypeInv
<1>4. victims \subseteq Ids(entries) /\ victims \subseteq 1..lastId
  BY DEF Ids, RowInv
<1>5. ASSUME NEW e \in entries, e.id \in victims PROVE Expired(e)
  <2>1. PICK d \in entries \ Keep(cutoff) : d.id = e.id
    BY <1>5 DEF Ids
  <2>2. d = e
    BY <2>1 DEF RowInv, OneRowPerGuid
  <2>3. ~(e.fetched_at >= cutoff) /\ ~(RowNumber(e) <= MinPerFeed)
    BY <2>1, <2>2 DEF Keep
  <2>4. e.fetched_at \in Int /\ cutoff \in Int
    BY StoreAssumption DEF TypeInv, Entry
  <2>5. RowNumber(e) = 1 + Cardinality(Ahead(entries, e))
    BY DEF RowNumber, Ahead
  <2>6. IsFiniteSet(Ahead(entries, e))
    BY FS_Subset DEF Ahead, RowInv
  <2>7. Cardinality(Ahead(entries, e)) \in Nat
    BY <2>6, FS_CardinalityType
  <2>8. MinPerFeed <= Cardinality(Ahead(entries, e))
    BY <2>3, <2>5, <2>7, StoreAssumption
  <2> QED BY <2>3, <2>4, <2>8, OutrankedIsAhead DEF Expired
<1>6. ASSUME NEW e, Expired(e) PROVE Expired(e)'
  BY <1>2, <1>6 DEF Expired, Outranked
<1>7. ASSUME NEW q \in Sweepers PROVE ChosenOK(q)' /\ ExpiredOK(q)' /\ EditedOK(q)'
  <2>1. CASE q = p
    <3>1. ChosenOK(q)'
      BY <1>2, <1>3, <1>4, <2>1 DEF ChosenOK
    <3>2. ExpiredOK(q)'
      BY <1>2, <1>3, <1>5, <1>6, <2>1 DEF ExpiredOK
    <3>3. EditedOK(q)'
      BY <1>2, <1>3, <1>4, <2>1 DEF EditedOK
    <3> QED BY <3>1, <3>2, <3>3
  <2>2. CASE q # p
    <3>0. ChosenOK(q) /\ ExpiredOK(q) /\ EditedOK(q) /\ sweep'[q] = sweep[q]
      BY <1>3, <2>2, VictimParts
    <3>1. ChosenOK(q)'
      BY <1>2, <3>0 DEF ChosenOK
    <3>2. ExpiredOK(q)'
      BY <1>2, <1>6, <3>0 DEF ExpiredOK
    <3>3. EditedOK(q)'
      BY <1>2, <3>0 DEF EditedOK
    <3> QED BY <3>1, <3>2, <3>3
  <2> QED BY <2>1, <2>2
<1> QED BY <1>7, VictimPartsNext

\* Another sweep commits: its victims were outranked by rows that stay.
LEMMA VictimsFinish ==
  ASSUME TypeInv, RowInv, VictimInv, NEW p \in Sweepers, FinishSweep(p)
  PROVE  VictimInv'
<1> DEFINE gone == {e \in entries : e.id \in sweep[p].victims}
<1>1. /\ entries' = entries \ gone /\ UNCHANGED <<lastId, session, clock>>
      /\ sweep' = [sweep EXCEPT ![p] = Idle]
      /\ \A e \in gone, s \in Sessions :
           ~(session[s].feed = e.feed /\ e.guid \in session[s].touched)
  BY DEF FinishSweep
<1>2. sweep'[p] = Idle /\ \A q \in Sweepers \ {p} : sweep'[q] = sweep[q]
  BY <1>1 DEF TypeInv
<1>3. \A g \in gone : MinPerFeed <= Cardinality(Ahead(entries, g))
  <2>1. ASSUME NEW g \in gone PROVE Outranked(g)
    BY VictimParts DEF ExpiredOK, Expired
  <2> QED BY <2>1, OutrankedIsAhead
<1>4. ASSUME NEW e \in entries, Outranked(e) PROVE Outranked(e)'
  <2>1. MinPerFeed <= Cardinality(Ahead(entries, e))
    BY <1>4, OutrankedIsAhead
  <2>2. IsFiniteSet(entries) /\ entries \subseteq Entry /\ gone \subseteq entries
    BY DEF RowInv, TypeInv
  <2> HIDE DEF gone
  <2>3. MinPerFeed <= Cardinality(Ahead(entries \ gone, e))
    BY <1>3, <2>1, <2>2, AheadSwept, StoreAssumption
  <2> QED BY <1>1, <2>3, OutrankedIsAheadNext
<1>5. ASSUME NEW q \in Sweepers \ {p} PROVE ChosenOK(q)' /\ ExpiredOK(q)' /\ EditedOK(q)'
  <2>0. ChosenOK(q) /\ ExpiredOK(q) /\ EditedOK(q) /\ sweep'[q] = sweep[q]
    BY <1>2, VictimParts
  <2>1. ChosenOK(q)'
    BY <1>1, <2>0 DEF ChosenOK
  <2>2. ASSUME NEW e \in entries', e.id \in sweep'[q].victims PROVE Expired(e)'
    <3>1. e \in entries /\ Expired(e)
      BY <1>1, <2>0, <2>2 DEF ExpiredOK
    <3> QED BY <1>1, <1>4, <3>1 DEF Expired
  <2>3. ASSUME NEW s \in Sessions, NEW r \in session'[s].pending, r.id \in sweep'[q].victims
        PROVE  r.id \in Ids(entries')
    <3>1. r \in session[s].pending
      BY <1>1
    <3>2. PICK e \in entries : e.id = r.id
      BY <2>0, <2>3, <3>1 DEF EditedOK, Ids
    <3>3. PendingOK(s)
      BY DEF RowInv
    <3>4. /\ e.feed = session[s].feed /\ e.guid \in session[s].touched
      BY <3>1, <3>2, <3>3 DEF PendingOK, Version, SameKey
    <3>5. e \notin gone
      BY <1>1, <3>4
    <3> QED BY <1>1, <3>2, <3>5 DEF Ids
  <2> QED BY <2>1, <2>2, <2>3 DEF ExpiredOK, EditedOK
<1>6. ChosenOK(p)' /\ ExpiredOK(p)' /\ EditedOK(p)'
  BY <1>2, IdleVictims
<1> QED BY <1>5, <1>6, VictimPartsNext

\* The cascade takes whole feeds that no session has written to.
LEMMA VictimsDelete ==
  ASSUME TypeInv, RowInv, RowInv', VictimInv, NEW f \in Feeds, DeleteFeed(f)
  PROVE  VictimInv'
<1>1. /\ entries' = {e \in entries : e.feed # f} /\ UNCHANGED <<lastId, session, clock, sweep>>
      /\ \A s \in Sessions : session[s].feed = f => session[s].touched = {}
  BY DEF DeleteFeed
<1>2. ASSUME NEW p \in Sweepers PROVE ChosenOK(p)' /\ ExpiredOK(p)' /\ EditedOK(p)'
  <2>0. ChosenOK(p) /\ ExpiredOK(p) /\ EditedOK(p)
    BY VictimParts
  <2>1. ChosenOK(p)'
    BY <1>1, <2>0 DEF ChosenOK
  <2>2. ASSUME NEW e \in entries', e.id \in sweep'[p].victims PROVE Expired(e)'
    <3>1. e \in entries /\ e.feed # f /\ Expired(e)
      BY <1>1, <2>0, <2>2 DEF ExpiredOK
    <3>2. \A d \in entries : d.feed = e.feed => d \in entries' /\ Version(d, d)
      BY <1>1, <3>1 DEF Version, SameKey
    <3>3. Outranked(e)'
      BY <3>1, <3>2, OutrankedKept DEF Expired, Version, SameKey
    <3> QED BY <1>1, <3>1, <3>3 DEF Expired
  <2>3. ASSUME NEW s \in Sessions, NEW r \in session'[s].pending, r.id \in sweep'[p].victims
        PROVE  r.id \in Ids(entries')
    <3>1. r \in session[s].pending
      BY <1>1
    <3>2. PICK e \in entries : e.id = r.id
      BY <1>1, <2>0, <2>3, <3>1 DEF EditedOK, Ids
    <3>3. PendingOK(s)
      BY DEF RowInv
    <3>4. /\ e.feed = session[s].feed /\ e.guid \in session[s].touched
      BY <3>1, <3>2, <3>3 DEF PendingOK, Version, SameKey
    <3> QED BY <1>1, <3>2, <3>4 DEF Ids
  <2> QED BY <2>1, <2>2, <2>3 DEF ExpiredOK, EditedOK
<1> QED BY <1>2, VictimPartsNext

\* What a sweep has chosen stays outside both windows.
LEMMA VictimStep ==
  ASSUME TypeInv, TypeInv', RowInv, RowInv', VictimInv, [Next]_vars
  PROVE  VictimInv'
<1> DEFINE Harmless ==
      \A s \in Sessions : \A r \in session'[s].pending :
        r \in session[s].pending \/ r.id > lastId \/ r.id \in Ids(entries)
          \/ \E q \in session[s].pending : q.id = r.id
<1>0. lastId \in Int /\ clock \in Int
  BY DEF TypeInv
<1>1. ASSUME Harmless, UNCHANGED <<entries, sweep>>, lastId' >= lastId, clock' >= clock
      PROVE  VictimInv'
  <2>1. ASSUME NEW p \in Sweepers PROVE ChosenOK(p)' /\ ExpiredOK(p)' /\ EditedOK(p)'
    BY <1>1, VictimParts, VictimsQuiet
  <2> QED BY <2>1, VictimPartsNext
<1>2. ASSUME NEW s \in Sessions, OpenSession(s) \/ Receive(s) PROVE VictimInv'
  <2>1. OthersSame(s) /\ session'[s].pending = {}
    BY <1>2, OpenEffect, ReceiveEffect
  <2>2. UNCHANGED <<entries, lastId, sweep, clock>>
    BY <1>2 DEF OpenSession, Receive
  <2> QED BY <1>0, <1>1, <2>1, <2>2 DEF OthersSame
<1>3. ASSUME NEW s \in Sessions, AbandonSession(s) PROVE VictimInv'
  <2>1. OthersSame(s) /\ session'[s].pending = {}
    BY <1>3, CloseEffect, ClosedType DEF AbandonSession
  <2>2. UNCHANGED <<entries, lastId, sweep, clock>>
    BY <1>3 DEF AbandonSession
  <2> QED BY <1>0, <1>1, <2>1, <2>2 DEF OthersSame
<1>4. ASSUME NEW s \in Sessions, UpsertEntry(s) PROVE VictimInv'
  <2>1. /\ OthersSame(s)
        /\ Inserts(s) \/ \E row \in Visible(s, NextItem(s).guid) : Skips(s, row) \/ Edits(s, row)
    BY <1>4, UpsertEffect
  <2>2. UNCHANGED <<entries, sweep, clock>>
    BY <1>4 DEF UpsertEntry
  <2>3. lastId' >= lastId
    BY <1>0, <2>1 DEF Inserts, Skips, Edits
  <2>4. ASSUME NEW r \in session'[s].pending
        PROVE  r \in session[s].pending \/ r.id > lastId \/ r.id \in Ids(entries)
                 \/ \E q \in session[s].pending : q.id = r.id
    <3>1. CASE Inserts(s)
      BY <1>0, <3>1 DEF Inserts, Inserted
    <3>2. ASSUME NEW row \in Visible(s, NextItem(s).guid), Skips(s, row) \/ Edits(s, row),
                 r \notin session[s].pending
          PROVE  r.id \in Ids(entries) \/ \E q \in session[s].pending : q.id = r.id
      <4>1. row \in Entry
        BY VisibleType
      <4>2. r = Updated(s, row, NextItem(s))
        BY <3>2 DEF Skips, Edits
      <4>3. r.id = row.id
        BY <4>1, <4>2 DEF Updated, Entry
      <4> QED BY <4>3 DEF Visible, Ids
    <3> QED BY <2>1, <3>1, <3>2
  <2>5. Harmless
    BY <2>1, <2>4 DEF OthersSame
  <2> HIDE DEF Harmless
  <2> QED BY <1>0, <1>1, <2>2, <2>3, <2>5
<1>5. ASSUME NEW p \in Sweepers, FailSweep(p) PROVE VictimInv'
  <2>1. /\ UNCHANGED <<entries, lastId, session, clock>> /\ sweep'[p] = Idle
        /\ \A q \in Sweepers \ {p} : sweep'[q] = sweep[q]
    BY <1>5 DEF FailSweep, TypeInv
  <2>2. ASSUME NEW q \in Sweepers \ {p} PROVE ChosenOK(q)' /\ ExpiredOK(q)' /\ EditedOK(q)'
    BY <1>0, <2>1, VictimParts, VictimsQuiet
  <2>3. ChosenOK(p)' /\ ExpiredOK(p)' /\ EditedOK(p)'
    BY <2>1, IdleVictims
  <2> QED BY <2>2, <2>3, VictimPartsNext
<1>6. CASE Tick \/ UNCHANGED vars
  <2>1. UNCHANGED <<entries, lastId, session, sweep>> /\ clock' >= clock
    BY <1>0, <1>6 DEF Tick, vars
  <2> QED BY <1>0, <1>1, <2>1
<1> QED BY <1>2, <1>3, <1>4, <1>5, <1>6, VictimsCommit, VictimsStart, VictimsFinish,
           VictimsDelete DEF Next, SessionStep

\* What leaves the table while its feed stays was outside both windows.
LEMMA SurvivalStep ==
  ASSUME TypeInv, RowInv, VictimInv, [Next]_vars,
         NEW e \in entries, e.feed \in live', e.id \notin Ids(entries')
  PROVE  Expired(e)
<1>1. e \notin entries'
  BY DEF Ids
<1>2. ASSUME NEW s \in Sessions, CommitSession(s) PROVE FALSE
  <2>1. PICK c \in entries' : Version(c, e)
    BY <1>2, CommitKeepsRows
  <2> QED BY <2>1 DEF Version, Ids
<1>3. ASSUME NEW p \in Sweepers, FinishSweep(p) PROVE Expired(e)
  <2>1. e.id \in sweep[p].victims
    BY <1>1, <1>3 DEF FinishSweep
  <2> QED BY <2>1, VictimParts DEF ExpiredOK
<1>4. ASSUME NEW f \in Feeds, DeleteFeed(f) PROVE FALSE
  BY <1>1, <1>4 DEF DeleteFeed
<1>5. \/ \E s \in Sessions : CommitSession(s)
      \/ \E p \in Sweepers : FinishSweep(p)
      \/ \E f \in Feeds : DeleteFeed(f)
      \/ entries' = entries
  BY DEF Next, SessionStep, OpenSession, Receive, UpsertEntry, AbandonSession,
         StartSweep, FailSweep, Tick, vars
<1> QED BY <1>1, <1>2, <1>3, <1>4, <1>5
-----------------------------------------------------------------------------
(* The theorems *)

\* An empty table satisfies the invariant.
LEMMA StoreInit == Init => StoreInv
<1> SUFFICES ASSUME Init PROVE StoreInv
  OBVIOUS
<1>1. TypeInv
  BY TypeInit
<1>2. \A s \in Sessions : session[s] = Closed
  BY DEF Init
<1>3. \A s \in Sessions : /\ session[s].touched = {} /\ session[s].pending = {}
                          /\ session[s].state = "closed"
  BY <1>2, ClosedType
<1>4. LockInv
  BY <1>3 DEF LockInv
<1>5. RowInv
  BY <1>3, FS_EmptySet DEF Init, RowInv, PendingOK, OneRowPerGuid
<1>6. BackInv
  BY <1>3 DEF Init, BackInv, ETagIsBacked, HandledOK
<1>7. VictimInv
  BY <1>3 DEF Init, VictimInv, Idle
<1> QED BY <1>1, <1>4, <1>5, <1>6, <1>7 DEF StoreInv

\* The invariant is inductive.
LEMMA StoreStep == StoreInv /\ [Next]_vars => StoreInv'
<1> SUFFICES ASSUME StoreInv, [Next]_vars PROVE StoreInv'
  OBVIOUS
<1>1. TypeInv /\ LockInv /\ RowInv /\ BackInv /\ VictimInv
  BY DEF StoreInv
<1>2. TypeInv'
  BY <1>1, TypeStep
<1>3. LockInv' /\ RowInv' /\ BackInv'
  BY <1>1, LockStep, RowStep, BackStep
<1>4. VictimInv'
  BY <1>1, <1>2, <1>3, VictimStep
<1> QED BY <1>2, <1>3, <1>4 DEF StoreInv

\* models.Entry, upsert_entries, retention.sweep: rows, locks and victims stay
\* what they are declared to be.
THEOREM StoreTyped == Spec => []TypeOK
<1>1. StoreInv => TypeOK
  <2> SUFFICES ASSUME StoreInv PROVE TypeOK
    OBVIOUS
  <2>1. \A s \in Sessions :
          /\ session[s].state \in {"closed", "requesting", "upserting"}
          /\ session[s].pending \subseteq Entry /\ session[s].touched \subseteq Guids
    BY DEF StoreInv, TypeInv, Session
  <2>2. DOMAIN sweep = Sweepers /\ \A p \in Sweepers : sweep[p].victims \subseteq 1..MaxId
    BY DEF StoreInv, TypeInv, Sweep
  <2>3. DOMAIN etag = Feeds /\ \A f \in Feeds : etag[f] \in Documents \cup {NoDocument}
    BY DEF StoreInv, TypeInv, MaybeDocument
  <2>4. DOMAIN session = Sessions
    BY DEF StoreInv, TypeInv
  <2> QED BY <2>1, <2>2, <2>3, <2>4 DEF StoreInv, TypeInv, TypeOK
<1> QED BY <1>1, StoreInit, StoreStep, PTL DEF Spec

\* uq_entries_feed_guid, upsert_entries: a guid of a feed names one row, however
\* many sessions insert it and sweeps take it at the same time.
THEOREM GuidsStayUnique == Spec => []OneRowPerGuid
<1>1. StoreInv => OneRowPerGuid
  BY DEF StoreInv, RowInv
<1> QED BY <1>1, StoreInit, StoreStep, PTL DEF Spec

\* upsert_entries: neither an edit nor a second session moves the age retention
\* goes by, or gives the guid another id.
THEOREM AgeNeverMoves == Spec => AgeIsKept
<1>1. StoreInv /\ [Next]_vars =>
        [\A d \in entries, e \in entries' :
           d.feed = e.feed /\ d.guid = e.guid => d.id = e.id /\ d.fetched_at = e.fetched_at]_vars
  BY AgeStep DEF StoreInv, SameKey
<1> QED BY <1>1, StoreInit, StoreStep, PTL DEF Spec, AgeIsKept

\* fetch_one, mark_fetch_success: an ETag is stored only over the entries it
\* stands for and survives only over these or later versions of them, so a 304
\* never hides an entry that is not there.
THEOREM ETagsStayBacked == Spec => []ETagIsBacked
<1>1. StoreInv => ETagIsBacked
  BY DEF StoreInv, BackInv
<1> QED BY <1>1, StoreInit, StoreStep, PTL DEF Spec

\* retention.sweep: sweeps that decide on old snapshots, several at once, never
\* take one of the MinPerFeed most recent entries of a feed.
THEOREM MostRecentAreKept == Spec => MostRecentSurvive
<1>1. StoreInv /\ [Next]_vars =>
        [\A e \in entries : e.feed \in live' /\ ~Outranked(e) => e.id \in Ids(entries')]_vars
  BY SurvivalStep DEF StoreInv, Expired
<1> QED BY <1>1, StoreInit, StoreStep, PTL DEF Spec, MostRecentSurvive

\* retention.sweep: nor an entry that is inside the time window.
THEOREM WindowIsKept == Spec => WindowSurvives
<1>1. StoreInv /\ [Next]_vars =>
        [\A e \in entries : e.feed \in live' /\ e.fetched_at >= clock - RetentionDays
           => e.id \in Ids(entries')]_vars
  <2> SUFFICES ASSUME StoreInv, [Next]_vars, NEW e \in entries, e.feed \in live',
                      e.fetched_at >= clock - RetentionDays, e.id \notin Ids(entries')
               PROVE  FALSE
    OBVIOUS
  <2>1. e.fetched_at < clock - RetentionDays
    BY SurvivalStep DEF StoreInv, Expired
  <2>2. e.fetched_at \in Int /\ clock - RetentionDays \in Int
    BY StoreAssumption DEF StoreInv, TypeInv, Entry
  <2> QED BY <2>1, <2>2
<1> QED BY <1>1, StoreInit, StoreStep, PTL DEF Spec, WindowSurvives
=============================================================================
