-------------------------- MODULE PaginationProofs --------------------------
(***************************************************************************)
(* A walk over either list, for tables of any size, any page size and any   *)
(* changes between two requests: it is ordered, and it returns every row     *)
(* nobody touched exactly once.                                             *)
(*                                                                         *)
(* The WHERE of the cursor and the ORDER BY of the query are written down    *)
(* separately in the code, NULLs included; the walk works because they are   *)
(* the same order (AfterIsOrder).  WalkInv then says that the cursor is the  *)
(* last row received (CursorInv), that what was received is in the table     *)
(* still or was disturbed (SeenInv), and that what is owed and not received  *)
(* lies after the cursor (CoverInv).                                        *)
(***************************************************************************)
EXTENDS Pagination, FiniteSetTheorems, SequenceTheorems, TLAPS

Cursor == [p : Times \cup {Null}, i : 0..MaxRows]

UniqueIds(rows) == \A r, s \in rows : r.id = s.id => r = s

TypeInv ==
  /\ endpoint \in {"entries", "feeds"}
  /\ table \subseteq Row /\ IsFiniteSet(table) /\ UniqueIds(table)
  /\ lastId \in 0..MaxRows /\ \A r \in table : r.id <= lastId
  /\ limit \in 1..MaxLimit
  /\ cursor \in Cursor
  /\ walk \in {"first", "more", "done"}
  /\ items \in Seq(Row)
  /\ disturbed \subseteq 1..MaxRows
  /\ changes \in 0..MaxChanges

CursorInv ==
  /\ walk = "first" => items = <<>>
  /\ walk = "more" => items # <<>> /\ cursor = CursorOf(items[Len(items)])

SeenInv == \A n \in 1..Len(items) : items[n].id \in disturbed \/ items[n] \in table

CoverInv == \A r \in Steady : r \in ToSet(items) \/ (walk # "done" /\ After(r))

WalkInv == TypeInv /\ CursorInv /\ SeenInv /\ CoverInv /\ WalkIsOrdered
-----------------------------------------------------------------------------
(* The order of a list *)

\* The columns the orders compare are numbers, NULL included.
LEMMA RowNumbers ==
  ASSUME NEW r \in Row
  PROVE  r.id \in Int /\ r.published_at \in Int
<1>1. r.id \in 1..MaxRows /\ r.published_at \in Times \cup {Null}
  BY DEF Row
<1>2. Null \in Int
  BY DEF Null
<1>3. Times \subseteq Int
  BY PagesAssumption
<1>4. 1..MaxRows \subseteq Int
  OBVIOUS
<1> QED BY <1>1, <1>2, <1>3, <1>4

\* ORDER BY is a strict order, and total on rows with different ids.
LEMMA StrictOrder ==
  /\ \A r \in Row : ~Precedes(r, r)
  /\ \A r, s, t \in Row : Precedes(r, s) /\ Precedes(s, t) => Precedes(r, t)
  /\ \A r, s \in Row : r.id # s.id => Precedes(r, s) \/ Precedes(s, r)
<1>1. \A r \in Row : r.id \in Int /\ r.published_at \in Int
  BY RowNumbers
<1>2. CASE endpoint = "entries"
  <2>1. \A r, s : Precedes(r, s) <=> EntryPrecedes(r, s)
    BY <1>2 DEF Precedes
  <2>2. ASSUME NEW r \in Row PROVE ~EntryPrecedes(r, r)
    BY <1>1 DEF EntryPrecedes
  <2>3. ASSUME NEW r \in Row, NEW s \in Row, NEW t \in Row,
               EntryPrecedes(r, s), EntryPrecedes(s, t)
        PROVE  EntryPrecedes(r, t)
    BY <1>1, <2>3 DEF EntryPrecedes
  <2>4. ASSUME NEW r \in Row, NEW s \in Row, r.id # s.id
        PROVE  EntryPrecedes(r, s) \/ EntryPrecedes(s, r)
    BY <1>1, <2>4 DEF EntryPrecedes
  <2> QED BY <2>1, <2>2, <2>3, <2>4
<1>3. CASE endpoint # "entries"
  BY <1>1, <1>3 DEF Precedes, FeedPrecedes
<1> QED BY <1>2, <1>3

\* The WHERE of a cursor selects what the ORDER BY puts after the cursor's row.
LEMMA AfterIsOrder ==
  ASSUME NEW last \in Row, NEW r \in Row, walk = "more", cursor = CursorOf(last)
  PROVE  After(r) <=> Precedes(last, r)
<1>1. /\ last.id \in Int /\ last.published_at \in Int /\ r.id \in Int
      /\ r.published_at \in Int
  BY RowNumbers
<1>2. cursor.p = last.published_at /\ cursor.i = last.id
  BY DEF CursorOf
<1>3. CASE endpoint = "entries"
  <2>1. (After(r) <=> EntryAfter(r)) /\ (Precedes(last, r) <=> EntryPrecedes(last, r))
    BY <1>3 DEF After, Precedes
  <2>2. CASE last.published_at = Null
    BY <1>1, <1>2, <2>1, <2>2 DEF EntryAfter, EntryPrecedes
  <2>3. CASE last.published_at # Null
    BY <1>1, <1>2, <2>1, <2>3 DEF EntryAfter, EntryPrecedes
  <2> QED BY <2>2, <2>3
<1>4. CASE endpoint # "entries"
  BY <1>1, <1>2, <1>4 DEF After, Precedes, FeedAfter, FeedPrecedes
<1> QED BY <1>3, <1>4

\* The same after a step.
LEMMA AfterIsOrderNext ==
  ASSUME NEW last \in Row, NEW r \in Row, walk' = "more", cursor' = CursorOf(last)
  PROVE  After(r)' <=> Precedes(last, r)'
<1>1. /\ last.id \in Int /\ last.published_at \in Int /\ r.id \in Int
      /\ r.published_at \in Int
  BY RowNumbers
<1>2. cursor'.p = last.published_at /\ cursor'.i = last.id
  BY DEF CursorOf
<1>3. CASE endpoint' = "entries"
  <2>1. (After(r)' <=> EntryAfter(r)') /\ (Precedes(last, r)' <=> EntryPrecedes(last, r))
    BY <1>3 DEF After, Precedes
  <2>2. CASE last.published_at = Null
    BY <1>1, <1>2, <2>1, <2>2 DEF EntryAfter, EntryPrecedes
  <2>3. CASE last.published_at # Null
    BY <1>1, <1>2, <2>1, <2>3 DEF EntryAfter, EntryPrecedes
  <2> QED BY <2>2, <2>3
<1>4. CASE endpoint' # "entries"
  BY <1>1, <1>2, <1>4 DEF After, Precedes, FeedAfter, FeedPrecedes
<1> QED BY <1>3, <1>4

\* Ranks are positions: they follow the order and none is missing.
LEMMA Ranks ==
  ASSUME NEW rows, rows \subseteq Row, IsFiniteSet(rows), UniqueIds(rows)
  PROVE  /\ Cardinality(rows) \in Nat
         /\ \A r \in rows : Rank(rows, r) \in 0..(Cardinality(rows) - 1)
         /\ \A d, r \in rows : Precedes(d, r) <=> Rank(rows, d) < Rank(rows, r)
         /\ \A k \in 0..(Cardinality(rows) - 1) : \E r \in rows : Rank(rows, r) = k
<1> DEFINE Before(r) == {d \in rows : Precedes(d, r)}
<1>0. Cardinality(rows) \in Nat
  BY FS_CardinalityType
<1>1. ASSUME NEW r \in rows
      PROVE  /\ IsFiniteSet(Before(r)) /\ Rank(rows, r) = Cardinality(Before(r))
             /\ Rank(rows, r) \in 0..(Cardinality(rows) - 1)
  <2>1. Before(r) \in SUBSET rows /\ r \notin Before(r)
    BY StrictOrder
  <2>2. /\ IsFiniteSet(Before(r)) /\ Cardinality(Before(r)) <= Cardinality(rows)
        /\ Cardinality(rows) = Cardinality(Before(r)) => rows = Before(r)
    BY <2>1, FS_Subset
  <2>3. Cardinality(Before(r)) \in Nat
    BY <2>2, FS_CardinalityType
  <2>4. Rank(rows, r) = Cardinality(Before(r))
    BY DEF Rank
  <2> HIDE DEF Before
  <2> QED BY <1>0, <2>1, <2>2, <2>3, <2>4
<1>2. \A r \in rows : Rank(rows, r) \in Int
  <2> HIDE DEF Before
  <2>1. ASSUME NEW r \in rows PROVE Rank(rows, r) \in 0..(Cardinality(rows) - 1)
    BY <1>1
  <2> QED BY <1>0, <2>1
<1>3. ASSUME NEW d \in rows, NEW r \in rows, Precedes(d, r)
      PROVE  Rank(rows, d) < Rank(rows, r)
  <2>1. Before(d) \subseteq Before(r)
    BY <1>3, StrictOrder
  <2>2. d \in Before(r) /\ d \notin Before(d)
    BY <1>3, StrictOrder
  <2>3. IsFiniteSet(Before(r)) /\ IsFiniteSet(Before(d))
    BY <1>1
  <2> HIDE DEF Before
  <2>4. /\ Cardinality(Before(d)) <= Cardinality(Before(r))
        /\ Cardinality(Before(r)) # Cardinality(Before(d))
    BY <2>1, <2>2, <2>3, FS_Subset
  <2>5. Rank(rows, d) \in Int /\ Rank(rows, r) \in Int
    BY <1>2
  <2> QED BY <1>1, <2>4, <2>5
<1>4. ASSUME NEW d \in rows, NEW r \in rows, Rank(rows, d) < Rank(rows, r)
      PROVE  Precedes(d, r)
  <2>1. Rank(rows, d) \in Int /\ Rank(rows, r) \in Int
    BY <1>2
  <2>2. d # r /\ ~Precedes(r, d)
    BY <1>3, <1>4, <2>1
  <2>3. d.id # r.id
    BY <2>2 DEF UniqueIds
  <2> QED BY <2>2, <2>3, StrictOrder
<1>5. ASSUME NEW k \in 0..(Cardinality(rows) - 1) PROVE \E r \in rows : Rank(rows, r) = k
  <2> DEFINE T == 0..(Cardinality(rows) - 1)
             rank == [r \in rows |-> Rank(rows, r)]
  <2>1. rank \in [rows -> T]
    BY <1>1
  <2>2. \A d, r \in rows : rank[d] = rank[r] => d = r
    <3> SUFFICES ASSUME NEW d \in rows, NEW r \in rows, Rank(rows, d) = Rank(rows, r), d # r
                 PROVE  FALSE
      OBVIOUS
    <3>0. d.id # r.id
      BY DEF UniqueIds
    <3>1. Precedes(d, r) \/ Precedes(r, d)
      BY <3>0, StrictOrder
    <3>2. Rank(rows, d) \in Int /\ Rank(rows, r) \in Int
      BY <1>2
    <3> QED BY <1>3, <3>1, <3>2
  <2> HIDE DEF rank
  <2>3. rank \in Injection(rows, T)
    BY <2>1, <2>2 DEF Injection, IsInjective
  <2>4. IsFiniteSet(T) /\ Cardinality(T) = Cardinality(rows)
    BY <1>0, FS_Interval
  <2>5. rank \in Surjection(rows, T)
    BY <2>3, <2>4, FS_Injection
  <2>6. \E r \in rows : rank[r] = k
    BY <2>5 DEF Surjection
  <2> QED BY <2>6 DEF rank
<1> QED BY <1>0, <1>1, <1>3, <1>4, <1>5
-----------------------------------------------------------------------------
(* One page *)

\* The rows the request selects from.
Wanted == {r \in table : r.matches /\ After(r)}

\* The smaller of two numbers.
LEMMA MinOfTwo ==
  ASSUME NEW a \in Int, NEW b \in Int
  PROVE  Min({a, b}) = IF a <= b THEN a ELSE b
<1> DEFINE m == IF a <= b THEN a ELSE b
<1>1. m \in {a, b} /\ \A y \in {a, b} : m <= y
  OBVIOUS
<1>2. \A x \in {a, b} : (\A y \in {a, b} : x <= y) => x = m
  OBVIOUS
<1> QED BY <1>1, <1>2 DEF Min

\* The rows wanted are rows.
LEMMA WantedType ==
  ASSUME TypeInv
  PROVE  Wanted \subseteq Row /\ IsFiniteSet(Wanted) /\ UniqueIds(Wanted)
<1>1. Wanted \in SUBSET table
  BY DEF Wanted
<1> QED BY <1>1, FS_Subset DEF TypeInv, UniqueIds

\* The query returns the first limit + 1 rows wanted, in order.
LEMMA SelectedIs ==
  ASSUME TypeInv
  PROVE  /\ Cardinality(Wanted) \in Nat /\ limit \in Nat \ {0}
         /\ Selected \in Seq(Wanted)
         /\ Len(Selected) = IF limit + 1 <= Cardinality(Wanted) THEN limit + 1
                            ELSE Cardinality(Wanted)
         /\ \A n \in 1..Len(Selected) : Rank(Wanted, Selected[n]) = n - 1
<1> DEFINE c == Cardinality(Wanted)
           size == IF limit + 1 <= c THEN limit + 1 ELSE c
           Row_(n) == CHOOSE r \in Wanted : Rank(Wanted, r) = n - 1
<1>1. c \in Nat /\ \A k \in 0..(c - 1) : \E r \in Wanted : Rank(Wanted, r) = k
  BY WantedType, Ranks
<1>2. limit \in Nat \ {0}
  BY PagesAssumption DEF TypeInv
<1>3. size \in Nat /\ size <= c /\ Min({limit + 1, c}) = size
  BY <1>1, <1>2, MinOfTwo
<1>4. Selected = [n \in 1..size |-> Row_(n)]
  BY <1>3 DEF Selected, Wanted
<1>5. ASSUME NEW n \in 1..size PROVE Row_(n) \in Wanted /\ Rank(Wanted, Row_(n)) = n - 1
  <2>1. n - 1 \in 0..(c - 1)
    BY <1>1, <1>3
  <2> QED BY <1>1, <2>1
<1> HIDE DEF Row_
<1>6. Selected \in [1..size -> Wanted]
  BY <1>4, <1>5
<1>7. Selected \in Seq(Wanted)
  BY <1>3, <1>6
<1>8. Len(Selected) = size
  BY <1>3, <1>6, <1>7, LenProperties
<1> QED BY <1>1, <1>2, <1>4, <1>5, <1>7, <1>8

HasMore == Len(Selected) > limit

Page == SubSeq(Selected, 1, Min({limit, Len(Selected)}))

\* The answer: what of the rows wanted is not on the page comes after its end,
\* and the page ends the walk when nothing does.
LEMMA PageIs ==
  ASSUME TypeInv
  PROVE  /\ Page \in Seq(Wanted) /\ Len(Page) \in Nat
         /\ \A m, n \in 1..Len(Page) : m < n => Precedes(Page[m], Page[n])
         /\ HasMore => Len(Page) > 0
         /\ \A r \in Wanted : r \in ToSet(Page) \/ (HasMore /\ Precedes(Page[Len(Page)], r))
<1> DEFINE c == Cardinality(Wanted)  sel == Selected
           size == IF limit <= Len(sel) THEN limit ELSE Len(sel)
<1>1. /\ c \in Nat /\ limit \in Nat \ {0} /\ sel \in Seq(Wanted)
      /\ Len(sel) = IF limit + 1 <= c THEN limit + 1 ELSE c
      /\ \A n \in 1..Len(sel) : Rank(Wanted, sel[n]) = n - 1
  BY SelectedIs
<1>2. Len(sel) \in Nat /\ size \in Nat /\ size <= Len(sel) /\ Min({limit, Len(sel)}) = size
  BY <1>1, MinOfTwo
<1>3. HasMore <=> limit + 1 <= c
  BY <1>1 DEF HasMore
<1>4. size = (IF HasMore THEN limit ELSE c)
  BY <1>1, <1>3
<1>5. Page = SubSeq(sel, 1, size)
  BY <1>2 DEF Page
<1> HIDE DEF sel, size, c
<1>6. \A n \in 1..size : sel[n] \in Wanted
  BY <1>1, <1>2, ElementOfSeq
<1>7. /\ Page \in Seq(Wanted) /\ Len(Page) = size
      /\ \A n \in 1..size : Page[n] = sel[n]
  <2>1. /\ SubSeq(sel, 1, size) \in Seq(Wanted)
        /\ Len(SubSeq(sel, 1, size)) = IF 1 <= size THEN size - 1 + 1 ELSE 0
        /\ \A i \in 1..(size - 1 + 1) : SubSeq(sel, 1, size)[i] = sel[1 + i - 1]
    BY <1>2, <1>6, SubSeqProperties
  <2> QED BY <1>2, <1>5, <2>1
<1>8. \A n \in 1..size : Page[n] \in Wanted /\ Rank(Wanted, Page[n]) = n - 1
  BY <1>1, <1>2, <1>6, <1>7
<1>9. /\ \A r \in Wanted : Rank(Wanted, r) \in 0..(c - 1)
      /\ \A d, r \in Wanted : Precedes(d, r) <=> Rank(Wanted, d) < Rank(Wanted, r)
  BY WantedType, Ranks DEF c
<1>10. ASSUME NEW m \in 1..Len(Page), NEW n \in 1..Len(Page), m < n
       PROVE  Precedes(Page[m], Page[n])
  BY <1>2, <1>7, <1>8, <1>9, <1>10
<1>11. ASSUME NEW r \in Wanted
       PROVE  r \in ToSet(Page) \/ (HasMore /\ Precedes(Page[Len(Page)], r))
  <2> DEFINE k == Rank(Wanted, r)
  <2>1. k \in 0..(c - 1)
    BY <1>9
  <2>2. CASE k < size
    <3>1. k + 1 \in 1..size
      BY <1>2, <2>1, <2>2
    <3>2. Page[k + 1] \in Wanted /\ Rank(Wanted, Page[k + 1]) = k
      BY <1>8, <3>1, <2>1
    <3>3. Page[k + 1] = r
      <4>1. ~Precedes(Page[k + 1], r) /\ ~Precedes(r, Page[k + 1])
        BY <1>9, <2>1, <3>2
      <4> QED BY <3>2, <4>1, StrictOrder, WantedType DEF UniqueIds
    <3>4. DOMAIN Page = 1..size
      BY <1>7, LenProperties
    <3> QED BY <3>1, <3>3, <3>4 DEF ToSet
  <2>3. CASE ~(k < size)
    <3>1. HasMore /\ size = limit
      BY <1>1, <1>4, <2>1, <2>3
    <3>2. size \in 1..size
      BY <1>1, <3>1
    <3>3. Page[size] \in Wanted /\ Rank(Wanted, Page[size]) = size - 1
      BY <1>8, <3>2
    <3>4. Precedes(Page[size], r)
      BY <1>2, <1>9, <2>1, <2>3, <3>3
    <3> QED BY <1>7, <3>1, <3>4
  <2> QED BY <2>2, <2>3
<1>12. HasMore => Len(Page) > 0
  BY <1>1, <1>4, <1>7
<1> QED BY <1>2, <1>7, <1>10, <1>11, <1>12
-----------------------------------------------------------------------------
(* The walk *)

\* A row received is at a position of items.
LEMMA Positions ==
  ASSUME NEW seq \in Seq(Row)
  PROVE  /\ DOMAIN seq = 1..Len(seq) /\ Len(seq) \in Nat
         /\ \A r : r \in ToSet(seq) <=> \E n \in 1..Len(seq) : seq[n] = r
<1>1. DOMAIN seq = 1..Len(seq) /\ Len(seq) \in Nat
  BY LenProperties
<1> QED BY <1>1 DEF ToSet

\* The table a walk starts from.
LEMMA WalkInit == Init => WalkInv
<1> SUFFICES ASSUME Init PROVE WalkInv
  OBVIOUS
<1>1. PICK ids \in SUBSET (1..lastId) :
        \E pub \in [ids -> Times \cup {Null}], ok \in [ids -> BOOLEAN] :
          table = {[id |-> i, published_at |-> pub[i], matches |-> ok[i]] : i \in ids}
  BY DEF Init
<1>2. PICK pub \in [ids -> Times \cup {Null}], ok \in [ids -> BOOLEAN] :
        table = {[id |-> i, published_at |-> pub[i], matches |-> ok[i]] : i \in ids}
  BY <1>1
<1> DEFINE row == [i \in ids |-> [id |-> i, published_at |-> pub[i], matches |-> ok[i]]]
<1>3. lastId \in 0..MaxRows /\ lastId \in Int
  BY PagesAssumption DEF Init
<1>4. ASSUME NEW i \in ids PROVE row[i] \in Row /\ row[i].id = i /\ i <= lastId
  <2>1. i \in 1..MaxRows /\ i <= lastId
    BY <1>3, PagesAssumption
  <2> QED BY <2>1 DEF Row
<1>5. table = {row[i] : i \in ids}
  BY <1>2
<1> HIDE DEF row
<1>6. table \subseteq Row /\ UniqueIds(table) /\ \A r \in table : r.id <= lastId
  BY <1>4, <1>5 DEF UniqueIds
<1>7. IsFiniteSet(table)
  <2>1. IsFiniteSet(1..lastId)
    BY <1>3, FS_Interval
  <2>2. IsFiniteSet(ids)
    BY <2>1, FS_Subset
  <2>3. row \in Surjection(ids, table)
    BY <1>5 DEF Surjection, row
  <2> QED BY <2>2, <2>3, FS_Surjection
<1>8. cursor \in Cursor
  BY PagesAssumption DEF Init, Cursor
<1>9. items \in Seq(Row) /\ items = <<>> /\ Len(items) = 0
  BY EmptySeq DEF Init
<1>10. TypeInv
  BY <1>3, <1>6, <1>7, <1>8, <1>9, PagesAssumption DEF Init, TypeInv
<1>11. CursorInv /\ SeenInv
  BY <1>9 DEF Init, CursorInv, SeenInv
<1>12. CoverInv
  BY DEF Init, CoverInv, After
<1>13. WalkIsOrdered
  <2>1. DOMAIN items = 1..0
    BY <1>9, Positions
  <2> QED BY <2>1 DEF WalkIsOrdered
<1> QED BY <1>10, <1>11, <1>12, <1>13 DEF WalkInv

\* A request: the rows it adds lie after the ones received, and what it leaves
\* out lies after the new cursor.
LEMMA PageStep == WalkInv /\ NextPage => WalkInv'
<1> SUFFICES ASSUME WalkInv, NextPage PROVE WalkInv'
  OBVIOUS
<1>0. TypeInv /\ CursorInv /\ SeenInv /\ CoverInv /\ WalkIsOrdered
  BY DEF WalkInv
<1> DEFINE k == Len(items)  l == Len(Page)
<1>1. /\ walk # "done" /\ items' = items \o Page
      /\ walk' = IF HasMore THEN "more" ELSE "done"
      /\ cursor' = IF HasMore THEN CursorOf(Page[Len(Page)]) ELSE cursor
      /\ UNCHANGED <<endpoint, table, lastId, limit, disturbed, changes>>
  BY DEF NextPage, HasMore, Page, Last
<1>2. /\ Page \in Seq(Wanted) /\ l \in Nat
      /\ \A m, n \in 1..l : m < n => Precedes(Page[m], Page[n])
      /\ HasMore => l > 0
      /\ \A r \in Wanted : r \in ToSet(Page) \/ (HasMore /\ Precedes(Page[l], r))
  BY <1>0, PageIs
<1>3. Wanted \subseteq Row /\ Wanted \subseteq table
  BY <1>0, WantedType DEF Wanted
<1>4. \A n \in 1..l : Page[n] \in Wanted
  BY <1>2, ElementOfSeq
<1>5. Page \in Seq(Row) /\ items \in Seq(Row) /\ k \in Nat
  BY <1>0, <1>2, <1>3, LenProperties DEF TypeInv
<1>6. /\ items' \in Seq(Row) /\ Len(items') = k + l
      /\ \A n \in 1..(k + l) : items'[n] = IF n <= k THEN items[n] ELSE Page[n - k]
  BY <1>1, <1>5, ConcatProperties
<1> HIDE DEF k, l
<1>7. /\ \A n \in 1..k : items'[n] = items[n] /\ items[n] \in Row
      /\ \A n \in 1..l : items'[k + n] = Page[n]
  <2>1. \A n \in 1..k : n \in 1..(k + l) /\ n <= k
    BY <1>2, <1>5
  <2>2. \A n \in 1..l : k + n \in 1..(k + l) /\ ~(k + n <= k) /\ (k + n) - k = n
    BY <1>2, <1>5
  <2>3. \A n \in 1..k : items[n] \in Row
    BY <1>5, ElementOfSeq DEF k
  <2> QED BY <1>6, <2>1, <2>2, <2>3
<1>8. ASSUME NEW n \in 1..(k + l)
      PROVE  \/ n \in 1..k /\ items'[n] = items[n]
             \/ \E m \in 1..l : n = k + m /\ items'[n] = Page[m]
  <2>1. CASE n <= k
    BY <1>5, <1>7, <1>8, <2>1
  <2>2. CASE ~(n <= k)
    <3>1. n - k \in 1..l /\ n = k + (n - k)
      BY <1>2, <1>5, <2>2
    <3> QED BY <1>7, <3>1
  <2> QED BY <2>1, <2>2
<1>9. \A r : r \in ToSet(items') <=> r \in ToSet(items) \/ r \in ToSet(Page)
  <2>1. \A r : r \in ToSet(items') <=> \E n \in 1..(k + l) : items'[n] = r
    BY <1>6, Positions
  <2>2. \A r : r \in ToSet(items) <=> \E n \in 1..k : items[n] = r
    BY <1>5, Positions DEF k
  <2>3. \A r : r \in ToSet(Page) <=> \E n \in 1..l : Page[n] = r
    BY <1>5, Positions DEF l
  <2>4. \A n \in 1..k : n \in 1..(k + l)
    BY <1>2, <1>5
  <2>5. \A n \in 1..l : k + n \in 1..(k + l)
    BY <1>2, <1>5
  <2> QED BY <1>7, <1>8, <2>1, <2>2, <2>3, <2>4, <2>5
\* Whatever was received precedes what this page brings.
<1>10. ASSUME NEW m \in 1..k, NEW r \in Wanted PROVE Precedes(items[m], r)
  <2>1. k > 0 /\ walk = "more" /\ cursor = CursorOf(items[k])
    <3>1. k > 0
      BY <1>5
    <3>2. items # <<>>
      BY <3>1, EmptySeq DEF k
    <3> QED BY <1>0, <1>1, <3>1, <3>2 DEF CursorInv, TypeInv, k
  <2>2. items[k] \in Row /\ r \in Row /\ After(r)
    BY <1>3, <1>5, <1>7, <2>1 DEF Wanted
  <2>3. Precedes(items[k], r)
    BY <2>1, <2>2, AfterIsOrder
  <2>4. CASE m = k
    BY <2>3, <2>4
  <2>5. CASE m < k
    <3>1. Precedes(items[m], items[k])
      <4>1. DOMAIN items = 1..k
        BY <1>5, Positions DEF k
      <4>2. k \in 1..k
        BY <1>5, <2>1
      <4> QED BY <1>0, <2>5, <4>1, <4>2 DEF WalkIsOrdered
    <3> QED BY <1>7, <2>2, <2>3, <3>1, StrictOrder
  <2> QED BY <1>5, <2>4, <2>5
<1>11. WalkIsOrdered'
  <2>1. DOMAIN items' = 1..(k + l)
    BY <1>6, Positions
  <2>2. DOMAIN items = 1..k
    BY <1>5, Positions DEF k
  <2>3. ASSUME NEW m \in 1..(k + l), NEW n \in 1..(k + l), m < n
        PROVE  Precedes(items'[m], items'[n])
    <3>1. CASE n \in 1..k
      <4>1. m \in 1..k
        BY <2>3, <3>1, <1>5
      <4> QED BY <1>0, <1>7, <2>2, <2>3, <3>1, <4>1 DEF WalkIsOrdered
    <3>2. ASSUME NEW j \in 1..l, n = k + j PROVE Precedes(items'[m], items'[n])
      <4>1. CASE m \in 1..k
        BY <1>4, <1>7, <1>10, <3>2, <4>1
      <4>2. ASSUME NEW i \in 1..l, m = k + i PROVE Precedes(items'[m], items'[n])
        <5>1. i < j
          BY <1>5, <2>3, <3>2, <4>2
        <5> QED BY <1>2, <1>7, <3>2, <4>2, <5>1
      <4> QED BY <1>8, <4>1, <4>2
    <3> QED BY <1>8, <3>1, <3>2
  <2> QED BY <1>1, <2>1, <2>3 DEF WalkIsOrdered, Precedes
<1>12. TypeInv'
  <2>1. cursor' \in Cursor
    <3>1. CASE HasMore
      <4>0. l \in 1..l
        BY <1>2, <3>1
      <4>1. Page[l] \in Row
        BY <1>3, <1>4, <4>0
      <4>2. CursorOf(Page[l]) \in Cursor
        BY <4>1, PagesAssumption DEF CursorOf, Cursor, Row
      <4> QED BY <1>1, <3>1, <4>2 DEF l
    <3>2. CASE ~HasMore
      BY <1>0, <1>1, <3>2 DEF TypeInv
    <3> QED BY <3>1, <3>2
  <2>2. walk' \in {"first", "more", "done"}
    BY <1>1
  <2> QED BY <1>0, <1>1, <1>6, <2>1, <2>2 DEF TypeInv
<1>13. CursorInv'
  <2>1. ASSUME HasMore PROVE items' # <<>> /\ cursor' = CursorOf(items'[Len(items')])
    <3>1. l \in 1..l /\ Len(items') > 0
      BY <1>2, <1>5, <1>6, <2>1
    <3>2. items'[Len(items')] = Page[l]
      BY <1>6, <1>7, <3>1
    <3>3. items' # <<>>
      BY <3>1, EmptySeq
    <3> QED BY <1>1, <2>1, <3>2, <3>3 DEF l
  <2> QED BY <1>1, <2>1 DEF CursorInv
<1>14. SeenInv'
  <2>1. ASSUME NEW n \in 1..(k + l) PROVE items'[n].id \in disturbed \/ items'[n] \in table
    BY <1>0, <1>3, <1>4, <1>8 DEF SeenInv, k
  <2> QED BY <1>1, <1>6, <2>1 DEF SeenInv
<1>15. ASSUME NEW r \in Steady PROVE r \in ToSet(items') \/ (walk' # "done" /\ After(r)')
  <2>1. r \in Row
    BY <1>0 DEF Steady, TypeInv
  <2>2. CASE r \in ToSet(items)
    BY <1>9, <2>2
  <2>3. CASE r \notin ToSet(items)
    <3>1. r \in Wanted
      BY <1>0, <2>3 DEF CoverInv, Steady, Wanted
    <3>2. CASE r \in ToSet(Page)
      BY <1>9, <3>2
    <3>3. CASE HasMore /\ Precedes(Page[l], r)
      <4>1. l \in 1..l
        BY <1>2, <3>3
      <4>2. PICK last \in Row : last = Page[l]
        BY <1>3, <1>4, <4>1
      <4>3. walk' = "more" /\ cursor' = CursorOf(last)
        BY <1>1, <3>3, <4>2 DEF l
      <4>4. Precedes(last, r)'
        BY <1>1, <3>3, <4>2 DEF Precedes
      <4> QED BY <2>1, <4>3, <4>4, AfterIsOrderNext
    <3> QED BY <1>2, <3>1, <3>2, <3>3
  <2> QED BY <2>2, <2>3
<1>16. CoverInv'
  BY <1>1, <1>15 DEF CoverInv, Steady
<1> QED BY <1>11, <1>12, <1>13, <1>14, <1>16 DEF WalkInv

\* A change of the table disturbs the row it changes, and nothing else that is
\* owed: the walk does not notice.
LEMMA ChangeStep ==
  ASSUME WalkInv, NEW id \in 1..MaxRows, Changes(id),
         table' \subseteq Row, IsFiniteSet(table'), UniqueIds(table'),
         lastId' \in 0..MaxRows, \A r \in table' : r.id <= lastId',
         \A r \in Row : r.id # id => (r \in table' <=> r \in table)
  PROVE  WalkInv'
<1>1. TypeInv /\ CursorInv /\ SeenInv /\ CoverInv /\ WalkIsOrdered
  BY DEF WalkInv
<1>2. /\ changes' \in 0..MaxChanges /\ disturbed' = disturbed \cup {id}
      /\ UNCHANGED <<endpoint, limit, cursor, walk, items>>
  BY <1>1, PagesAssumption DEF Changes, TypeInv
<1>3. TypeInv'
  BY <1>1, <1>2 DEF TypeInv
<1>4. CursorInv' /\ WalkIsOrdered'
  BY <1>1, <1>2 DEF CursorInv, WalkIsOrdered, Precedes
<1>5. SeenInv'
  <2>1. ASSUME NEW n \in 1..Len(items)
        PROVE  items[n].id \in disturbed' \/ items[n] \in table'
    <3>1. items[n] \in Row
      BY <1>1, ElementOfSeq DEF TypeInv
    <3> QED BY <1>1, <1>2, <3>1 DEF SeenInv
  <2> QED BY <1>2, <2>1 DEF SeenInv
<1>6. Steady' \subseteq Steady
  BY <1>2 DEF Steady
<1>7. ASSUME NEW r \in Steady PROVE r \in ToSet(items') \/ (walk' # "done" /\ After(r)')
  BY <1>1, <1>2 DEF CoverInv, After, EntryAfter, FeedAfter
<1>8. CoverInv'
  BY <1>6, <1>7 DEF CoverInv
<1> QED BY <1>3, <1>4, <1>5, <1>8 DEF WalkInv

\* Inserts, edits, deletions and requests.
LEMMA WalkStep == WalkInv /\ [Next]_vars => WalkInv'
<1> SUFFICES ASSUME WalkInv, [Next]_vars PROVE WalkInv'
  OBVIOUS
<1>0. TypeInv /\ CursorInv /\ SeenInv /\ CoverInv /\ WalkIsOrdered
  BY DEF WalkInv
<1>1. CASE InsertRow
  <2>1. PICK pub \in Times \cup {Null}, ok \in BOOLEAN :
          table' = table \cup {[id |-> lastId + 1, published_at |-> pub, matches |-> ok]}
    BY <1>1 DEF InsertRow
  <2> DEFINE row == [id |-> lastId + 1, published_at |-> pub, matches |-> ok]
  <2>2. lastId + 1 \in 1..MaxRows /\ lastId' = lastId + 1 /\ lastId \in Int
        /\ Changes(lastId + 1)
    BY <1>0, <1>1, PagesAssumption DEF InsertRow, TypeInv
  <2>3. row \in Row /\ row.id = lastId + 1 /\ table' = table \cup {row}
    BY <2>1, <2>2 DEF Row
  <2> HIDE DEF row
  <2>4. \A r \in table : r.id \in Int /\ r.id <= lastId /\ r.id # row.id
    BY <1>0, <2>2, <2>3, RowNumbers DEF TypeInv
  <2>5. table' \subseteq Row /\ IsFiniteSet(table')
    BY <1>0, <2>3, FS_AddElement DEF TypeInv
  <2>6. UniqueIds(table')
    BY <1>0, <2>3, <2>4 DEF TypeInv, UniqueIds
  <2>7. \A r \in table' : r.id <= lastId'
    BY <2>2, <2>3, <2>4
  <2>8. \A r \in Row : r.id # lastId + 1 => (r \in table' <=> r \in table)
    BY <2>3
  <2>9. lastId' \in 0..MaxRows
    BY <2>2, PagesAssumption
  <2>10. PICK id \in 1..MaxRows : id = lastId + 1
    BY <2>2
  <2> QED BY <2>2, <2>5, <2>6, <2>7, <2>8, <2>9, <2>10, ChangeStep
<1>2. ASSUME NEW r \in table, EditRow(r) PROVE WalkInv'
  <2>1. PICK s \in Row : s.id = r.id /\ table' = (table \ {r}) \cup {s}
    <3>1. r \in Row
      BY <1>0 DEF TypeInv
    <3>2. \A pub \in Times \cup {Null} : /\ [r EXCEPT !.published_at = pub] \in Row
                                         /\ [r EXCEPT !.published_at = pub].id = r.id
      BY <3>1 DEF Row
    <3>3. [r EXCEPT !.matches = ~@] \in Row /\ [r EXCEPT !.matches = ~@].id = r.id
      BY <3>1 DEF Row
    <3>4. \/ \E pub \in Times \cup {Null} :
               table' = (table \ {r}) \cup {[r EXCEPT !.published_at = pub]}
          \/ table' = (table \ {r}) \cup {[r EXCEPT !.matches = ~@]}
      BY <1>2 DEF EditRow
    <3> QED BY <3>2, <3>3, <3>4
  <2>2. lastId' = lastId /\ Changes(r.id) /\ r.id \in 1..MaxRows
    BY <1>0, <1>2 DEF EditRow, TypeInv, Row
  <2>3. IsFiniteSet(table \ {r})
    BY <1>0, FS_RemoveElement DEF TypeInv
  <2>4. table' \subseteq Row /\ IsFiniteSet(table')
    BY <1>0, <2>1, <2>3, FS_AddElement DEF TypeInv
  <2>5. UniqueIds(table') /\ \A t \in table' : t.id <= lastId'
    BY <1>0, <2>1, <2>2 DEF TypeInv, UniqueIds
  <2>6. \A t \in Row : t.id # r.id => (t \in table' <=> t \in table)
    BY <2>1
  <2> QED BY <1>0, <2>2, <2>4, <2>5, <2>6, ChangeStep DEF TypeInv
<1>3. ASSUME NEW r \in table, RemoveRow(r) PROVE WalkInv'
  <2>1. table' = table \ {r} /\ lastId' = lastId /\ Changes(r.id) /\ r.id \in 1..MaxRows
    BY <1>0, <1>3 DEF RemoveRow, TypeInv, Row
  <2>2. table' \subseteq Row /\ IsFiniteSet(table')
    BY <1>0, <2>1, FS_RemoveElement DEF TypeInv
  <2>3. UniqueIds(table') /\ \A t \in table' : t.id <= lastId'
    BY <1>0, <2>1 DEF TypeInv, UniqueIds
  <2>4. \A t \in Row : t.id # r.id => (t \in table' <=> t \in table)
    BY <2>1
  <2> QED BY <1>0, <2>1, <2>2, <2>3, <2>4, ChangeStep DEF TypeInv
<1>4. CASE UNCHANGED vars
  <2>1. TypeInv' /\ CursorInv' /\ SeenInv'
    BY <1>0, <1>4 DEF vars, TypeInv, CursorInv, SeenInv
  <2>2. CoverInv' /\ WalkIsOrdered'
    BY <1>0, <1>4 DEF vars, CoverInv, Steady, After, EntryAfter, FeedAfter, WalkIsOrdered,
                      Precedes
  <2> QED BY <2>1, <2>2 DEF WalkInv
<1> QED BY <1>1, <1>2, <1>3, <1>4, PageStep DEF Next
-----------------------------------------------------------------------------
(* The theorems *)

\* list_entries, list_feeds: cursors and pages stay what they are declared to be.
THEOREM WalkTyped == Spec => []TypeOK
<1>1. WalkInv => TypeOK
  <2> SUFFICES ASSUME WalkInv PROVE TypeOK
    OBVIOUS
  <2>1. ASSUME NEW r \in ToSet(items) PROVE r \in Row
    BY Positions, ElementOfSeq DEF WalkInv, TypeInv
  <2> QED BY <2>1 DEF WalkInv, TypeInv, TypeOK, Cursor
<1> QED BY <1>1, WalkInit, WalkStep, PTL DEF Spec

\* list_entries, list_feeds: pages continue each other in the order of the list,
\* whatever changes between two requests.
THEOREM WalksAreOrdered == Spec => []WalkIsOrdered
<1>1. WalkInv => WalkIsOrdered
  BY DEF WalkInv
<1> QED BY <1>1, WalkInit, WalkStep, PTL DEF Spec

\* list_entries, list_feeds: a finished walk has returned every row that matched
\* and was left alone, once.
THEOREM WalksAreComplete == Spec => []WalkIsComplete
<1>1. WalkInv => WalkIsComplete
  <2> SUFFICES ASSUME WalkInv, walk = "done", NEW r \in Steady
               PROVE  Cardinality({n \in DOMAIN items : items[n].id = r.id}) = 1
    BY DEF WalkIsComplete
  <2>1. TypeInv /\ SeenInv /\ CoverInv /\ WalkIsOrdered
    BY DEF WalkInv
  <2>2. items \in Seq(Row) /\ r \in Row /\ r \in table /\ r.id \notin disturbed
    BY <2>1 DEF TypeInv, Steady
  <2>3. DOMAIN items = 1..Len(items) /\ Len(items) \in Nat
    BY <2>2, Positions
  <2>4. PICK n \in 1..Len(items) : items[n] = r
    BY <2>1, <2>2, Positions DEF CoverInv
  <2>5. ASSUME NEW m \in 1..Len(items), items[m].id = r.id PROVE m = n
    <3>1. items[m] = r
      BY <2>1, <2>2, <2>5 DEF SeenInv, TypeInv, UniqueIds
    <3>2. ~(m < n) /\ ~(n < m)
      BY <2>1, <2>2, <2>3, <2>4, <3>1, StrictOrder DEF WalkIsOrdered
    <3> QED BY <2>3, <3>2
  <2>6. {m \in DOMAIN items : items[m].id = r.id} = {n}
    BY <2>3, <2>4, <2>5
  <2> QED BY <2>6, FS_Singleton
<1> QED BY <1>1, WalkInit, WalkStep, PTL DEF Spec
=============================================================================
