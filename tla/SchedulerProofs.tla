-------------------------- MODULE SchedulerProofs ---------------------------
(***************************************************************************)
(* Scheduler keeps its type, gives each feed to one worker at a time and     *)
(* never lets a commit overwrite an update its session has not seen: for     *)
(* any workers, feeds, batch size, timers and clock skew that satisfy        *)
(* LeaseAssumption.                                                         *)
(*                                                                         *)
(* Neither safety property is inductive. LeaseExclusive needs to know that   *)
(* the row of a held feed still carries the holder's lease (LeaseInv), that  *)
(* every tick under way is within its budget (TimeInv), which together make  *)
(* a held feed unclaimable (HeldNotClaimable), and that a locked row is      *)
(* locked once and held by nobody (LockInv); SnapshotCurrent needs           *)
(* LeaseExclusive.                                                          *)
(*                                                                         *)
(* With them every step of Scheduler is, feed by feed, a step of AtomicFeed  *)
(* or none: a claim commits a row nobody has touched since its statement     *)
(* (ClaimedInv), and a fetch commits over the row it loaded.  And a backlog   *)
(* is served in order: the count of ClaimOrder is bounded (OrderInv).        *)
(***************************************************************************)
EXTENDS ClaimOrder, FeedLifecycleProofs, FiniteSetTheorems, TLAPS

\* Any mixture of the columns of three rows is again a row: the ORM's UPDATE
\* cannot leave the type, whatever it is merged with.
LEMMA MergedType ==
  ASSUME NEW row \in Feed, NEW seen \in Feed, NEW mine \in Feed
  PROVE  Merged(row, seen, mine) \in Feed
BY DEF Merged, Feed, FeedStatus, ErrorCode

\* A process reads a clock that is never negative.
TypeInv == TypeOK /\ Skew <= clock

\* A clock reading is a natural number within Skew of the database clock.
LEMMA ReadingsType ==
  ASSUME TypeInv, NEW t \in Readings
  PROVE  t \in Nat /\ clock - Skew <= t /\ t <= clock + Skew
BY SchedulerAssumption DEF TypeInv, TypeOK, Readings

\* The initial state has the type.
LEMMA TypeInit == Init => TypeInv
<1> SUFFICES ASSUME Init PROVE TypeInv
  OBVIOUS
<1>1. NoRow \in Feed /\ NewFeed(Skew, Skew) \in Feed
  BY NewFeedType, SchedulerAssumption DEF NoRow
<1>2. NoRows \in [Feeds -> Feed]
  BY <1>1 DEF NoRows
<1>3. db \in [Feeds -> Feed]
  BY <1>1 DEF Init
<1> QED BY <1>2, <1>3, SchedulerAssumption DEF Init, TypeInv, TypeOK

\* What leaving one phase for another does to the locals of tick_once.
LEMMA GoToType ==
  ASSUME TypeInv, NEW w \in Workers, NEW p, GoTo(w, p),
         p \in {"idle", "ticking", "claiming", "fetching", "down"}
  PROVE  /\ phase' \in [Workers -> {"idle", "ticking", "claiming", "fetching", "down"}]
         /\ now' \in [Workers -> Nat]
         /\ startedAt' \in [Workers -> Nat]
BY DEF TypeInv, TypeOK, GoTo

\* The end of a fetch keeps the type of what it assigns.
LEMMA EndFetchType ==
  ASSUME TypeInv, NEW w \in Workers, NEW f \in Feeds, EndFetch(w, f)
  PROVE  /\ phase' \in [Workers -> {"idle", "ticking", "claiming", "fetching", "down"}]
         /\ now' \in [Workers -> Nat]
         /\ startedAt' \in [Workers -> Nat]
         /\ held' \in [Workers -> SUBSET Feeds]
         /\ loaded' \in [Workers -> SUBSET Feeds]
         /\ snap' \in [Workers -> [Feeds -> Feed]]
         /\ overlapped' \subseteq Feeds
<1>1. NoRow \in Feed
  BY NewFeedType DEF NoRow
<1>2. snap' \in [Workers -> [Feeds -> Feed]]
  BY <1>1 DEF TypeInv, TypeOK, EndFetch
<1>3. held' \in [Workers -> SUBSET Feeds] /\ loaded' \in [Workers -> SUBSET Feeds]
  BY DEF TypeInv, TypeOK, EndFetch
<1>4. overlapped' \subseteq Feeds
  BY DEF TypeInv, TypeOK, EndFetch
<1> QED BY <1>2, <1>3, <1>4, GoToType DEF EndFetch

\* Every step keeps the type.
LEMMA TypeStep == TypeInv /\ [Next]_vars => TypeInv'
<1> SUFFICES ASSUME TypeInv, [Next]_vars PROVE TypeInv'
  OBVIOUS
<1> USE DEF TypeInv
<1>r. NoRow \in Feed /\ NoRows \in [Feeds -> Feed]
  BY NewFeedType DEF NoRow, NoRows
<1>1. ASSUME NEW w \in Workers, StartTick(w) PROVE TypeInv'
  <2>1. PICK t \in Readings : now' = [now EXCEPT ![w] = t]
    BY <1>1 DEF StartTick
  <2>2. t \in Nat
    BY ReadingsType
  <2> QED BY <1>1, <2>1, <2>2 DEF StartTick, TypeOK, dbVars, apiVars
<1>2. ASSUME NEW w \in Workers, ClaimExecute(w) PROVE TypeInv'
  <2>1. PICK S \in Batches(w) : locked' = [locked EXCEPT ![w] = S]
    BY <1>2 DEF ClaimExecute
  <2>2. S \subseteq Feeds
    BY DEF Batches, Eligible, TypeOK
  <2>3. locked' \in [Workers -> SUBSET Feeds]
    BY <2>1, <2>2 DEF TypeOK
  <2> QED BY <1>2, <2>3, GoToType DEF ClaimExecute, TypeOK, dbVars, apiVars
<1>3. ASSUME NEW w \in Workers, ClaimCommit(w) PROVE TypeInv'
  <2>1. now[w] \in Int /\ \A f \in Feeds : Leased(db[f], now[w]) \in Feed
    BY LeasedType DEF TypeOK
  <2>2. db' \in [Feeds -> Feed]
    BY <1>3, <2>1 DEF ClaimCommit, TypeOK
  <2>3. held' \in [Workers -> SUBSET Feeds] /\ locked' \in [Workers -> SUBSET Feeds]
    BY <1>3 DEF ClaimCommit, TypeOK
  <2> QED BY <1>3, <2>2, <2>3, GoToType DEF ClaimCommit, TypeOK, apiVars
<1>4. ASSUME NEW w \in Workers, ClaimError(w) PROVE TypeInv'
  BY <1>4, GoToType DEF ClaimError, TypeOK, dbVars, apiVars
<1>5. ASSUME NEW w \in Workers, NEW f \in Feeds, LoadFeed(w, f) PROVE TypeInv'
  BY <1>5 DEF LoadFeed, TypeOK, dbVars, apiVars
<1>6. ASSUME NEW w \in Workers, NEW f \in Feeds, LoadNothing(w, f) PROVE TypeInv'
  BY <1>6, EndFetchType DEF LoadNothing, TypeOK, dbVars, apiVars
<1>7. ASSUME NEW w \in Workers, NEW f \in Feeds, FinishFetch(w, f) PROVE TypeInv'
  <2> DEFINE new(r, n, j) == FetchOne(snap[w][f], now[w], r, n, j)
  <2>1. PICK r \in Responses(snap[w][f]), n \in WeeklyCounts, j \in Jitters :
          db' = [db EXCEPT ![f] = Merged(db[f], snap[w][f], new(r, n, j))]
    BY <1>7 DEF FinishFetch, TypeOK
  <2>2. snap[w][f] \in Feed /\ now[w] \in Int /\ db[f] \in Feed
    BY DEF TypeOK
  <2>3. new(r, n, j) \in Feed
    BY <2>2, ResponsesType, FetchOneType
  <2>4. Merged(db[f], snap[w][f], new(r, n, j)) \in Feed
    BY <2>2, <2>3, MergedType
  <2>5. db' \in [Feeds -> Feed]
    BY <2>1, <2>4 DEF TypeOK
  <2> QED BY <1>7, <2>5, EndFetchType DEF FinishFetch, TypeOK, apiVars
<1>8. ASSUME NEW w \in Workers, NEW f \in Feeds, AbortFetch(w, f) PROVE TypeInv'
  BY <1>8, EndFetchType DEF AbortFetch, TypeOK, dbVars, apiVars
<1>9. ASSUME NEW w \in Workers, Crash(w) PROVE TypeInv'
  BY <1>9, <1>r, GoToType DEF Crash, TypeOK, dbVars, apiVars
<1>10. ASSUME NEW w \in Workers, Restart(w) PROVE TypeInv'
  BY <1>10, GoToType DEF Restart, TypeOK, dbVars, apiVars
<1>11. ASSUME NEW f \in Feeds, CreateFeed(f) PROVE TypeInv'
  <2>1. PICK t \in Readings : db' = [db EXCEPT ![f] = NewFeed(clock, t)]
    BY <1>11 DEF CreateFeed
  <2>2. NewFeed(clock, t) \in Feed
    BY ReadingsType, NewFeedType DEF TypeOK
  <2> QED BY <1>11, <2>1, <2>2 DEF CreateFeed, TypeOK, workerVars, apiVars
<1>12. ASSUME NEW f \in Feeds, DeleteFeed(f) PROVE TypeInv'
  BY <1>12, <1>r DEF DeleteFeed, TypeOK, workerVars, apiVars
<1>13. ASSUME NEW f \in Feeds, ReactivateLoad(f) PROVE TypeInv'
  BY <1>13 DEF ReactivateLoad, TypeOK, dbVars, workerVars
<1>14. ASSUME NEW f \in Feeds, ReactivateWrite(f) PROVE TypeInv'
  <2>1. ASSUME NEW t \in Readings
        PROVE  [Merged(db[f], apiRow[f], Reactivated(apiRow[f], t)) EXCEPT !.next_fetch_at = t] \in Feed
    <3>1. t \in Int
      BY ReadingsType
    <3>2. Reactivated(apiRow[f], t) \in Feed
      BY <3>1, ReactivatedType DEF TypeOK
    <3>3. Merged(db[f], apiRow[f], Reactivated(apiRow[f], t)) \in Feed
      BY <3>2, MergedType DEF TypeOK
    <3> QED BY <3>1, <3>3 DEF Feed
  <2>2. db' \in [Feeds -> Feed]
    <3>1. CASE f \notin live
      BY <1>14, <3>1 DEF ReactivateWrite, TypeOK
    <3>2. CASE f \in live
      <4>1. PICK t \in Readings : db' = [db EXCEPT ![f] =
              [Merged(db[f], apiRow[f], Reactivated(apiRow[f], t)) EXCEPT !.next_fetch_at = t]]
        BY <1>14, <3>2 DEF ReactivateWrite, TypeOK
      <4> QED BY <2>1, <4>1 DEF TypeOK
    <3> QED BY <3>1, <3>2
  <2> QED BY <1>14, <1>r, <2>2 DEF ReactivateWrite, TypeOK, workerVars
<1>15. CASE Tick
  BY <1>15, SchedulerAssumption DEF Tick, TypeOK, dbVars, workerVars, apiVars
<1>16. CASE UNCHANGED vars
  BY <1>16 DEF vars, TypeOK, dbVars, workerVars, apiVars
<1> QED
  BY <1>1, <1>2, <1>3, <1>4, <1>5, <1>6, <1>7, <1>8, <1>9, <1>10, <1>11, <1>12, <1>13, <1>14,
     <1>15, <1>16
  DEF Next, WorkerStep, FetchStep, ApiStep

\* Scheduler keeps its type: no interleaving of ticks, crashes and API requests
\* stores a row that is not one of models.Feed, column-wise merges included.
THEOREM TypeCorrect == Spec => []TypeOK
<1>1. TypeInv => TypeOK
  BY DEF TypeInv
<1> QED BY <1>1, TypeInit, TypeStep, PTL DEF Spec

-----------------------------------------------------------------------------
(* The inductive invariant behind LeaseExclusive and SnapshotCurrent *)

\* Where in its tick a worker may hold locks, claims and loaded rows.
PhaseInv ==
  \A w \in Workers :
    /\ locked[w] # {} => phase[w] = "claiming"
    /\ held[w] # {} => phase[w] = "fetching"
    /\ loaded[w] \subseteq held[w]
    /\ held[w] \subseteq born
    /\ locked[w] \subseteq live

\* A tick that is under way is within its budget, and its clock within Skew.
TimeInv ==
  \A w \in Workers : Busy(w) =>
    /\ startedAt[w] <= clock /\ clock <= startedAt[w] + TickBudget
    /\ startedAt[w] - Skew <= now[w] /\ now[w] <= startedAt[w] + Skew

\* A locked row is locked once, and nobody is fetching the feed unless it was
\* reactivated under the fetch.
LockInv ==
  \A v, w \in Workers : \A f \in locked[w] :
    /\ f \in locked[v] => v = w
    /\ f \in held[v] => f \in overlapped

\* The row of a held feed carries the lease of its holder.
LeaseInv ==
  \A w \in Workers : \A f \in (held[w] \cap live) \ overlapped :
    db[f].next_fetch_at = now[w] + ClaimTTL /\ db[f].last_attempt_at = now[w]

Inv ==
  /\ TypeInv /\ PhaseInv /\ TimeInv /\ LockInv /\ LeaseInv
  /\ LeaseExclusive /\ SnapshotCurrent

\* The inductive invariant holds initially.
LEMMA InvInit == Init => Inv
<1> SUFFICES ASSUME Init PROVE Inv
  OBVIOUS
<1>1. \A w \in Workers : locked[w] = {} /\ held[w] = {} /\ loaded[w] = {} /\ phase[w] = "idle"
  BY DEF Init
<1> QED
  BY <1>1, TypeInit
  DEF Inv, PhaseInv, TimeInv, LockInv, LeaseInv, LeaseExclusive, SnapshotCurrent, Busy

\* A feed that is held and was not reactivated is not claimable by a tick that
\* is under way: the lease outlives the ticks, on both sides of the queue.
LEMMA HeldNotClaimable ==
  ASSUME Inv, NEW v \in Workers, NEW w \in Workers, Busy(w),
         NEW f \in (held[v] \cap live) \ overlapped
  PROVE  ~Claimable(db[f], now[w])
<1>1. Busy(v) /\ db[f].next_fetch_at = now[v] + ClaimTTL /\ db[f].last_attempt_at = now[v]
  BY DEF Inv, PhaseInv, LeaseInv, Busy
<1>2. /\ startedAt[v] - Skew <= now[v] /\ clock <= startedAt[v] + TickBudget
      /\ now[w] <= startedAt[w] + Skew /\ startedAt[w] <= clock
  BY <1>1 DEF Inv, TimeInv
<1>3. /\ now[v] \in Nat /\ now[w] \in Nat /\ startedAt[v] \in Nat /\ startedAt[w] \in Nat
      /\ clock \in Nat /\ Skew \in Nat /\ TickBudget \in Nat
      /\ ClaimTTL \in Nat /\ ProbeInterval \in Nat
  BY SchedulerAssumption, LifecycleAssumption DEF Inv, TypeInv, TypeOK
<1>4. now[w] <= now[v] + TickBudget + 2 * Skew
  BY <1>2, <1>3
<1>5. ~(now[v] + ClaimTTL <= now[w]) /\ ~(now[v] < now[w] - ProbeInterval) /\ now[v] # Null
  BY <1>3, <1>4, LeaseAssumption DEF Null
<1> QED BY <1>1, <1>5 DEF Claimable

\* What the end of a fetch leaves behind: nobody gains a claim, the other
\* workers are not touched, and a feed stops being overlapped only when nobody
\* holds it.
LEMMA EndFetchFrame ==
  ASSUME Inv, NEW w \in Workers, NEW f \in held[w], EndFetch(w, f)
  PROVE  \A u \in Workers :
           /\ held'[u] \subseteq held[u]
           /\ loaded'[u] \subseteq loaded[u] \cap held'[u]
           /\ \A g \in held'[u] : g \notin overlapped' => g \notin overlapped
           /\ held'[u] # {} => phase'[u] = "fetching" /\ now'[u] = now[u]
           /\ phase'[u] \in {"ticking", "claiming", "fetching"} =>
                phase'[u] = phase[u] /\ now'[u] = now[u] /\ startedAt'[u] = startedAt[u]
           /\ phase[u] = "claiming" => phase'[u] = "claiming"
           /\ \A g \in loaded'[u] : snap'[u][g] = snap[u][g]
           /\ u = w => f \notin held'[u]
<1>1. /\ held \in [Workers -> SUBSET Feeds] /\ loaded \in [Workers -> SUBSET Feeds]
      /\ snap \in [Workers -> [Feeds -> Feed]] /\ f \in Feeds
      /\ DOMAIN phase = Workers /\ DOMAIN now = Workers /\ DOMAIN startedAt = Workers
  BY DEF Inv, TypeInv, TypeOK
<1>2. phase[w] = "fetching" /\ \A u \in Workers : loaded[u] \subseteq held[u]
  BY DEF Inv, PhaseInv
<1>3. /\ \A u \in Workers : held'[u] = IF u = w THEN held[u] \ {f} ELSE held[u]
      /\ \A u \in Workers : loaded'[u] = IF u = w THEN loaded[u] \ {f} ELSE loaded[u]
  BY <1>1 DEF EndFetch
<1>4. \A u \in Workers, g \in Feeds : ~(u = w /\ g = f) => snap'[u][g] = snap[u][g]
  BY <1>1 DEF EndFetch
<1>5. ASSUME NEW u \in Workers, NEW g \in held'[u], g \notin overlapped' PROVE g \notin overlapped
  <2>1. CASE g # f
    BY <1>5, <2>1 DEF EndFetch
  <2>2. CASE g = f
    <3>1. u # w /\ u \in Holders(f)
      BY <1>3, <2>2 DEF Holders
    <3> QED BY <1>5, <2>2, <3>1 DEF EndFetch
  <2> QED BY <2>1, <2>2
<1>6. ASSUME NEW u \in Workers
      PROVE  /\ u # w => phase'[u] = phase[u] /\ now'[u] = now[u] /\ startedAt'[u] = startedAt[u]
             /\ held[w] # {f} => /\ phase'[w] = "fetching"
                                 /\ now'[w] = now[w] /\ startedAt'[w] = startedAt[w]
             /\ held[w] = {f} => phase'[w] = "idle"
  BY <1>1 DEF EndFetch, GoTo
<1>7. \A u \in Workers : held[u] # {} => phase[u] = "fetching"
  BY DEF Inv, PhaseInv
<1> SUFFICES ASSUME NEW u \in Workers
             PROVE  /\ held'[u] \subseteq held[u]
                    /\ loaded'[u] \subseteq loaded[u] \cap held'[u]
                    /\ held'[u] # {} => phase'[u] = "fetching" /\ now'[u] = now[u]
                    /\ phase'[u] \in {"ticking", "claiming", "fetching"} =>
                         phase'[u] = phase[u] /\ now'[u] = now[u] /\ startedAt'[u] = startedAt[u]
                    /\ phase[u] = "claiming" => phase'[u] = "claiming"
                    /\ \A g \in loaded'[u] : snap'[u][g] = snap[u][g]
                    /\ u = w => f \notin held'[u]
  BY <1>5
<1>8. CASE u = w
  BY <1>1, <1>2, <1>3, <1>4, <1>6, <1>8
<1>9. CASE u # w
  BY <1>1, <1>2, <1>3, <1>4, <1>6, <1>7, <1>9
<1> QED BY <1>8, <1>9

\* A fetch that ends without writing its row, and one that writes it: only f's
\* row may differ, and nobody but w was working on it unless it is overlapped.
LEMMA EndFetchInv ==
  ASSUME Inv, TypeInv', NEW w \in Workers, NEW f \in held[w], EndFetch(w, f),
         UNCHANGED <<born, live, locked, clock>>,
         \A g \in Feeds \ {f} : db'[g] = db[g]
  PROVE  Inv'
<1> USE EndFetchFrame
<1>1. PhaseInv'
  BY DEF Inv, PhaseInv
<1>2. TimeInv'
  BY DEF Inv, TimeInv, Busy
<1>3. LockInv'
  BY DEF Inv, LockInv
<1>4. LeaseExclusive'
  BY DEF Inv, LeaseExclusive
<1>5. \A u \in Workers : \A g \in held'[u] \ overlapped' : db'[g] = db[g]
  <2> SUFFICES ASSUME NEW u \in Workers, NEW g \in held'[u] \ overlapped', g = f PROVE FALSE
    BY DEF Inv, TypeInv, TypeOK
  <2>1. g \in held[u] /\ g \in held[w] /\ g \in Feeds \ overlapped
    BY DEF Inv, TypeInv, TypeOK
  <2>2. u = w
    BY <2>1 DEF Inv, LeaseExclusive
  <2> QED BY <2>2
<1>6. LeaseInv'
  BY <1>5 DEF Inv, LeaseInv
<1>7. SnapshotCurrent'
  BY <1>5 DEF Inv, SnapshotCurrent
<1> QED BY <1>1, <1>2, <1>3, <1>4, <1>6, <1>7 DEF Inv

\* tick_once starting keeps the invariant: its clock is fresh.
LEMMA StartTickInv ==
  ASSUME Inv, TypeInv', NEW w \in Workers, StartTick(w)
  PROVE  Inv'
<1>1. PICK t \in Readings : now' = [now EXCEPT ![w] = t]
  BY DEF StartTick
<1>2. t \in Nat /\ clock - Skew <= t /\ t <= clock + Skew
  BY ReadingsType DEF Inv
<1>3. /\ \A u \in Workers \ {w} : /\ now'[u] = now[u] /\ startedAt'[u] = startedAt[u]
                                  /\ phase'[u] = phase[u]
      /\ now'[w] = t /\ startedAt'[w] = clock /\ phase'[w] = "ticking"
      /\ UNCHANGED <<db, born, live, locked, held, loaded, snap, clock, overlapped>>
  BY <1>1 DEF StartTick, dbVars, Inv, TypeInv, TypeOK
<1>4. held[w] = {} /\ locked[w] = {} /\ loaded[w] = {}
  BY DEF StartTick, Inv, PhaseInv
<1>5. PhaseInv'
  BY <1>3, <1>4 DEF Inv, PhaseInv
<1>6. TimeInv'
  <2>1. clock \in Nat /\ Skew \in Nat /\ TickBudget \in Nat
    BY SchedulerAssumption DEF Inv, TypeInv, TypeOK
  <2>2. /\ startedAt'[w] <= clock /\ clock <= startedAt'[w] + TickBudget
        /\ startedAt'[w] - Skew <= now'[w] /\ now'[w] <= startedAt'[w] + Skew
    BY <1>2, <1>3, <2>1
  <2>3. \A u \in Workers \ {w} : Busy(u)' <=> Busy(u)
    BY <1>3 DEF Busy
  <2> QED BY <1>3, <2>2, <2>3 DEF Inv, TimeInv
<1>7. LockInv' /\ LeaseExclusive' /\ SnapshotCurrent'
  BY <1>3 DEF Inv, LockInv, LeaseExclusive, SnapshotCurrent
<1>8. LeaseInv'
  <2> SUFFICES ASSUME NEW u \in Workers, NEW f \in (held[u] \cap live) \ overlapped
               PROVE  db[f].next_fetch_at = now'[u] + ClaimTTL /\ db[f].last_attempt_at = now'[u]
    BY <1>3 DEF LeaseInv
  <2>1. now'[u] = now[u]
    BY <1>3, <1>4
  <2> QED BY <2>1 DEF Inv, LeaseInv
<1> QED BY <1>5, <1>6, <1>7, <1>8 DEF Inv

\* The claim's SELECT ... SKIP LOCKED keeps the invariant: what it locks nobody
\* else has locked, and nobody holds unless it was reactivated.
LEMMA ClaimExecuteInv ==
  ASSUME Inv, TypeInv', NEW w \in Workers, ClaimExecute(w)
  PROVE  Inv'
<1>1. PICK S \in Batches(w) : locked' = [locked EXCEPT ![w] = S]
  BY DEF ClaimExecute
<1>2. /\ \A u \in Workers : now'[u] = now[u] /\ startedAt'[u] = startedAt[u]
      /\ \A u \in Workers \ {w} : phase'[u] = phase[u] /\ locked'[u] = locked[u]
      /\ locked'[w] = S /\ phase'[w] = "claiming" /\ phase[w] = "ticking"
      /\ UNCHANGED <<db, born, live, held, loaded, snap, clock, overlapped>>
  BY <1>1 DEF ClaimExecute, GoTo, dbVars, Inv, TypeInv, TypeOK
<1>3. \A f \in S : f \in live /\ Claimable(db[f], now[w]) /\ \A u \in Workers : f \notin locked[u]
  BY DEF Batches, Eligible, RowLocked
<1>4. \A f \in S, v \in Workers : f \in held[v] => f \in overlapped
  BY <1>2, <1>3, HeldNotClaimable DEF Busy
<1>5. held[w] = {}
  BY <1>2 DEF Inv, PhaseInv
<1>6. PhaseInv'
  BY <1>2, <1>3, <1>5 DEF Inv, PhaseInv
<1>7. TimeInv'
  BY <1>2 DEF Inv, TimeInv, Busy
<1>8. LockInv'
  BY <1>2, <1>3, <1>4 DEF Inv, LockInv
<1>9. LeaseInv' /\ LeaseExclusive' /\ SnapshotCurrent'
  BY <1>2 DEF Inv, LeaseInv, LeaseExclusive, SnapshotCurrent
<1> QED BY <1>6, <1>7, <1>8, <1>9 DEF Inv

\* The claim's commit keeps the invariant: the leases it writes are its holder's,
\* and no other session has a snapshot of those rows.
LEMMA ClaimCommitInv ==
  ASSUME Inv, TypeInv', NEW w \in Workers, ClaimCommit(w)
  PROVE  Inv'
<1>1. /\ \A u \in Workers \ {w} : /\ now'[u] = now[u] /\ startedAt'[u] = startedAt[u]
                                  /\ phase'[u] = phase[u]
                                  /\ held'[u] = held[u] /\ locked'[u] = locked[u]
      /\ held'[w] = locked[w] /\ locked'[w] = {}
      /\ UNCHANGED <<born, live, loaded, snap, clock, overlapped>>
  BY DEF ClaimCommit, GoTo, Inv, TypeInv, TypeOK
<1>2. /\ locked[w] # {} => /\ phase'[w] = "fetching"
                           /\ now'[w] = now[w] /\ startedAt'[w] = startedAt[w]
      /\ locked[w] = {} => phase'[w] = "idle"
  BY DEF ClaimCommit, GoTo, Inv, TypeInv, TypeOK
<1>3. phase[w] = "claiming" /\ held[w] = {} /\ loaded[w] = {}
  BY DEF ClaimCommit, Inv, PhaseInv
<1>4. \A f \in Feeds : db'[f] = IF f \in locked[w] THEN Leased(db[f], now[w]) ELSE db[f]
  BY DEF ClaimCommit
<1>5. PhaseInv'
  BY <1>1, <1>2, <1>3 DEF Inv, PhaseInv, TypeInv, TypeOK
<1>6. TimeInv'
  BY <1>1, <1>2, <1>3 DEF Inv, TimeInv, Busy
<1>7. LockInv'
  BY <1>1 DEF Inv, LockInv
<1>8. LeaseExclusive'
  BY <1>1 DEF Inv, LockInv, LeaseExclusive
<1>9. \A u \in Workers \ {w} : \A f \in held[u] \ overlapped : db'[f] = db[f]
  BY <1>4 DEF Inv, LockInv, TypeInv, TypeOK
<1>10. LeaseInv'
  <2>1. ASSUME NEW u \in Workers \ {w}, NEW f \in (held'[u] \cap live') \ overlapped'
        PROVE  db'[f].next_fetch_at = now'[u] + ClaimTTL /\ db'[f].last_attempt_at = now'[u]
    BY <1>1, <1>9 DEF Inv, LeaseInv
  <2>2. ASSUME NEW f \in held'[w]
        PROVE  db'[f].next_fetch_at = now'[w] + ClaimTTL /\ db'[f].last_attempt_at = now'[w]
    <3>1. f \in locked[w] /\ f \in Feeds /\ db[f] \in Feed /\ now'[w] = now[w]
      BY <1>1, <1>2 DEF Inv, TypeInv, TypeOK
    <3>2. db'[f] = Leased(db[f], now[w])
      BY <1>4, <3>1
    <3> QED BY <3>1, <3>2 DEF Leased, Feed
  <2> QED BY <2>1, <2>2 DEF LeaseInv
<1>11. SnapshotCurrent'
  BY <1>1, <1>3, <1>9 DEF Inv, SnapshotCurrent, PhaseInv
<1> QED BY <1>5, <1>6, <1>7, <1>8, <1>10, <1>11 DEF Inv

\* A claim that fails keeps the invariant: its locks are gone, nothing was written.
LEMMA ClaimErrorInv ==
  ASSUME Inv, TypeInv', NEW w \in Workers, ClaimError(w)
  PROVE  Inv'
<1>1. /\ \A u \in Workers \ {w} : /\ now'[u] = now[u] /\ startedAt'[u] = startedAt[u]
                                  /\ phase'[u] = phase[u] /\ locked'[u] = locked[u]
      /\ locked'[w] = {} /\ phase'[w] = "idle" /\ phase[w] \in {"ticking", "claiming"}
      /\ UNCHANGED <<db, born, live, held, loaded, snap, clock, overlapped>>
  BY DEF ClaimError, GoTo, dbVars, Inv, TypeInv, TypeOK
<1>2. held[w] = {}
  BY <1>1 DEF Inv, PhaseInv
<1>3. PhaseInv' /\ TimeInv' /\ LockInv'
  BY <1>1, <1>2 DEF Inv, PhaseInv, TimeInv, LockInv, Busy
<1>4. LeaseInv' /\ LeaseExclusive' /\ SnapshotCurrent'
  BY <1>1, <1>2 DEF Inv, LeaseInv, LeaseExclusive, SnapshotCurrent
<1> QED BY <1>3, <1>4 DEF Inv

\* Loading the row keeps the invariant: the snapshot is the committed row.
LEMMA LoadFeedInv ==
  ASSUME Inv, TypeInv', NEW w \in Workers, NEW f \in Feeds, LoadFeed(w, f)
  PROVE  Inv'
<1>1. /\ \A u \in Workers : loaded'[u] = IF u = w THEN loaded[u] \cup {f} ELSE loaded[u]
      /\ f \in held[w]
      /\ UNCHANGED <<db, born, live, phase, now, startedAt, locked, held, clock, overlapped>>
  BY DEF LoadFeed, dbVars, Inv, TypeInv, TypeOK
<1>2. /\ snap'[w][f] = db[f]
      /\ \A u \in Workers, g \in Feeds : ~(u = w /\ g = f) => snap'[u][g] = snap[u][g]
  BY DEF LoadFeed, Inv, TypeInv, TypeOK
<1>3. PhaseInv'
  BY <1>1 DEF Inv, PhaseInv
<1>4. TimeInv' /\ LockInv' /\ LeaseInv' /\ LeaseExclusive'
  BY <1>1 DEF Inv, TimeInv, LockInv, LeaseInv, LeaseExclusive, Busy
<1>5. SnapshotCurrent'
  <2> SUFFICES ASSUME NEW u \in Workers, NEW g \in (loaded'[u] \cap live) \ overlapped
               PROVE  db[g] = snap'[u][g]
    BY <1>1 DEF SnapshotCurrent
  <2>1. g \in Feeds
    BY DEF Inv, TypeInv, TypeOK
  <2>2. CASE u = w /\ g = f
    BY <1>2, <2>2
  <2>3. CASE ~(u = w /\ g = f)
    <3>1. g \in loaded[u]
      BY <1>1, <2>3
    <3> QED BY <1>2, <2>1, <2>3, <3>1 DEF Inv, SnapshotCurrent
  <2> QED BY <2>2, <2>3
<1> QED BY <1>3, <1>4, <1>5 DEF Inv

\* A crash keeps the invariant: the worker holds nothing any more.
LEMMA CrashInv ==
  ASSUME Inv, TypeInv', NEW w \in Workers, Crash(w)
  PROVE  Inv'
<1>1. /\ \A u \in Workers \ {w} : /\ now'[u] = now[u] /\ startedAt'[u] = startedAt[u]
                                  /\ phase'[u] = phase[u] /\ locked'[u] = locked[u]
                                  /\ held'[u] = held[u] /\ loaded'[u] = loaded[u]
                                  /\ snap'[u] = snap[u]
      /\ locked'[w] = {} /\ held'[w] = {} /\ loaded'[w] = {} /\ phase'[w] = "down"
      /\ UNCHANGED <<db, born, live, clock>>
  BY DEF Crash, GoTo, dbVars, Inv, TypeInv, TypeOK
<1>2. ASSUME NEW u \in Workers, NEW g \in held'[u], g \notin overlapped' PROVE g \notin overlapped
  <2>1. u # w /\ u \in Holders(g)
    BY <1>1 DEF Holders
  <2> QED BY <1>2, <2>1 DEF Crash
<1>3. PhaseInv' /\ TimeInv'
  BY <1>1 DEF Inv, PhaseInv, TimeInv, Busy
<1>4. LockInv'
  BY <1>1, <1>2 DEF Inv, LockInv
<1>5. LeaseInv'
  BY <1>1, <1>2 DEF Inv, LeaseInv
<1>6. LeaseExclusive'
  BY <1>1, <1>2 DEF Inv, LeaseExclusive
<1>7. SnapshotCurrent'
  BY <1>1, <1>2 DEF Inv, SnapshotCurrent, PhaseInv
<1> QED BY <1>3, <1>4, <1>5, <1>6, <1>7 DEF Inv

\* A restart keeps the invariant.
LEMMA RestartInv ==
  ASSUME Inv, TypeInv', NEW w \in Workers, Restart(w)
  PROVE  Inv'
<1>1. /\ \A u \in Workers \ {w} : /\ now'[u] = now[u] /\ startedAt'[u] = startedAt[u]
                                  /\ phase'[u] = phase[u]
      /\ phase'[w] = "idle" /\ phase[w] = "down"
      /\ UNCHANGED <<db, born, live, locked, held, loaded, snap, clock, overlapped>>
  BY DEF Restart, GoTo, dbVars, Inv, TypeInv, TypeOK
<1>2. held[w] = {} /\ locked[w] = {}
  BY <1>1 DEF Inv, PhaseInv
<1>3. PhaseInv' /\ TimeInv' /\ LockInv'
  BY <1>1, <1>2 DEF Inv, PhaseInv, TimeInv, LockInv, Busy
<1>4. LeaseInv' /\ LeaseExclusive' /\ SnapshotCurrent'
  BY <1>1, <1>2 DEF Inv, LeaseInv, LeaseExclusive, SnapshotCurrent
<1> QED BY <1>3, <1>4 DEF Inv

\* A request that writes only f's row, on behalf of no worker: either nobody
\* holds f, or f has no row any more, or f is overlapped from now on.
LEMMA ApiInv ==
  ASSUME Inv, TypeInv', NEW f \in Feeds,
         UNCHANGED <<workerVars, clock>>,
         \A g \in Feeds \ {f} : db'[g] = db[g],
         born \subseteq born',
         \A g \in Feeds \ {f} : g \in live' <=> g \in live,
         overlapped \subseteq overlapped',
         \A u \in Workers : f \in locked[u] => f \in live',
         \A u \in Workers : f \in held[u] => f \notin live' \/ f \in overlapped' \/ db'[f] = db[f],
         \A u \in Workers : f \in held[u] /\ f \in live' => f \in live
  PROVE  Inv'
<1>1. UNCHANGED <<phase, now, startedAt, locked, held, loaded, snap, clock>>
  BY DEF workerVars
<1>2. PhaseInv'
  BY <1>1 DEF Inv, PhaseInv, TypeInv, TypeOK
<1>3. TimeInv' /\ LockInv' /\ LeaseExclusive'
  BY <1>1 DEF Inv, TimeInv, LockInv, LeaseExclusive, Busy
<1>4. LeaseInv'
  BY <1>1 DEF Inv, LeaseInv, TypeInv, TypeOK
<1>5. SnapshotCurrent'
  BY <1>1 DEF Inv, SnapshotCurrent, PhaseInv, TypeInv, TypeOK
<1> QED BY <1>2, <1>3, <1>4, <1>5 DEF Inv

\* Every step keeps the inductive invariant, one case per action of Next.
LEMMA InvStep == Inv /\ [Next]_vars => Inv'
<1> SUFFICES ASSUME Inv, [Next]_vars PROVE Inv'
  OBVIOUS
<1>t. TypeInv'
  BY TypeStep DEF Inv
<1>r. live \subseteq born /\ born \subseteq Feeds /\ DOMAIN db = Feeds
  BY DEF Inv, TypeInv, TypeOK
<1>1. ASSUME NEW w \in Workers, StartTick(w) PROVE Inv'
  BY <1>1, <1>t, StartTickInv
<1>2. ASSUME NEW w \in Workers, ClaimExecute(w) PROVE Inv'
  BY <1>2, <1>t, ClaimExecuteInv
<1>3. ASSUME NEW w \in Workers, ClaimCommit(w) PROVE Inv'
  BY <1>3, <1>t, ClaimCommitInv
<1>4. ASSUME NEW w \in Workers, ClaimError(w) PROVE Inv'
  BY <1>4, <1>t, ClaimErrorInv
<1>5. ASSUME NEW w \in Workers, NEW f \in Feeds, LoadFeed(w, f) PROVE Inv'
  BY <1>5, <1>t, LoadFeedInv
<1>6. ASSUME NEW w \in Workers, NEW f \in Feeds, LoadNothing(w, f) PROVE Inv'
  BY <1>6, <1>t, EndFetchInv DEF LoadNothing, dbVars
<1>7. ASSUME NEW w \in Workers, NEW f \in Feeds, FinishFetch(w, f) PROVE Inv'
  <2>1. f \in held[w]
    BY <1>7 DEF FinishFetch, Inv, PhaseInv
  <2>2. \A g \in Feeds \ {f} : db'[g] = db[g]
    BY <1>7, <1>r DEF FinishFetch
  <2> QED BY <1>7, <1>t, <2>1, <2>2, EndFetchInv DEF FinishFetch
<1>8. ASSUME NEW w \in Workers, NEW f \in Feeds, AbortFetch(w, f) PROVE Inv'
  <2>1. f \in held[w]
    BY <1>8 DEF AbortFetch, Inv, PhaseInv
  <2> QED BY <1>8, <1>t, <2>1, EndFetchInv DEF AbortFetch, dbVars
<1>9. ASSUME NEW w \in Workers, Crash(w) PROVE Inv'
  BY <1>9, <1>t, CrashInv
<1>10. ASSUME NEW w \in Workers, Restart(w) PROVE Inv'
  BY <1>10, <1>t, RestartInv
<1>11. ASSUME NEW f \in Feeds, CreateFeed(f) PROVE Inv'
  <2>1. \A u \in Workers : f \notin held[u] /\ f \notin locked[u]
    BY <1>11, <1>r DEF CreateFeed, Inv, PhaseInv
  <2>2. \A g \in Feeds \ {f} : db'[g] = db[g]
    BY <1>11, <1>r DEF CreateFeed
  <2> QED BY <1>11, <1>t, <2>1, <2>2, ApiInv DEF CreateFeed
<1>12. ASSUME NEW f \in Feeds, DeleteFeed(f) PROVE Inv'
  <2>1. \A u \in Workers : f \notin locked[u]
    BY <1>12 DEF DeleteFeed, RowLocked
  <2>2. \A g \in Feeds \ {f} : db'[g] = db[g]
    BY <1>12, <1>r DEF DeleteFeed
  <2> QED BY <1>12, <1>t, <2>1, <2>2, ApiInv DEF DeleteFeed
<1>13. ASSUME NEW f \in Feeds, ReactivateLoad(f) PROVE Inv'
  <2>1. \A u \in Workers : f \in locked[u] => f \in live
    BY DEF Inv, PhaseInv
  <2> QED BY <1>13, <1>t, <2>1, ApiInv DEF ReactivateLoad, dbVars
<1>14. ASSUME NEW f \in Feeds, ReactivateWrite(f) PROVE Inv'
  <2>1. \A g \in Feeds \ {f} : db'[g] = db[g]
    BY <1>14, <1>r DEF ReactivateWrite
  <2>2. \A u \in Workers : f \in held[u] => f \notin live \/ f \in overlapped'
    BY <1>14 DEF ReactivateWrite, Holders
  <2>3. \A u \in Workers : f \notin locked[u]
    BY <1>14 DEF ReactivateWrite, RowLocked
  <2>4. overlapped \subseteq overlapped'
    BY <1>14 DEF ReactivateWrite
  <2> QED BY <1>14, <1>t, <2>1, <2>2, <2>3, <2>4, ApiInv DEF ReactivateWrite
<1>15. CASE Tick
  <2>1. /\ clock' = clock + 1
        /\ UNCHANGED <<db, born, live, phase, now, startedAt, locked, held, loaded, snap, overlapped>>
    BY <1>15 DEF Tick, dbVars, workerVars
  <2>2. TimeInv'
    BY <1>15, <2>1, SchedulerAssumption DEF Tick, Inv, TimeInv, Busy, TypeInv, TypeOK
  <2>3. PhaseInv' /\ LockInv' /\ LeaseInv' /\ LeaseExclusive' /\ SnapshotCurrent'
    BY <2>1 DEF Inv, PhaseInv, LockInv, LeaseInv, LeaseExclusive, SnapshotCurrent
  <2> QED BY <1>t, <2>2, <2>3 DEF Inv
<1>16. CASE UNCHANGED vars
  BY <1>16, <1>t DEF vars, dbVars, workerVars, Inv, PhaseInv, TimeInv, LockInv, LeaseInv,
    LeaseExclusive, SnapshotCurrent, Busy
<1> QED
  BY <1>1, <1>2, <1>3, <1>4, <1>5, <1>6, <1>7, <1>8, <1>9, <1>10, <1>11, <1>12, <1>13, <1>14,
     <1>15, <1>16
  DEF Next, WorkerStep, FetchStep, ApiStep

\* SKIP LOCKED, the lease and the sizing rule keep two workers off one feed, for
\* every number of workers and feeds, every batch size and every skew that the
\* TTL leaves room for, unless the feed is reactivated while it is fetched.
THEOREM LeasesAreExclusive == Spec => []LeaseExclusive
<1>1. Inv => LeaseExclusive
  BY DEF Inv
<1> QED BY <1>1, InvInit, InvStep, PTL DEF Spec

\* _process_feed's unlocked read stays valid until its commit: no worker's
\* commit overwrites an update it has not seen, unless the feed is reactivated
\* while it is fetched.
THEOREM SnapshotsStayCurrent == Spec => []SnapshotCurrent
<1>1. Inv => SnapshotCurrent
  BY DEF Inv
<1> QED BY <1>1, InvInit, InvStep, PTL DEF Spec
-----------------------------------------------------------------------------
(***************************************************************************)
(* Scheduler implements AtomicFeed, feed by feed.  One fact is needed on top *)
(* of Inv: a locked row stays the row the SELECT returned, so that it is      *)
(* still claimable when the lease is committed.                             *)
(***************************************************************************)

ClaimedInv == \A w \in Workers : \A f \in locked[w] : Claimable(db[f], now[w])

\* Every step keeps locked rows claimable: whoever else writes a row waits for
\* its lock.
LEMMA ClaimedStep ==
  ASSUME Inv, ClaimedInv, [Next]_vars
  PROVE  ClaimedInv'
<1>0. /\ db \in [Feeds -> Feed] /\ locked \in [Workers -> SUBSET Feeds]
      /\ now \in [Workers -> Nat] /\ phase \in [Workers -> {"idle", "ticking", "claiming", "fetching", "down"}]
      /\ \A w \in Workers : /\ locked[w] # {} => phase[w] = "claiming"
                            /\ locked[w] \subseteq live /\ locked[w] \subseteq born
  BY DEF Inv, TypeInv, TypeOK, PhaseInv
<1>1. ASSUME NEW w \in Workers, StartTick(w) PROVE ClaimedInv'
  BY <1>0, <1>1 DEF StartTick, ClaimedInv, dbVars
<1>2. ASSUME NEW w \in Workers, ClaimExecute(w) PROVE ClaimedInv'
  <2>1. PICK S \in Batches(w) : locked' = [locked EXCEPT ![w] = S]
    BY <1>2 DEF ClaimExecute
  <2>2. \A f \in S : Claimable(db[f], now[w])
    BY DEF Batches, Eligible
  <2>3. db' = db /\ \A u \in Workers : now'[u] = now[u]
    BY <1>0, <1>2 DEF ClaimExecute, GoTo, dbVars
  <2> QED BY <1>0, <2>1, <2>2, <2>3 DEF ClaimedInv
<1>3. ASSUME NEW w \in Workers, ClaimCommit(w) PROVE ClaimedInv'
  <2>1. /\ \A u \in Workers \ {w} : now'[u] = now[u] /\ locked'[u] = locked[u]
        /\ locked'[w] = {}
        /\ \A f \in Feeds : f \notin locked[w] => db'[f] = db[f]
    BY <1>0, <1>3 DEF ClaimCommit, GoTo
  <2>2. \A u \in Workers \ {w} : \A f \in locked[u] : f \notin locked[w] /\ f \in Feeds
    BY <1>0 DEF Inv, LockInv
  <2> QED BY <2>1, <2>2 DEF ClaimedInv
<1>4. ASSUME NEW w \in Workers, ClaimError(w) \/ Crash(w) \/ Restart(w) PROVE ClaimedInv'
  <2>1. /\ \A u \in Workers \ {w} : now'[u] = now[u] /\ locked'[u] = locked[u]
        /\ locked'[w] = {} /\ db' = db
    BY <1>0, <1>4 DEF ClaimError, Crash, Restart, GoTo, dbVars
  <2> QED BY <2>1 DEF ClaimedInv
<1>5. ASSUME NEW w \in Workers, NEW f \in Feeds, LoadFeed(w, f) PROVE ClaimedInv'
  BY <1>5 DEF LoadFeed, ClaimedInv, dbVars
<1>6. ASSUME NEW w \in Workers, NEW f \in Feeds, LoadNothing(w, f) \/ FinishFetch(w, f) \/ AbortFetch(w, f)
      PROVE  ClaimedInv'
  <2>1. f \in held[w] /\ phase[w] = "fetching"
    BY <1>6 DEF LoadNothing, FinishFetch, AbortFetch, Inv, PhaseInv
  <2>2. locked' = locked /\ locked[w] = {} /\ \A u \in Workers \ {w} : now'[u] = now[u]
    BY <1>0, <1>6, <2>1 DEF LoadNothing, FinishFetch, AbortFetch, EndFetch, GoTo
  <2>3. \A u \in Workers : \A g \in locked[u] : db'[g] = db[g]
    BY <1>0, <1>6 DEF LoadNothing, FinishFetch, AbortFetch, RowLocked, dbVars
  <2> QED BY <2>2, <2>3 DEF ClaimedInv
<1>7. ASSUME NEW f \in Feeds, ApiStep(f) PROVE ClaimedInv'
  <2>1. locked' = locked /\ now' = now
    BY <1>7 DEF ApiStep, CreateFeed, DeleteFeed, ReactivateLoad, ReactivateWrite, workerVars
  <2>2. \A u \in Workers : \A g \in locked[u] : db'[g] = db[g]
    BY <1>0, <1>7 DEF ApiStep, CreateFeed, DeleteFeed, ReactivateLoad, ReactivateWrite, RowLocked, dbVars
  <2> QED BY <2>1, <2>2 DEF ClaimedInv
<1>8. CASE Tick \/ UNCHANGED vars
  BY <1>8 DEF Tick, vars, dbVars, workerVars, ClaimedInv
<1> QED BY <1>1, <1>2, <1>3, <1>4, <1>5, <1>6, <1>7, <1>8 DEF Next, WorkerStep, FetchStep

\* AtomicFeed is about the same handlers: its copies of the operators of
\* FeedLifecycle are these.
LEMMA SameClaim ==
  ASSUME NEW f, NEW feed, NEW t
  PROVE  /\ Atomic(f)!Claimable(feed, t) = Claimable(feed, t)
         /\ Atomic(f)!Leased(feed, t) = Leased(feed, t)
BY DEF Atomic!Leased, Leased, Atomic!Claimable, Claimable, Atomic!Null, Null

\* create_feed and reactivate_feed.
LEMMA SameApi ==
  ASSUME NEW f, NEW feed, NEW t, NEW u
  PROVE  /\ Atomic(f)!NewFeed(t, u) = NewFeed(t, u)
         /\ Atomic(f)!Reactivated(feed, t) = Reactivated(feed, t)
BY DEF Atomic!NewFeed, NewFeed, Atomic!Reactivated, Reactivated, Atomic!Null, Null

\* The timer of policy.py.
LEMMA SameTimer ==
  ASSUME NEW f, NEW feed, NEW t, NEW w, NEW h, NEW j
  PROVE  Atomic(f)!Rescheduled(feed, t, w, h, j) = Rescheduled(feed, t, w, h, j)
BY DEF Atomic!Rescheduled, Rescheduled, Atomic!ComputeNextFetchAt, ComputeNextFetchAt,
       Atomic!Backoff, Backoff, Atomic!PollInterval, PollInterval, Atomic!Larger, Larger,
       Atomic!Smaller, Smaller

\* A 200 and a 304.
LEMMA SameSuccess ==
  ASSUME NEW f, NEW feed, NEW t, NEW r
  PROVE  /\ Atomic(f)!OnSuccess(feed, t, r) = OnSuccess(feed, t, r)
         /\ Atomic(f)!OnNotModified(feed, t) = OnNotModified(feed, t)
BY DEF Atomic!OnSuccess, OnSuccess, Atomic!MarkFetchSuccess, MarkFetchSuccess,
       Atomic!OnNotModified, OnNotModified

\* A failure and a 429.
LEMMA SameFailure ==
  ASSUME NEW f, NEW feed, NEW t, NEW c, NEW h
  PROVE  /\ Atomic(f)!MarkFetchFailure(feed, t, c) = MarkFetchFailure(feed, t, c)
         /\ Atomic(f)!OnRateLimited(feed, t, h) = OnRateLimited(feed, t, h)
BY DEF Atomic!MarkFetchFailure, MarkFetchFailure, Atomic!SinceSuccess, SinceSuccess,
       Atomic!Null, Null, Atomic!OnRateLimited, OnRateLimited, Atomic!Larger, Larger

\* The whole of fetch_one.
LEMMA SameFetch ==
  ASSUME NEW f, NEW feed, NEW t, NEW r, NEW w, NEW j
  PROVE  Atomic(f)!FetchOne(feed, t, r, w, j) = FetchOne(feed, t, r, w, j)
BY SameTimer, SameSuccess, SameFailure, Zenon DEF Atomic!FetchOne, FetchOne

\* What a server may answer.
LEMMA SameResponses ==
  ASSUME NEW f, NEW feed
  PROVE  Atomic(f)!Responses(feed) = Responses(feed)
BY DEF Atomic!Responses, Responses, Atomic!AnyResponse, AnyResponse, Atomic!Success, Success,
       Atomic!NotModified, NotModified, Atomic!RateLimited, RateLimited, Atomic!Failure, Failure

\* The ORM's UPDATE of a row nobody else has changed writes the session's object.
LEMMA MergedWithItself ==
  ASSUME NEW row \in Feed, NEW mine \in Feed
  PROVE  Merged(row, row, mine) = mine
<1> DEFINE m == Merged(row, row, mine)
<1>1. m \in Feed
  BY MergedType
<1>2. /\ m.status = mine.status /\ m.consecutive_failures = mine.consecutive_failures
      /\ m.last_error_code = mine.last_error_code /\ m.next_fetch_at = mine.next_fetch_at
      /\ m.last_attempt_at = mine.last_attempt_at /\ m.created_at = mine.created_at
      /\ m.last_successful_fetch_at = mine.last_successful_fetch_at
      /\ m.validator = mine.validator
  BY DEF Merged, Feed
<1> HIDE DEF m
<1> QED BY <1>1, <1>2 DEF Feed, m

\* What StepsAreAtomic asks of a step, for feed f.
AtomicStep(f) == Atomic(f)!FeedStep \/ UNCHANGED <<db[f], StageOf(f)>>

\* A feed is let go of by the worker that held it, who was the only one.
LEMMA LetGo ==
  ASSUME Inv, NEW w \in Workers, NEW f \in held[w], f \notin overlapped,
         \A u \in Workers \ {w} : held'[u] = held[u], f \notin held'[w]
  PROVE  Holders(f) # {} /\ Holders(f)' = {}
<1>1. f \in Feeds \ overlapped
  BY DEF Inv, TypeInv, TypeOK
<1>2. \A u \in Workers : f \in held[u] => u = w
  BY <1>1 DEF Inv, LeaseExclusive
<1> QED BY <1>2 DEF Holders

\* ClaimCommit is a Claim of every feed it leases.
LEMMA ClaimIsAtomic ==
  ASSUME Inv, ClaimedInv, NEW w \in Workers, ClaimCommit(w), NEW f \in Feeds, f \notin overlapped
  PROVE  AtomicStep(f)
<1>1. /\ \A u \in Workers \ {w} : held'[u] = held[u]
      /\ held'[w] = locked[w] /\ born' = born /\ live' = live
  BY DEF ClaimCommit, Inv, TypeInv, TypeOK
<1>2. phase[w] = "claiming" /\ held[w] = {}
  BY DEF ClaimCommit, Inv, PhaseInv
<1>3. CASE f \in locked[w]
  <2>1. f \in live /\ f \in born /\ Holders(f) = {} /\ Holders(f)' # {}
    BY <1>1, <1>3 DEF Inv, LockInv, PhaseInv, TypeInv, TypeOK, Holders
  <2>2. StageOf(f) = "idle" /\ StageOf(f)' = "leased"
    BY <1>1, <2>1 DEF StageOf
  <2>3. Claimable(db[f], now[w]) /\ db'[f] = Leased(db[f], now[w])
    BY <1>3 DEF ClaimedInv, ClaimCommit
  <2>4. now[w] \in 0..(clock + Skew)
    BY <1>2, SchedulerAssumption DEF Inv, TimeInv, Busy, TypeInv, TypeOK
  <2>5. Atomic(f)!Claim
    BY <2>2, <2>3, <2>4, SameClaim DEF Atomic!Claim
  <2> QED BY <2>5 DEF AtomicStep, Atomic!FeedStep
<1>4. CASE f \notin locked[w]
  <2>1. db'[f] = db[f]
    BY <1>4 DEF ClaimCommit
  <2>2. Holders(f)' = Holders(f)
    BY <1>1, <1>2, <1>4 DEF Holders
  <2>3. StageOf(f)' = StageOf(f)
    BY <1>1, <2>2 DEF StageOf
  <2> QED BY <2>1, <2>3 DEF AtomicStep
<1> QED BY <1>3, <1>4

\* A worker that gives up a live feed without writing abandons it; a feed that
\* was deleted meanwhile stays deleted.
LEMMA AbandonIsAtomic ==
  ASSUME Inv, NEW w \in Workers, NEW f \in Feeds, f \notin overlapped, UNCHANGED dbVars,
         \A u \in Workers \ {w} : held'[u] = held[u],
         f \in held'[w] <=> f \in held[w] /\ f \in held'[w]
  PROVE  AtomicStep(f)
<1>1. db'[f] = db[f] /\ live' = live /\ born' = born
  BY DEF dbVars
<1>2. CASE f \in held[w] /\ f \notin held'[w] /\ f \in live
  <2>1. Holders(f) # {} /\ Holders(f)' = {}
    BY <1>2, LetGo
  <2>2. StageOf(f) = "leased" /\ StageOf(f)' = "idle"
    BY <1>1, <1>2, <2>1 DEF StageOf, Inv, TypeInv, TypeOK
  <2>3. Atomic(f)!Abandon
    BY <1>1, <2>2 DEF Atomic!Abandon
  <2> QED BY <2>3 DEF AtomicStep, Atomic!FeedStep
<1>3. CASE f \notin live
  BY <1>1, <1>3 DEF StageOf, AtomicStep
<1>4. CASE f \in held'[w] <=> f \in held[w]
  <2>1. Holders(f)' = Holders(f)
    BY <1>4 DEF Holders
  <2> QED BY <1>1, <2>1 DEF StageOf, AtomicStep
<1> QED BY <1>2, <1>3, <1>4

\* The commit of a fetch is a Complete: the row is still the one that was
\* loaded, and the lease is the instant of the tick.
LEMMA FinishIsAtomic ==
  ASSUME Inv, NEW w \in Workers, NEW f \in Feeds, FinishFetch(w, f), f \notin overlapped
  PROVE  AtomicStep(f)
<1>1. /\ f \in loaded[w] /\ f \in held[w] /\ f \in live /\ f \in born
      /\ born' = born /\ live' = live
  BY DEF FinishFetch, Inv, PhaseInv, TypeInv, TypeOK
<1>2. db[f] \in Feed /\ db[f] = snap[w][f] /\ db[f].last_attempt_at = now[w] /\ now[w] \in Int
  BY <1>1 DEF Inv, SnapshotCurrent, LeaseInv, TypeInv, TypeOK
<1>3. Holders(f) # {} /\ Holders(f)' = {}
  <2>1. f \notin held'[w] /\ \A u \in Workers \ {w} : held'[u] = held[u]
    BY DEF FinishFetch, EndFetch, Inv, TypeInv, TypeOK
  <2> QED BY <1>1, <2>1, LetGo
<1>4. StageOf(f) = "leased" /\ StageOf(f)' = "idle"
  BY <1>1, <1>3 DEF StageOf
<1>5. PICK r \in Responses(db[f]), n \in WeeklyCounts, j \in Jitters :
        db' = [db EXCEPT ![f] = Merged(db[f], db[f], FetchOne(db[f], now[w], r, n, j))]
  BY <1>2 DEF FinishFetch, Inv, TypeInv, TypeOK
<1>6. FetchOne(db[f], now[w], r, n, j) \in Feed
  BY <1>2, ResponsesType, FetchOneType
<1>7. db'[f] = FetchOne(db[f], db[f].last_attempt_at, r, n, j)
  BY <1>2, <1>5, <1>6, MergedWithItself DEF Inv, TypeInv, TypeOK
<1>8. Atomic(f)!Complete
  BY <1>4, <1>5, <1>7, SameFetch, SameResponses DEF Atomic!Complete
<1> QED BY <1>8 DEF AtomicStep, Atomic!FeedStep

\* The requests of the API, on a feed that nobody is fetching or has fetched
\* since the request loaded it.
LEMMA ApiIsAtomic ==
  ASSUME Inv, NEW f \in Feeds, ApiStep(f), Undisturbed(f), f \notin overlapped'
  PROVE  AtomicStep(f)
<1>1. held' = held /\ Holders(f)' = Holders(f) /\ db \in [Feeds -> Feed]
  BY DEF ApiStep, CreateFeed, DeleteFeed, ReactivateLoad, ReactivateWrite, workerVars, Holders,
         Inv, TypeInv, TypeOK
<1>2. Atomic(f)!Readings = Readings
  BY DEF Atomic!Readings, Readings
<1>3. CASE CreateFeed(f)
  <2>1. PICK t \in Readings : db' = [db EXCEPT ![f] = NewFeed(clock, t)]
    BY <1>3 DEF CreateFeed
  <2>2. f \notin born /\ f \in born' /\ f \in live' /\ Holders(f) = {}
    BY <1>3 DEF CreateFeed, Inv, PhaseInv, Holders
  <2>3. StageOf(f) = "absent" /\ StageOf(f)' = "idle"
    BY <1>1, <2>2 DEF StageOf
  <2>4. db'[f] = NewFeed(clock, t)
    BY <1>1, <2>1
  <2>5. Atomic(f)!Create
    BY <1>2, <2>1, <2>3, <2>4, SameApi DEF Atomic!Create
  <2> QED BY <2>5 DEF AtomicStep, Atomic!FeedStep
<1>4. CASE DeleteFeed(f)
  <2>1. f \in born' /\ f \in born /\ f \in live /\ f \notin live' /\ db'[f] = NewFeed(0, 0)
    BY <1>1, <1>4 DEF DeleteFeed, NoRow, Inv, TypeInv, TypeOK
  <2>2. StageOf(f) \in {"idle", "leased"} /\ StageOf(f)' = "deleted"
    BY <2>1 DEF StageOf
  <2>3. Atomic(f)!Delete
    BY <2>1, <2>2, SameApi DEF Atomic!Delete
  <2> QED BY <2>3 DEF AtomicStep, Atomic!FeedStep
<1>5. CASE ReactivateLoad(f)
  <2>1. db' = db /\ born' = born /\ live' = live
    BY <1>5 DEF ReactivateLoad, dbVars
  <2> QED BY <1>1, <2>1 DEF StageOf, AtomicStep
<1>6. CASE ReactivateWrite(f)
  <2>1. born' = born /\ live' = live /\ StageOf(f)' = StageOf(f)
    BY <1>1, <1>6 DEF ReactivateWrite, StageOf
  <2>2. CASE f \notin live
    BY <1>6, <2>1, <2>2 DEF ReactivateWrite, AtomicStep
  <2>3. CASE f \in live
    <3>1. f \in born /\ Holders(f) = {} /\ apiRow[f] = db[f] /\ db[f] \in Feed
      BY <1>1, <1>6, <2>3 DEF ReactivateWrite, Undisturbed, Inv, TypeInv, TypeOK
    <3>2. StageOf(f) = "idle"
      BY <2>3, <3>1 DEF StageOf
    <3>3. PICK t \in Readings :
            db' = [db EXCEPT ![f] = [Merged(db[f], apiRow[f], Reactivated(apiRow[f], t))
                                       EXCEPT !.next_fetch_at = t]]
      BY <1>1, <1>6, <2>3 DEF ReactivateWrite
    <3> DEFINE mine == Reactivated(db[f], t)
    <3>4. t \in Int
      BY ReadingsType DEF Inv
    <3>5. mine \in Feed /\ mine.next_fetch_at = t
      BY <3>1, <3>4, ReactivatedType DEF Reactivated, Feed
    <3>6. Merged(db[f], db[f], mine) = mine
      BY <3>1, <3>5, MergedWithItself
    <3> HIDE DEF mine
    <3>7. [mine EXCEPT !.next_fetch_at = t] = mine
      BY <3>5 DEF Feed
    <3>8. db'[f] = mine
      BY <1>1, <3>1, <3>3, <3>6, <3>7 DEF mine
    <3>9. Atomic(f)!Reactivate
      BY <1>2, <2>1, <3>2, <3>8, SameApi DEF Atomic!Reactivate, mine
    <3> QED BY <3>9 DEF AtomicStep, Atomic!FeedStep
  <2> QED BY <2>2, <2>3
<1> QED BY <1>3, <1>4, <1>5, <1>6 DEF ApiStep

\* Every step is an abstract step of each undisturbed feed, or leaves it alone.
LEMMA StepIsAtomic ==
  ASSUME Inv, ClaimedInv, Next, NEW f \in Feeds, Undisturbed(f), f \notin overlapped'
  PROVE  AtomicStep(f)
<1>0. /\ f \notin overlapped /\ db \in [Feeds -> Feed] /\ held \in [Workers -> SUBSET Feeds]
      /\ \A w \in Workers : loaded[w] \subseteq held[w]
  BY DEF Undisturbed, Inv, TypeInv, TypeOK, PhaseInv
<1>u. ASSUME db'[f] = db[f], f \in born' <=> f \in born, f \in live' <=> f \in live, held' = held
      PROVE  AtomicStep(f)
  BY <1>u DEF AtomicStep, StageOf, Holders
<1>1. ASSUME NEW w \in Workers,
             \/ StartTick(w) \/ ClaimExecute(w) \/ ClaimError(w) \/ Restart(w)
             \/ \E g \in Feeds : LoadFeed(w, g)
      PROVE  AtomicStep(f)
  BY <1>1, <1>u DEF StartTick, ClaimExecute, ClaimError, Restart, LoadFeed, dbVars
<1>2. ASSUME NEW w \in Workers, ClaimCommit(w) PROVE AtomicStep(f)
  BY <1>0, <1>2, ClaimIsAtomic
<1>3. ASSUME NEW w \in Workers, NEW g \in Feeds, LoadNothing(w, g) \/ AbortFetch(w, g)
      PROVE  AtomicStep(f)
  <2>1. /\ UNCHANGED dbVars /\ held' = [held EXCEPT ![w] = @ \ {g}]
    BY <1>3 DEF LoadNothing, AbortFetch, EndFetch
  <2> QED BY <1>0, <2>1, AbandonIsAtomic
<1>4. ASSUME NEW w \in Workers, NEW g \in Feeds, FinishFetch(w, g) PROVE AtomicStep(f)
  <2>1. CASE g = f
    BY <1>0, <1>4, <2>1, FinishIsAtomic
  <2>2. CASE g # f
    <3>1. db'[f] = db[f] /\ born' = born /\ live' = live /\ held' = [held EXCEPT ![w] = @ \ {g}]
      BY <1>0, <1>4, <2>2 DEF FinishFetch, EndFetch
    <3>2. Holders(f)' = Holders(f)
      BY <1>0, <2>2, <3>1 DEF Holders
    <3> QED BY <3>1, <3>2 DEF AtomicStep, StageOf
  <2> QED BY <2>1, <2>2
<1>5. ASSUME NEW w \in Workers, Crash(w) PROVE AtomicStep(f)
  <2>1. UNCHANGED dbVars /\ held' = [held EXCEPT ![w] = {}]
    BY <1>5 DEF Crash
  <2> QED BY <1>0, <2>1, AbandonIsAtomic
<1>6. ASSUME NEW g \in Feeds, ApiStep(g) PROVE AtomicStep(f)
  <2>1. CASE g = f
    BY <1>6, <2>1, ApiIsAtomic
  <2>2. CASE g # f
    <3>1. /\ db'[f] = db[f] /\ (f \in born' <=> f \in born) /\ (f \in live' <=> f \in live)
          /\ held' = held
      BY <1>0, <1>6, <2>2
      DEF ApiStep, CreateFeed, DeleteFeed, ReactivateLoad, ReactivateWrite, workerVars, dbVars
    <3> QED BY <1>u, <3>1
  <2> QED BY <2>1, <2>2
<1>7. CASE Tick
  BY <1>7, <1>u DEF Tick, dbVars, workerVars
<1> QED BY <1>1, <1>2, <1>3, <1>4, <1>5, <1>6, <1>7 DEF Next, WorkerStep, FetchStep

\* scheduler.tick_once, fetch_one and the ORM: the interleaved sessions of any
\* number of workers implement AtomicFeed for every feed that is not
\* reactivated under a fetch, step by step.
THEOREM SchedulerImplementsFeed == Spec => StepsAreAtomic
<1>1. Init => ClaimedInv
  BY DEF Init, ClaimedInv
<1>2. Inv /\ ClaimedInv /\ [Next]_vars => ClaimedInv'
  BY ClaimedStep
<1>3. Inv /\ ClaimedInv /\ [Next]_vars =>
        [\A f \in Feeds : (Undisturbed(f) /\ f \notin overlapped') => AtomicStep(f)]_vars
  BY StepIsAtomic
<1> QED BY <1>1, <1>2, <1>3, InvInit, InvStep, PTL DEF Spec, StepsAreAtomic, AtomicStep
-----------------------------------------------------------------------------
(***************************************************************************)
(* Nobody starves.  A claim orders by next_fetch_at, and what it takes gets  *)
(* the instant of the claim as its last_attempt_at and a later next_fetch_at: *)
(* it is behind the waiting feed from then on.  OrderInv bounds the claims    *)
(* counted ahead of a feed by the number of feeds behind it.                *)
(***************************************************************************)

\* A jitter leaves something of the backoff: backoff_jitter_ratio is below 1.
\* config.py does not check it; at 1 a feed may be due again at once.
JitterBelowBackoff == \A n \in Nat, j \in Jitters : Backoff(n, j) > 0

\* The next attempt on a feed lies after the last one.
LaterInv == \A f \in live : db[f].last_attempt_at < db[f].next_fetch_at

\* g comes after f in the queue for as long as f waits, or is gone.
Behind(g, f) ==
  \/ g \in born \ live
  \/ \E w \in Workers : g \in locked[w] /\ db[f].next_fetch_at <= now[w]
  \/ g \in live /\ db[f].next_fetch_at <= db[g].last_attempt_at

FeedsBehind(f) == {g \in Feeds \ {f} : Behind(g, f)}

AheadInv == \A f \in Feeds : ahead[f] <= Cardinality(FeedsBehind(f)) + BatchSize * faults

BatchInv == \A w \in Workers : Cardinality(locked[w]) <= BatchSize

OrderInv ==
  /\ ahead \in [Feeds -> Nat]
  /\ BatchInv
  /\ reactivations = 0 => api = {} /\ overlapped = {} /\ LaterInv /\ AheadInv

\* compute_next_fetch_at lies in the future.
LEMMA RescheduledLater ==
  ASSUME JitterBelowBackoff, NEW feed \in Feed, NEW t \in Int, NEW weekly \in Nat,
         NEW hint \in Nat, NEW j \in Jitters
  PROVE  /\ Rescheduled(feed, t, weekly, hint, j).next_fetch_at > t
         /\ Rescheduled(feed, t, weekly, hint, j).last_attempt_at = feed.last_attempt_at
<1>1. /\ Rescheduled(feed, t, weekly, hint, j).next_fetch_at
           = ComputeNextFetchAt(feed, t, weekly, hint, j)
      /\ Rescheduled(feed, t, weekly, hint, j).last_attempt_at = feed.last_attempt_at
  BY DEF Rescheduled, Feed
<1>2. feed.consecutive_failures \in Nat /\ j \in Int
  BY LifecycleAssumption DEF Feed
<1>3. /\ Backoff(feed.consecutive_failures, j) \in Int
      /\ Backoff(feed.consecutive_failures, j) > 0
  BY <1>2, BackoffType DEF JitterBelowBackoff
<1>4. PollInterval(weekly, hint) \in Int /\ PollInterval(weekly, hint) > 0
  <2>1. ASSUME NEW x \in Int PROVE Larger(FrequencyMin, x) > 0 /\ Larger(FrequencyMin, x) \in Int
    BY LifecycleAssumption DEF Larger
  <2>2. ASSUME NEW x \in Int, x > 0 PROVE Larger(x, hint) > 0 /\ Larger(x, hint) \in Int
    BY <2>2 DEF Larger
  <2> DEFINE frequency == Larger(FrequencyMin, Smaller(Week \div (weekly * FrequencyFactor), FrequencyMax))
  <2>3. CASE weekly > 0
    <3>1. weekly * FrequencyFactor \in Nat \ {0}
      BY <2>3, LifecycleAssumption
    <3>2. Week \div (weekly * FrequencyFactor) \in Int
      BY <3>1, LifecycleAssumption
    <3>3. Smaller(Week \div (weekly * FrequencyFactor), FrequencyMax) \in Int
      BY <3>2, LifecycleAssumption DEF Smaller
    <3>4. frequency > 0 /\ frequency \in Int
      BY <2>1, <3>3
    <3>5. PollInterval(weekly, hint) = Larger(frequency, hint)
      BY <2>3 DEF PollInterval
    <3> HIDE DEF frequency
    <3> QED BY <2>2, <3>4, <3>5
  <2>4. CASE ~(weekly > 0)
    <3>1. PollInterval(weekly, hint) = Larger(BaseInterval, hint)
      BY <2>4 DEF PollInterval
    <3> QED BY <2>2, <3>1, LifecycleAssumption
  <2> QED BY <2>3, <2>4
<1>5. ComputeNextFetchAt(feed, t, weekly, hint, j) > t
  BY <1>3, <1>4 DEF ComputeNextFetchAt
<1> QED BY <1>1, <1>5

\* fetch_one leaves a timer after the attempt it records, whichever branch it
\* takes, for dead feeds as well.
LEMMA FetchOneLater ==
  ASSUME JitterBelowBackoff, NEW feed \in Feed, NEW t \in Int, NEW r \in Responses(feed),
         NEW weekly \in WeeklyCounts, NEW j \in Jitters
  PROVE  /\ FetchOne(feed, t, r, weekly, j).last_attempt_at = t
         /\ FetchOne(feed, t, r, weekly, j).next_fetch_at > t
<1> DEFINE new == FetchOne(feed, t, r, weekly, j)
           tried == [feed EXCEPT !.last_attempt_at = t]
<1>1. tried \in Feed /\ tried.last_attempt_at = t /\ weekly \in Nat
  BY LifecycleAssumption DEF Feed
<1>2. /\ r \in Response /\ r.hint \in Nat /\ r.code \in ErrorCode /\ r.validator \in BOOLEAN
      /\ r.kind \in {"success", "not_modified", "rate_limited", "failure"}
  <2>1. r \in Response
    BY ResponsesType, Zenon
  <2> QED BY <2>1, LifecycleAssumption DEF Response
<1>3. ASSUME NEW done \in Feed, done.last_attempt_at = t, NEW hint \in Nat,
             new = Rescheduled(done, t, weekly, hint, j)
      PROVE  new.last_attempt_at = t /\ new.next_fetch_at > t
  <2> HIDE DEF new
  <2> QED BY <1>1, <1>3, RescheduledLater
<1>4. new = CASE r.kind = "success" ->
                   Rescheduled(OnSuccess(tried, t, r), t, weekly, r.hint, j)
              [] r.kind = "not_modified" ->
                   Rescheduled(OnNotModified(tried, t), t, weekly, r.hint, j)
              [] r.kind = "rate_limited" -> OnRateLimited(tried, t, r.hint)
              [] r.kind = "failure" ->
                   Rescheduled(MarkFetchFailure(tried, t, r.code), t, weekly, 0, j)
  BY DEF FetchOne
<1> HIDE DEF tried, new
<1>5. CASE r.kind = "success"
  <2>1. OnSuccess(tried, t, r) \in Feed /\ OnSuccess(tried, t, r).last_attempt_at = t
    BY <1>1, <1>2 DEF OnSuccess, MarkFetchSuccess, Feed, FeedStatus, ErrorCode
  <2>2. new = Rescheduled(OnSuccess(tried, t, r), t, weekly, r.hint, j)
    BY <1>4, <1>5
  <2> QED BY <1>2, <1>3, <2>1, <2>2 DEF new
<1>6. CASE r.kind = "not_modified"
  <2>1. OnNotModified(tried, t) \in Feed /\ OnNotModified(tried, t).last_attempt_at = t
    BY <1>1 DEF OnNotModified, Feed, FeedStatus, ErrorCode
  <2>2. new = Rescheduled(OnNotModified(tried, t), t, weekly, r.hint, j)
    BY <1>4, <1>6
  <2> QED BY <1>2, <1>3, <2>1, <2>2 DEF new
<1>7. CASE r.kind = "rate_limited"
  <2>1. new = OnRateLimited(tried, t, r.hint)
    BY <1>4, <1>7
  <2>2. new.last_attempt_at = t /\ new.next_fetch_at = t + Larger(r.hint, BaseInterval)
    BY <1>1, <2>1 DEF OnRateLimited, Feed
  <2>3. new.next_fetch_at > t
    BY <1>2, <2>2, LifecycleAssumption DEF Larger
  <2> QED BY <2>2, <2>3 DEF new
<1>8. CASE r.kind = "failure"
  <2>1. MarkFetchFailure(tried, t, r.code) \in Feed
    BY <1>1, <1>2, MarkFetchFailureType
  <2>2. MarkFetchFailure(tried, t, r.code).last_attempt_at = t
    BY <1>1 DEF MarkFetchFailure, Feed
  <2>3. new = Rescheduled(MarkFetchFailure(tried, t, r.code), t, weekly, 0, j)
    BY <1>4, <1>8
  <2> QED BY <1>3, <2>1, <2>2, <2>3 DEF new
<1> QED BY <1>2, <1>5, <1>6, <1>7, <1>8 DEF new

\* What a fetch writes, when nobody reactivated its feed: the attempt its claim
\* recorded and a later timer.
LEMMA FinishedRow ==
  ASSUME JitterBelowBackoff, Inv, NEW w \in Workers, NEW f \in Feeds, FinishFetch(w, f),
         f \notin overlapped
  PROVE  /\ \A g \in Feeds \ {f} : db'[g] = db[g]
         /\ db'[f].last_attempt_at = db[f].last_attempt_at
         /\ db'[f].last_attempt_at < db'[f].next_fetch_at
<1>1. /\ f \in held[w] /\ f \in live /\ db[f] = snap[w][f] /\ db[f].last_attempt_at = now[w]
      /\ db \in [Feeds -> Feed] /\ now[w] \in Int /\ db[f] \in Feed
  BY DEF FinishFetch, Inv, PhaseInv, SnapshotCurrent, LeaseInv, TypeInv, TypeOK
<1>2. PICK r \in Responses(db[f]), n \in WeeklyCounts, j \in Jitters :
        db' = [db EXCEPT ![f] = Merged(db[f], db[f], FetchOne(db[f], now[w], r, n, j))]
  BY <1>1 DEF FinishFetch
<1>3. FetchOne(db[f], now[w], r, n, j) \in Feed
  BY <1>1, ResponsesType, FetchOneType
<1>4. db' = [db EXCEPT ![f] = FetchOne(db[f], now[w], r, n, j)]
  BY <1>1, <1>2, <1>3, MergedWithItself
<1> QED BY <1>1, <1>4, FetchOneLater

\* A claim commits over rows that were due: their last attempt lies before it.
LEMMA ClaimedRows ==
  ASSUME Inv, ClaimedInv, LaterInv, NEW w \in Workers, ClaimCommit(w)
  PROVE  /\ \A g \in Feeds \ locked[w] : db'[g] = db[g]
         /\ \A g \in locked[w] : /\ db[g].last_attempt_at <= now[w]
                                 /\ db'[g].last_attempt_at = now[w]
                                 /\ db'[g].last_attempt_at < db'[g].next_fetch_at
<1>1. /\ db \in [Feeds -> Feed] /\ now[w] \in Nat /\ locked[w] \subseteq Feeds
      /\ locked[w] \subseteq live
  BY DEF Inv, TypeInv, TypeOK, PhaseInv
<1>2. db' = [g \in Feeds |-> IF g \in locked[w] THEN Leased(db[g], now[w]) ELSE db[g]]
  BY DEF ClaimCommit
<1>3. ASSUME NEW g \in locked[w]
      PROVE  /\ db[g].last_attempt_at <= now[w]
             /\ db'[g].last_attempt_at = now[w]
             /\ db'[g].last_attempt_at < db'[g].next_fetch_at
  <2>1. /\ db[g] \in Feed /\ db[g].last_attempt_at \in Int /\ db[g].next_fetch_at \in Int
        /\ db'[g] = Leased(db[g], now[w])
    BY <1>1, <1>2 DEF Feed
  <2>2. db'[g].last_attempt_at = now[w] /\ db'[g].next_fetch_at = now[w] + ClaimTTL
    BY <2>1 DEF Leased, Feed
  <2>3. Claimable(db[g], now[w]) /\ db[g].last_attempt_at < db[g].next_fetch_at
    BY <1>1 DEF ClaimedInv, LaterInv
  <2>4. db[g].last_attempt_at <= now[w]
    BY <1>1, <2>1, <2>3, LifecycleAssumption DEF Claimable, Null
  <2>5. now[w] < now[w] + ClaimTTL
    BY <1>1, LifecycleAssumption
  <2> QED BY <2>2, <2>4, <2>5
<1> QED BY <1>1, <1>2, <1>3

\* Every step but a reactivation leaves the next attempt after the last.
LEMMA LaterStep ==
  ASSUME JitterBelowBackoff, Inv, ClaimedInv, LaterInv, Next, api = {}, overlapped = {}
  PROVE  LaterInv'
<1>0. db \in [Feeds -> Feed] /\ live \subseteq Feeds /\ clock \in Nat
  BY DEF Inv, TypeInv, TypeOK
<1>1. ASSUME NEW w \in Workers, ClaimCommit(w) PROVE LaterInv'
  <2>1. live' = live
    BY <1>1 DEF ClaimCommit
  <2> QED BY <1>0, <1>1, <2>1, ClaimedRows DEF LaterInv
<1>2. ASSUME NEW w \in Workers, NEW f \in Feeds, FinishFetch(w, f) PROVE LaterInv'
  <2>1. live' = live
    BY <1>2 DEF FinishFetch
  <2> QED BY <1>0, <1>2, <2>1, FinishedRow DEF LaterInv
<1>3. ASSUME NEW f \in Feeds, CreateFeed(f) PROVE LaterInv'
  <2>1. PICK t \in Readings : db' = [db EXCEPT ![f] = NewFeed(clock, t)]
    BY <1>3 DEF CreateFeed
  <2>2. t \in Nat
    BY ReadingsType DEF Inv
  <2>3. db'[f].last_attempt_at < db'[f].next_fetch_at
    BY <1>0, <2>1, <2>2 DEF NewFeed, Null
  <2>4. live' = live \cup {f} /\ \A g \in Feeds \ {f} : db'[g] = db[g]
    BY <1>0, <1>3, <2>1 DEF CreateFeed
  <2> QED BY <1>0, <2>3, <2>4 DEF LaterInv
<1>4. ASSUME NEW f \in Feeds, DeleteFeed(f) PROVE LaterInv'
  <2>1. live' = live \ {f} /\ \A g \in Feeds \ {f} : db'[g] = db[g]
    BY <1>0, <1>4 DEF DeleteFeed
  <2> QED BY <1>0, <2>1 DEF LaterInv
<1>5. CASE live' = live /\ db' = db
  BY <1>5 DEF LaterInv
<1>6. ASSUME NEW w \in Workers, NEW f \in Feeds, FetchStep(w, f), ~FinishFetch(w, f) PROVE LaterInv'
  <2>1. live' = live /\ db' = db
    BY <1>6 DEF FetchStep, LoadFeed, LoadNothing, AbortFetch, dbVars
  <2> QED BY <1>5, <2>1
<1>7. ASSUME NEW w \in Workers,
             StartTick(w) \/ ClaimExecute(w) \/ ClaimError(w) \/ Crash(w) \/ Restart(w)
      PROVE  LaterInv'
  <2>1. live' = live /\ db' = db
    BY <1>7 DEF StartTick, ClaimExecute, ClaimError, Crash, Restart, dbVars
  <2> QED BY <1>5, <2>1
<1>8. ASSUME NEW f \in Feeds, ReactivateLoad(f) \/ ReactivateWrite(f) PROVE LaterInv'
  <2>1. live' = live /\ db' = db
    BY <1>8 DEF ReactivateLoad, ReactivateWrite, dbVars
  <2> QED BY <1>5, <2>1
<1>9. CASE Tick
  BY <1>5, <1>9 DEF Tick, dbVars
<1> QED BY <1>1, <1>2, <1>3, <1>4, <1>6, <1>7, <1>8, <1>9 DEF Next, WorkerStep, ApiStep

\* A feed that is behind a waiting one stays behind it, unless the claim that
\* took it is rolled back.
LEMMA BehindKept ==
  ASSUME JitterBelowBackoff, Inv, ClaimedInv, LaterInv, Next, api = {}, overlapped = {},
         NEW f \in Feeds, NEW g \in Feeds, db'[f] = db[f], Behind(g, f),
         \A w \in Workers : g \in locked[w] => ~ClaimError(w) /\ ~Crash(w)
  PROVE  Behind(g, f)'
<1>0. /\ db \in [Feeds -> Feed] /\ locked \in [Workers -> SUBSET Feeds] /\ now \in [Workers -> Nat]
      /\ \A w \in Workers : locked[w] # {} => phase[w] = "claiming"
      /\ \A w \in Workers : locked[w] \subseteq live
      /\ live \subseteq born /\ born \subseteq Feeds
  BY DEF Inv, TypeInv, TypeOK, PhaseInv
<1>1. ASSUME born' = born, live' = live,
             db'[g].last_attempt_at = db[g].last_attempt_at,
             \A w \in Workers : g \in locked[w] => g \in locked'[w] /\ now'[w] = now[w]
      PROVE  Behind(g, f)'
  BY <1>1 DEF Behind
<1>2. ASSUME NEW w \in Workers, StartTick(w) \/ ClaimExecute(w) \/ Restart(w)
      PROVE  Behind(g, f)'
  <2>1. UNCHANGED dbVars /\ phase[w] # "claiming" /\ locked[w] = {}
    BY <1>0, <1>2 DEF StartTick, ClaimExecute, Restart
  <2>2. \A u \in Workers \ {w} : locked'[u] = locked[u] /\ now'[u] = now[u]
    BY <1>0, <1>2 DEF StartTick, ClaimExecute, Restart, GoTo
  <2> QED BY <1>1, <2>1, <2>2 DEF dbVars
<1>3. ASSUME NEW w \in Workers, ClaimError(w) \/ Crash(w) PROVE Behind(g, f)'
  <2>1. UNCHANGED dbVars /\ g \notin locked[w]
    BY <1>3 DEF ClaimError, Crash
  <2>2. \A u \in Workers \ {w} : locked'[u] = locked[u] /\ now'[u] = now[u]
    BY <1>0, <1>3 DEF ClaimError, Crash, GoTo
  <2> QED BY <1>1, <2>1, <2>2 DEF dbVars
<1>4. ASSUME NEW w \in Workers, ClaimCommit(w) PROVE Behind(g, f)'
  <2>1. /\ born' = born /\ live' = live
        /\ \A u \in Workers \ {w} : locked'[u] = locked[u] /\ now'[u] = now[u]
    BY <1>0, <1>4 DEF ClaimCommit, GoTo
  <2>2. CASE g \notin locked[w]
    <3>1. db'[g] = db[g]
      BY <1>4, <2>2, ClaimedRows
    <3> QED BY <1>1, <2>1, <2>2, <3>1
  <2>3. CASE g \in locked[w]
    <3>1. /\ g \in live /\ db[g].last_attempt_at <= now[w]
          /\ db'[g].last_attempt_at = now[w]
      BY <1>0, <1>4, <2>3, ClaimedRows
    <3>2. db[f].next_fetch_at <= now[w]
      <4>1. CASE db[f].next_fetch_at <= db[g].last_attempt_at
        <5>1. /\ db[f].next_fetch_at \in Int /\ db[g].last_attempt_at \in Int /\ now[w] \in Int
          BY <1>0 DEF Feed
        <5> QED BY <3>1, <4>1, <5>1
      <4>2. ASSUME NEW u \in Workers, g \in locked[u], db[f].next_fetch_at <= now[u]
            PROVE  db[f].next_fetch_at <= now[w]
        <5>1. u = w
          BY <2>3, <4>2 DEF Inv, LockInv
        <5> QED BY <4>2, <5>1
      <4> QED BY <3>1, <4>1, <4>2 DEF Behind
    <3> QED BY <2>1, <3>1, <3>2 DEF Behind
  <2> QED BY <2>2, <2>3
<1>5. ASSUME NEW w \in Workers, NEW h \in Feeds, FetchStep(w, h) PROVE Behind(g, f)'
  <2>1. h \in held[w] /\ locked[w] = {}
    BY <1>0, <1>5
    DEF FetchStep, LoadFeed, LoadNothing, FinishFetch, AbortFetch, Inv, PhaseInv
  <2>2. /\ born' = born /\ live' = live /\ locked' = locked
        /\ \A u \in Workers \ {w} : now'[u] = now[u]
    BY <1>0, <1>5
    DEF FetchStep, LoadFeed, LoadNothing, FinishFetch, AbortFetch, EndFetch, GoTo, dbVars
  <2>3. db'[g].last_attempt_at = db[g].last_attempt_at
    <3>1. CASE FinishFetch(w, h)
      BY <3>1, FinishedRow
    <3>2. CASE ~FinishFetch(w, h)
      BY <1>5, <3>2 DEF FetchStep, LoadFeed, LoadNothing, AbortFetch, dbVars
    <3> QED BY <3>1, <3>2
  <2> QED BY <1>1, <2>1, <2>2, <2>3
<1>6. ASSUME NEW h \in Feeds, CreateFeed(h) PROVE Behind(g, f)'
  <2>1. /\ h \notin born /\ born' = born \cup {h} /\ live' = live \cup {h}
        /\ locked' = locked /\ now' = now /\ \A k \in Feeds \ {h} : db'[k] = db[k]
    BY <1>0, <1>6 DEF CreateFeed, workerVars
  <2>2. g # h
    BY <1>0, <2>1 DEF Behind
  <2>3. db'[g] = db[g]
    BY <2>1, <2>2
  <2> QED BY <2>1, <2>2, <2>3 DEF Behind
<1>7. ASSUME NEW h \in Feeds, DeleteFeed(h) PROVE Behind(g, f)'
  <2>1. /\ h \in live /\ born' = born /\ live' = live \ {h}
        /\ locked' = locked /\ now' = now /\ \A k \in Feeds \ {h} : db'[k] = db[k]
    BY <1>0, <1>7 DEF DeleteFeed, workerVars
  <2>2. CASE g = h
    BY <1>0, <2>1, <2>2 DEF Behind
  <2>3. CASE g # h
    <3>1. db'[g] = db[g]
      BY <2>1, <2>3
    <3> QED BY <2>1, <2>3, <3>1 DEF Behind
  <2> QED BY <2>2, <2>3
<1>8. ASSUME NEW h \in Feeds, ReactivateLoad(h) \/ ReactivateWrite(h) PROVE Behind(g, f)'
  BY <1>1, <1>8 DEF ReactivateLoad, ReactivateWrite, dbVars, workerVars
<1>9. CASE Tick
  BY <1>1, <1>9 DEF Tick, dbVars, workerVars
<1> QED BY <1>2, <1>3, <1>4, <1>5, <1>6, <1>7, <1>8, <1>9 DEF Next, WorkerStep, ApiStep

\* A claim that passes f over takes feeds that were not behind f, and are now.
LEMMA PassedOverBy ==
  ASSUME Inv, LaterInv, Next, NEW f \in Feeds, NEW w \in Workers, PassedOver(w, f)
  PROVE  /\ UNION {Taken(u) : u \in Workers} = locked'[w]
         /\ faults' = faults /\ locked'[w] \subseteq Feeds
         /\ \A g \in locked'[w] : g # f /\ ~Behind(g, f) /\ Behind(g, f)'
<1>0. /\ db \in [Feeds -> Feed] /\ locked \in [Workers -> SUBSET Feeds] /\ now \in [Workers -> Nat]
      /\ \A u \in Workers : locked[u] # {} => phase[u] = "claiming"
      /\ live \subseteq born /\ born \subseteq Feeds
  BY DEF Inv, TypeInv, TypeOK, PhaseInv
<1>1. ClaimExecute(w)
  <2>1. ASSUME NEW u \in Workers, ClaimExecute(u) PROVE u = w
    <3>1. \A v \in Workers \ {u} : locked'[v] = locked[v]
      BY <1>0, <2>1 DEF ClaimExecute
    <3> QED BY <3>1 DEF PassedOver, Taken
  <2>2. ASSUME \A u \in Workers : locked'[u] \subseteq locked[u] PROVE FALSE
    BY <2>2 DEF PassedOver, Taken
  <2>3. ASSUME NEW u \in Workers,
               \/ StartTick(u) \/ ClaimCommit(u) \/ ClaimError(u) \/ Crash(u) \/ Restart(u)
               \/ \E h \in Feeds : FetchStep(u, h)
        PROVE  FALSE
    <3>1. \A v \in Workers : locked'[v] \subseteq locked[v]
      BY <1>0, <2>3
      DEF StartTick, ClaimCommit, ClaimError, Crash, Restart, FetchStep, LoadFeed, LoadNothing,
          FinishFetch, AbortFetch
    <3> QED BY <2>2, <3>1
  <2>4. ASSUME Tick \/ \E h \in Feeds : ApiStep(h) PROVE FALSE
    <3>1. locked' = locked
      BY <2>4 DEF Tick, ApiStep, CreateFeed, DeleteFeed, ReactivateLoad, ReactivateWrite, workerVars
    <3> QED BY <2>2, <3>1
  <2> QED BY <2>1, <2>3, <2>4 DEF Next, WorkerStep
<1>2. PICK S \in Batches(w) : locked' = [locked EXCEPT ![w] = S]
  BY <1>1 DEF ClaimExecute
<1>3. /\ locked[w] = {} /\ locked'[w] = S /\ \A u \in Workers \ {w} : locked'[u] = locked[u]
      /\ db' = db /\ born' = born /\ live' = live /\ faults' = faults /\ now'[w] = now[w]
  BY <1>0, <1>1, <1>2 DEF ClaimExecute, GoTo, dbVars
<1>4. /\ S \subseteq Eligible(w) /\ f \in Eligible(w) \ S /\ db[f].status # "dead"
      /\ \A g \in S : db[g].next_fetch_at <= db[f].next_fetch_at
  BY <1>3 DEF PassedOver, Taken, Batches
<1>5. db[f].next_fetch_at <= now[w]
  BY <1>4 DEF Eligible, Claimable
<1>6. ASSUME NEW g \in S PROVE g # f /\ ~Behind(g, f) /\ Behind(g, f)'
  <2>1. /\ g \in live /\ g \notin born \ live /\ \A u \in Workers : g \notin locked[u]
    BY <1>4 DEF Eligible, RowLocked
  <2>2. ~(db[f].next_fetch_at <= db[g].last_attempt_at)
    <3>1. /\ db[f].next_fetch_at \in Int /\ db[g].next_fetch_at \in Int
          /\ db[g].last_attempt_at \in Int
      BY <1>0, <2>1 DEF Feed
    <3>2. db[g].last_attempt_at < db[g].next_fetch_at
      BY <2>1 DEF LaterInv
    <3> QED BY <1>4, <3>1, <3>2
  <2>3. Behind(g, f)'
    BY <1>3, <1>5 DEF Behind
  <2> QED BY <1>4, <2>1, <2>2, <2>3 DEF Behind
<1>7. UNION {Taken(u) : u \in Workers} = S
  BY <1>3 DEF Taken
<1>8. S \subseteq Feeds
  BY <1>0, <1>4 DEF Eligible
<1> QED BY <1>3, <1>6, <1>7, <1>8

\* LIMIT claim_batch_size bounds what a claim locks.
LEMMA BatchStep ==
  ASSUME Inv, BatchInv, Next
  PROVE  BatchInv'
<1>0. /\ locked \in [Workers -> SUBSET Feeds] /\ live \subseteq Feeds /\ IsFiniteSet(Feeds)
      /\ BatchSize \in Nat /\ Cardinality({}) = 0
  BY SchedulerAssumption, FS_EmptySet DEF Inv, TypeInv, TypeOK
<1>1. ASSUME \A u \in Workers : locked'[u] \in {locked[u], {}} PROVE BatchInv'
  BY <1>0, <1>1 DEF BatchInv
<1>2. ASSUME NEW w \in Workers, ClaimExecute(w) PROVE BatchInv'
  <2>1. PICK S \in Batches(w) : locked' = [locked EXCEPT ![w] = S]
    BY <1>2 DEF ClaimExecute
  <2>2. IsFiniteSet(Eligible(w))
    BY <1>0, FS_Subset DEF Eligible
  <2>3. Cardinality(Eligible(w)) \in Nat
    BY <2>2, FS_CardinalityType
  <2>4. Cardinality(S) = Smaller(BatchSize, Cardinality(Eligible(w)))
    BY DEF Batches
  <2>5. Cardinality(S) <= BatchSize
    BY <1>0, <2>3, <2>4 DEF Smaller
  <2> QED BY <1>0, <2>1, <2>5 DEF BatchInv
<1>3. ASSUME NEW w \in Workers,
             \/ StartTick(w) \/ ClaimCommit(w) \/ ClaimError(w) \/ Crash(w) \/ Restart(w)
             \/ \E f \in Feeds : FetchStep(w, f)
      PROVE  BatchInv'
  <2>1. \A u \in Workers : locked'[u] \in {locked[u], {}}
    BY <1>0, <1>3
    DEF StartTick, ClaimCommit, ClaimError, Crash, Restart, FetchStep, LoadFeed, LoadNothing,
        FinishFetch, AbortFetch
  <2> QED BY <1>1, <2>1
<1>4. CASE Tick \/ \E f \in Feeds : ApiStep(f)
  <2>1. locked' = locked
    BY <1>4 DEF Tick, ApiStep, CreateFeed, DeleteFeed, ReactivateLoad, ReactivateWrite, workerVars
  <2> QED BY <1>1, <2>1
<1> QED BY <1>2, <1>3, <1>4 DEF Next, WorkerStep

\* Without a reactivation no request is under way and no fetch is overlapped.
LEMMA QuietStep ==
  ASSUME Inv, Next, reactivations = 0 => api = {} /\ overlapped = {}, reactivations' = 0
  PROVE  reactivations = 0 /\ api' = {} /\ overlapped' = {}
<1>1. reactivations \in Nat
  BY DEF Inv, TypeInv, TypeOK
<1>2. (reactivations = 0 /\ api' = {} /\ overlapped' = {}) \/ \E f \in Feeds : ApiStep(f)
  BY DEF Next, WorkerStep, FetchStep, StartTick, ClaimExecute, ClaimCommit, ClaimError, LoadFeed,
         LoadNothing, FinishFetch, AbortFetch, EndFetch, Crash, Restart, Tick, apiVars
<1>3. ASSUME NEW f \in Feeds, ApiStep(f)
      PROVE  reactivations = 0 /\ api' = {} /\ overlapped' = {}
  BY <1>1, <1>3 DEF ApiStep, CreateFeed, DeleteFeed, ReactivateLoad, ReactivateWrite, apiVars
<1> QED BY <1>2, <1>3

\* The count of claims ahead of a feed grows by what comes to be behind it; a
\* claim that is rolled back takes at most one batch from there.
LEMMA AheadStep ==
  ASSUME JitterBelowBackoff, Inv, ClaimedInv, LaterInv, BatchInv, AheadInv,
         ahead \in [Feeds -> Nat], OrderNext, api = {}, overlapped = {}
  PROVE  AheadInv'
<1>0. /\ Next /\ IsFiniteSet(Feeds) /\ BatchSize \in Nat /\ faults \in Nat
      /\ locked \in [Workers -> SUBSET Feeds]
  BY SchedulerAssumption DEF OrderNext, Inv, TypeInv, TypeOK
<1>1. ASSUME NEW m \in Nat PROVE BatchSize * m \in Nat /\ BatchSize * (m + 1) = BatchSize * m + BatchSize
  BY <1>0
<1>2. faults' = faults \/ (faults' = faults + 1 /\ \E w \in Workers : ClaimError(w) \/ Crash(w))
  BY <1>0
  DEF Next, WorkerStep, FetchStep, StartTick, ClaimExecute, ClaimCommit, ClaimError, LoadFeed,
      LoadNothing, FinishFetch, AbortFetch, Crash, Restart, ApiStep, CreateFeed, DeleteFeed,
      ReactivateLoad, ReactivateWrite, Tick
<1>3. faults' \in Nat /\ BatchSize * faults \in Nat /\ BatchSize * faults' \in Nat
  BY <1>0, <1>1, <1>2
<1> SUFFICES ASSUME NEW f \in Feeds
             PROVE  ahead'[f] <= Cardinality(FeedsBehind(f)') + BatchSize * faults'
  BY DEF AheadInv
<1> DEFINE before == FeedsBehind(f)
           after == FeedsBehind(f)'
<1>4. before \subseteq Feeds \ {f} /\ after \subseteq Feeds \ {f}
  BY DEF FeedsBehind
<1>5. /\ IsFiniteSet(before) /\ IsFiniteSet(after)
      /\ Cardinality(before) \in Nat /\ Cardinality(after) \in Nat
  <2>1. IsFiniteSet(before) /\ IsFiniteSet(after)
    BY <1>0, <1>4, FS_Subset
  <2> QED BY <2>1, FS_CardinalityType
<1>6. ahead[f] <= Cardinality(before) + BatchSize * faults /\ ahead[f] \in Nat
  BY DEF AheadInv
<1>7. ahead'[f] = IF db'[f] # db[f] THEN 0
                  ELSE IF \E w \in Workers : PassedOver(w, f)
                  THEN ahead[f] + Cardinality(UNION {Taken(w) : w \in Workers})
                  ELSE ahead[f]
  BY DEF OrderNext
<1>8. CASE db'[f] # db[f]
  <2>1. ahead'[f] = 0
    BY <1>7, <1>8
  <2> HIDE DEF after
  <2> QED BY <1>3, <1>5, <2>1 DEF after
<1>9. ASSUME db'[f] = db[f], NEW g \in before,
             \A w \in Workers : g \in locked[w] => ~ClaimError(w) /\ ~Crash(w)
      PROVE  g \in after
  <2>1. g \in Feeds \ {f} /\ Behind(g, f)
    BY <1>9 DEF FeedsBehind
  <2>2. Behind(g, f)'
    BY <1>0, <1>9, <2>1, BehindKept
  <2> QED BY <2>1, <2>2 DEF FeedsBehind
<1>10. ASSUME db'[f] = db[f], NEW w \in Workers, PassedOver(w, f)
       PROVE  ahead'[f] <= Cardinality(after) + BatchSize * faults'
  <2>1. /\ UNION {Taken(u) : u \in Workers} = locked'[w] /\ faults' = faults
        /\ locked'[w] \subseteq Feeds
        /\ \A g \in locked'[w] : g # f /\ ~Behind(g, f) /\ Behind(g, f)'
    BY <1>0, <1>10, PassedOverBy
  <2> DEFINE S == locked'[w]
  <2>2. S \subseteq after /\ before \cap S = {}
    BY <2>1 DEF FeedsBehind
  <2>3. ASSUME NEW u \in Workers, ClaimError(u) \/ Crash(u) PROVE FALSE
    <3>1. faults' = faults + 1
      BY <2>3 DEF ClaimError, Crash
    <3> QED BY <1>0, <2>1, <3>1
  <2>4. before \subseteq after
    BY <1>9, <1>10, <2>3
  <2>5. IsFiniteSet(S) /\ Cardinality(S) \in Nat
    <3>1. IsFiniteSet(S)
      BY <1>5, <2>2, FS_Subset
    <3> QED BY <3>1, FS_CardinalityType
  <2>6. ahead'[f] = ahead[f] + Cardinality(S)
    BY <1>7, <1>10, <2>1
  <2> HIDE DEF S, before, after
  <2>7. Cardinality(before \cup S) = Cardinality(before) + Cardinality(S)
    <3>1. Cardinality(before \cup S) = Cardinality(before) + Cardinality(S) - Cardinality(before \cap S)
      BY <1>5, <2>5, FS_Union
    <3> QED BY <1>5, <2>2, <2>5, <3>1, FS_EmptySet
  <2>8. Cardinality(before \cup S) <= Cardinality(after)
    BY <1>5, <2>2, <2>4, FS_Subset
  <2> QED BY <1>3, <1>5, <1>6, <2>1, <2>5, <2>6, <2>7, <2>8
<1>11. ASSUME db'[f] = db[f], ~\E w \in Workers : PassedOver(w, f),
              NEW w \in Workers, ClaimError(w) \/ Crash(w)
       PROVE  ahead'[f] <= Cardinality(after) + BatchSize * faults'
  <2>1. faults' = faults + 1 /\ ahead'[f] = ahead[f]
    BY <1>7, <1>11 DEF ClaimError, Crash
  <2>2. ASSUME NEW u \in Workers, ClaimError(u) \/ Crash(u) PROVE locked[u] = {} \/ u = w
    <3>1. locked' = [locked EXCEPT ![u] = {}] /\ locked' = [locked EXCEPT ![w] = {}]
      BY <1>11, <2>2 DEF ClaimError, Crash
    <3> QED BY <1>0, <3>1
  <2>3. before \ locked[w] \subseteq after
    BY <1>9, <1>11, <2>2
  <2>4. Cardinality(locked[w]) <= BatchSize /\ IsFiniteSet(locked[w]) /\ Cardinality(locked[w]) \in Nat
    <3>1. locked[w] \subseteq Feeds
      BY <1>0
    <3>2. IsFiniteSet(locked[w])
      BY <1>0, <3>1, FS_Subset
    <3> QED BY <3>2, FS_CardinalityType DEF BatchInv
  <2> DEFINE lost == before \cap locked[w]
  <2> HIDE DEF before, after
  <2>5. /\ Cardinality(before \ locked[w]) = Cardinality(before) - Cardinality(lost)
        /\ Cardinality(before \ locked[w]) <= Cardinality(after)
    BY <1>5, <2>3, FS_Difference, FS_Subset
  <2>6. Cardinality(lost) <= Cardinality(locked[w]) /\ Cardinality(lost) \in Nat
    <3>1. IsFiniteSet(lost) /\ Cardinality(lost) <= Cardinality(locked[w])
      BY <2>4, FS_Subset
    <3> QED BY <3>1, FS_CardinalityType
  <2> HIDE DEF lost
  <2>7. BatchSize * faults' = BatchSize * faults + BatchSize
    BY <1>0, <1>1, <2>1
  <2>8. Cardinality(before) <= Cardinality(after) + BatchSize
    BY <1>0, <1>5, <2>4, <2>5, <2>6
  <2> QED BY <1>0, <1>3, <1>5, <1>6, <2>1, <2>7, <2>8
<1>12. ASSUME db'[f] = db[f], ~\E w \in Workers : PassedOver(w, f),
              ~\E w \in Workers : ClaimError(w) \/ Crash(w)
       PROVE  ahead'[f] <= Cardinality(after) + BatchSize * faults'
  <2>1. faults' = faults /\ ahead'[f] = ahead[f]
    BY <1>2, <1>7, <1>12
  <2>2. before \subseteq after
    BY <1>9, <1>12
  <2> HIDE DEF before, after
  <2>3. Cardinality(before) <= Cardinality(after)
    BY <1>5, <2>2, FS_Subset
  <2> QED BY <1>3, <1>5, <1>6, <2>1, <2>3
<1> QED BY <1>8, <1>10, <1>11, <1>12

\* OrderInv holds initially.
LEMMA OrderInitInv == OrderInit => OrderInv
<1> SUFFICES ASSUME OrderInit PROVE OrderInv
  OBVIOUS
<1>1. /\ ahead = [f \in Feeds |-> 0] /\ locked = [w \in Workers |-> {}] /\ faults = 0
      /\ live = InitialFeeds /\ api = {} /\ overlapped = {}
      /\ db = [f \in Feeds |-> IF f \in InitialFeeds THEN NewFeed(Skew, Skew) ELSE NoRow]
  BY DEF OrderInit, Init
<1>2. BatchInv
  BY <1>1, FS_EmptySet, SchedulerAssumption DEF BatchInv
<1>3. LaterInv
  BY <1>1, SchedulerAssumption DEF LaterInv, NewFeed, Null
<1>4. ASSUME NEW f \in Feeds PROVE ahead[f] <= Cardinality(FeedsBehind(f)) + BatchSize * faults
  <2>1. IsFiniteSet(FeedsBehind(f))
    BY SchedulerAssumption, FS_Subset DEF FeedsBehind
  <2>2. Cardinality(FeedsBehind(f)) \in Nat
    BY <2>1, FS_CardinalityType
  <2>3. ahead[f] = 0 /\ BatchSize * faults = 0
    BY <1>1, SchedulerAssumption
  <2> QED BY <2>2, <2>3
<1> QED BY <1>1, <1>2, <1>3, <1>4 DEF OrderInv, AheadInv

\* OrderInv is inductive.
LEMMA OrderStep ==
  ASSUME JitterBelowBackoff, Inv, ClaimedInv, OrderInv, [OrderNext]_orderVars
  PROVE  OrderInv'
<1>1. CASE UNCHANGED orderVars
  BY <1>1
  DEF orderVars, vars, dbVars, workerVars, apiVars, OrderInv, BatchInv, LaterInv, AheadInv,
      FeedsBehind, Behind
<1>2. CASE OrderNext
  <2>1. Next
    BY <1>2 DEF OrderNext
  <2>2. ahead' \in [Feeds -> Nat]
    <3>1. UNION {Taken(w) : w \in Workers} \subseteq Feeds
      <4>1. locked' \in [Workers -> SUBSET Feeds]
        BY <2>1, InvStep DEF Inv, TypeInv, TypeOK
      <4> QED BY <4>1 DEF Taken
    <3>2. IsFiniteSet(UNION {Taken(w) : w \in Workers})
      BY <3>1, SchedulerAssumption, FS_Subset
    <3>3. Cardinality(UNION {Taken(w) : w \in Workers}) \in Nat
      BY <3>2, FS_CardinalityType
    <3> QED BY <1>2, <3>3 DEF OrderNext, OrderInv
  <2>3. BatchInv'
    BY <2>1, BatchStep DEF OrderInv
  <2>4. ASSUME reactivations' = 0
        PROVE  api' = {} /\ overlapped' = {} /\ LaterInv' /\ AheadInv'
    <3>1. reactivations = 0 /\ api' = {} /\ overlapped' = {}
      BY <2>1, <2>4, QuietStep DEF OrderInv
    <3>2. api = {} /\ overlapped = {} /\ LaterInv /\ AheadInv /\ BatchInv /\ ahead \in [Feeds -> Nat]
      BY <3>1 DEF OrderInv
    <3> QED BY <1>2, <2>1, <3>1, <3>2, LaterStep, AheadStep
  <2> QED BY <2>2, <2>3, <2>4 DEF OrderInv
<1> QED BY <1>1, <1>2

\* scheduler._claim_due_feeds: with any number of workers and feeds, any batch
\* and any skew, every other feed is claimed ahead of a waiting one at most once,
\* but for the batches of failed claims, as long as a jitter leaves something of
\* the backoff.
THEOREM NobodyStarves ==
  ASSUME JitterBelowBackoff
  PROVE  OrderSpec => []NoStarvation
<1>1. OrderInit => Inv /\ ClaimedInv /\ OrderInv
  <2>1. OrderInit => Init
    BY DEF OrderInit
  <2>2. Init => ClaimedInv
    BY DEF Init, ClaimedInv
  <2> QED BY <2>1, <2>2, InvInit, OrderInitInv
<1>2. Inv /\ ClaimedInv /\ OrderInv /\ [OrderNext]_orderVars => Inv' /\ ClaimedInv' /\ OrderInv'
  <2>1. [OrderNext]_orderVars => [Next]_vars
    BY DEF OrderNext, orderVars
  <2> QED BY <2>1, InvStep, ClaimedStep, OrderStep
<1>3. OrderInv /\ Inv => NoStarvation
  <2> SUFFICES ASSUME OrderInv, Inv, reactivations = 0, NEW f \in Feeds
               PROVE  ahead[f] < Cardinality(Feeds) + BatchSize * faults
    BY DEF NoStarvation
  <2>1. FeedsBehind(f) \subseteq Feeds \ {f}
    BY DEF FeedsBehind
  <2>2. IsFiniteSet(Feeds \ {f}) /\ Cardinality(Feeds \ {f}) = Cardinality(Feeds) - 1
    BY SchedulerAssumption, FS_RemoveElement
  <2>3. Cardinality(FeedsBehind(f)) <= Cardinality(Feeds \ {f}) /\ IsFiniteSet(FeedsBehind(f))
    BY <2>1, <2>2, FS_Subset
  <2>4. Cardinality(FeedsBehind(f)) \in Nat /\ Cardinality(Feeds) \in Nat
    BY <2>3, SchedulerAssumption, FS_CardinalityType
  <2>5. BatchSize * faults \in Nat /\ ahead[f] \in Nat
    BY SchedulerAssumption DEF Inv, TypeInv, TypeOK, OrderInv
  <2>6. ahead[f] <= Cardinality(FeedsBehind(f)) + BatchSize * faults
    BY DEF OrderInv, AheadInv
  <2> QED BY <2>2, <2>3, <2>4, <2>5, <2>6
<1> QED BY <1>1, <1>2, <1>3, PTL DEF OrderSpec
=============================================================================
