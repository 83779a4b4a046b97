----------------------------- MODULE ClaimOrder -----------------------------
(***************************************************************************)
(* Scheduler with a history of which feeds were claimed ahead of a waiting  *)
(* one: does ORDER BY next_fetch_at serve a backlog larger than one batch   *)
(* without starving anybody?                                               *)
(***************************************************************************)
EXTENDS Scheduler

VARIABLE ahead   \* ahead[f]: claims that took another feed while f was due

orderVars == <<vars, ahead>>

\* The feeds a step adds to a claim of w.
Taken(w) == locked'[w] \ locked[w]

\* f could have been claimed by w in this step, and was not.
PassedOver(w, f) ==
  Taken(w) # {} /\ f \in Eligible(w) \ Taken(w) /\ db[f].status # "dead"

OrderInit == Init /\ ahead = [f \in Feeds |-> 0]

OrderNext ==
  /\ Next
  /\ ahead' = [f \in Feeds |->
                 IF db'[f] # db[f] THEN 0
                 ELSE IF \E w \in Workers : PassedOver(w, f)
                 THEN ahead[f] + Cardinality(UNION {Taken(w) : w \in Workers})
                 ELSE ahead[f]]

OrderSpec == OrderInit /\ [][OrderNext]_orderVars

\* scheduler._claim_due_feeds: while a feed that is not dead stays due, every
\* other feed is claimed ahead of it at most once, by however many workers, and
\* each claim that fails or dies before its commit lets one batch do so again. So
\* a backlog drains in the order it became due and nobody starves. A manual
\* reactivation may put a feed back at the head of the queue.
NoStarvation ==
  reactivations = 0 =>
    \A f \in Feeds : ahead[f] < Cardinality(Feeds) + BatchSize * faults
=============================================================================
