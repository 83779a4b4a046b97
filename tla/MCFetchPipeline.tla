-------------------------- MODULE MCFetchPipeline ---------------------------
(* Two feeds on two hosts, each of which may move to the other's. *)
EXTENDS FetchPipeline

CONSTANTS f1, f2, u1, u2

MCHostOf == [u \in Urls |-> IF u = u1 THEN "h1" ELSE "h2"]
MCHomeOf == [f \in Feeds |-> IF f = f1 THEN u1 ELSE u2]

\* An absent, a garbled and a negative value, a date in the future or already
\* past, and a number of seconds no timestamp can hold.
MCHeaders ==
  {[form |-> "absent", value |-> 0], [form |-> "junk", value |-> 0],
   [form |-> "seconds", value |-> -1], [form |-> "seconds", value |-> 99],
   [form |-> "date", value |-> 2], [form |-> "date", value |-> 0]}
=============================================================================
