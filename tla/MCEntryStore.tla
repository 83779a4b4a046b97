---------------------------- MODULE MCEntryStore ----------------------------
(* Documents that edit, reorder, repeat and drop entries. *)
EXTENDS EntryStore, TLC

CONSTANTS g1, g2, a, b

Item(guid, content) == [guid |-> guid, content |-> content]

MCDocuments ==
  {<<Item(g1, a), Item(g2, a)>>,
   <<Item(g2, b), Item(g1, b)>>,
   <<Item(g1, b), Item(g1, a)>>}

\* A session of this one edits what it has inserted, and the next one edits again.
MCOneDocument == {<<Item(g2, b), Item(g1, a), Item(g2, a)>>}

Symmetry == Permutations(Sessions) \cup Permutations(Sweepers)
              \cup Permutations(Feeds)
=============================================================================
