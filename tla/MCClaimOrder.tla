---------------------------- MODULE MCClaimOrder ----------------------------
(* A backlog of two feeds, one row per claim. *)
EXTENDS ClaimOrder, TLC

Symmetry == Permutations(Workers) \cup Permutations(Feeds)
=============================================================================
