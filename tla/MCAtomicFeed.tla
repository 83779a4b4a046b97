---------------------------- MODULE MCAtomicFeed ----------------------------
(* One feed on its own, with every timer of the policy distinct. *)
EXTENDS AtomicFeed

MCJitters == {-50, 0, 50}
=============================================================================
