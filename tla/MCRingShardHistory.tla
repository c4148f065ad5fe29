------------------------- MODULE MCRingShardHistory --------------------------
(* RingShardHistory with interchangeable keys: enough of them to fill both   *)
(* tiers of the deletion log of a ring of two events, and to overflow them.  *)
EXTENDS RingShardHistory, TLC

KeySymmetry == Permutations(Keys)
===============================================================================
