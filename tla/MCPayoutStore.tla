--------------------------- MODULE MCPayoutStore ----------------------------
(* Instances of PayoutStore for TLC. *)
EXTENDS PayoutStore, TLC

Symmetry == Permutations(Intents) \cup Permutations(Records)
=============================================================================
