---------------------------- MODULE MCChainScan -----------------------------
(* Instances of ChainScan for TLC. *)
EXTENDS ChainScan, TLC

(* One or two outputs per transaction, at most one of them the wallet's:   *)
(* enough for an own output to come first, last or not at all.             *)
FewShapes == {<<Foreign>>} \cup {<<o>> : o \in Owned}
             \cup {<<Foreign, o>> : o \in Owned} \cup {<<o, Foreign>> : o \in Owned}

Symmetry == Permutations(Owned)
=============================================================================
