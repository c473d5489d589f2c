-------------------------- MODULE MCWalletSession ---------------------------
(* Instances of WalletSession for TLC.                                     *)
EXTENDS WalletSession, TLC

CONSTANTS w1, w2, o1, o2

OneWallet == {w1}
TwoWallets == {w1, w2}
TwoOutputs == {o1, o2}

(* An output for each wallet, or both for one.                             *)
OneEach == o1 :> w1 @@ o2 :> w2
BothFirst == o1 :> w1 @@ o2 :> w1

Symmetry == Permutations(Calls)
=============================================================================
