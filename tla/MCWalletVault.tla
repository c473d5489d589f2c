---------------------------- MODULE MCWalletVault ----------------------------
(* Instances of WalletVault for TLC. *)
EXTENDS WalletVault

Words(spaces, checked) == Phrase("known", 24, checked, spaces)
SomeTyped == {Words("single", TRUE), Words("double", TRUE), Words("single", FALSE)}

(* One wallet is there already, in the legacy format. *)
OneOld ==
  <<[id |-> "0", env |-> LegacyEnvelope(Words("single", TRUE), "p", "fresh")]>>

TwoTimes == <<"1", "2">>

(* Hashes of twenty digits, enough for the checksum to reach the digit of  *)
(* its bit 8: 300, 285, 285 and 240 are left over, so that the last of the *)
(* three digits is 1, 1, 1 and 0.                                          *)
Maximal(S) == [i \in 1..20 |-> IF i \in S THEN CHAIN_MAX ELSE 0]
SomeHashes == {Maximal({}), Maximal({1}), Maximal({2}), Maximal(1..4)}
=============================================================================
