------------------------ MODULE MCTransactionBuilder ------------------------
(* Instances of TransactionBuilder for TLC. *)
EXTENDS TransactionBuilder, TLC

Output(i, h, v) == [index |-> i, height |-> h, value |-> v, key |-> "seen"]
Outs(heights) == [i \in DOMAIN heights |-> [height |-> heights[i], key |-> "seen"]]
Chain(claim, tip, total, heights) ==
  [claim |-> claim, tip |-> tip, total |-> total, outs |-> Outs(heights)]

Sparse == 0 :> 0 @@ 1 :> 10 @@ 2 :> 20 @@ 300 :> 40
Dense == 0 :> 0 @@ 2 :> 30 @@ 27 :> 60 @@ 28 :> 100 @@ 29 :> 130

(* A devnet at its least height, a mainnet, a testnet too low to spend on, *)
(* and a node that mixes the name of one network with the magic of another.*)
FourNodes ==
  { Chain(Honest("devnet"), 40, 400, Sparse),
    Chain(Honest("mainnet"), 130, 30, Dense),
    Chain(Honest("testnet"), 31, 400, Sparse),
    Chain([Honest("devnet") EXCEPT !.magic = "HYPN"], 40, 400, Sparse) }

(* What scans left: outputs of both chains, one that a reorganisation has  *)
(* replaced since, and more value than a u64 holds.                        *)
FewCaches ==
  { <<Output(0, 0, 3), Output(2, 20, 5), Output(1, 10, 3)>>,
    <<Output(2, 30, 4), Output(28, 100, 6)>>,
    <<[Output(2, 20, 5) EXCEPT !.key = "gone"], Output(1, 10, 4)>>,
    <<Output(0, 0, 9), Output(2, 20, 9)>> }

FewRequests ==
  {[amount |-> a, fee |-> f, ring |-> r, to |-> t] :
     a \in {0, 4, 7, 13}, f \in {0, 3}, r \in {1, 2, 4},
     t \in {"mainnet", "testnet", "garbled"}}
=============================================================================
