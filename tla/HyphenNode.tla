----------------------------- MODULE HyphenNode -----------------------------
(***************************************************************************)
(* The Hyphen full node as the wallet sees it over its blockchain RPC.  It *)
(* is not part of the repository: the model is drawn from how transfer.rs  *)
(* and rpc_client.rs use it and what they expect of its replies.           *)
(*                                                                         *)
(* Only transactions that spend the wallet's own outputs are represented.  *)
(* A transaction is an identity (its hash) and the set of outputs whose    *)
(* key images it reveals; a block carries at most one of them.  Change     *)
(* outputs are left out: the outputs of the wallet are a fixed set.        *)
(***************************************************************************)
EXTENDS Naturals, Sequences

CONSTANTS
  Outputs,     \* the wallet's outputs on the chain
  InputSets,   \* the sets of outputs that cover one payout
  MaxTx        \* bound: how many transactions are ever signed

ASSUME NodeAssumption == /\ InputSets \subseteq SUBSET Outputs
                         /\ MaxTx \in Nat

Txs == [id : 1..MaxTx, ins : InputSets]

VARIABLES
  chain,   \* the wallet's transactions on the best chain, oldest first
  pool     \* its transactions waiting in the mempool

nodeVars == <<chain, pool>>

InChain(t) == \E k \in DOMAIN chain : chain[k] = t

(* The outputs spent by the first n of those blocks. *)
SpentBy(n) == UNION {chain[k].ins : k \in 1..n}

(* The key images a new transaction must not reveal again. *)
Conflicts(t) == t.ins \cap (SpentBy(Len(chain)) \cup UNION {u.ins : u \in pool})

(* SubmitTransaction: the node takes a transaction into its mempool only   *)
(* if no output is spent twice.  It may refuse for reasons of its own.     *)
Admit(t) == /\ Conflicts(t) = {}
            /\ pool' = pool \cup {t}
            /\ UNCHANGED chain

NodeInit == chain = <<>> /\ pool = {}

(* A block confirms a waiting transaction. *)
Mine(t) ==
  /\ t \in pool
  /\ pool' = pool \ {t}
  /\ chain' = Append(chain, t)

(* The mempool forgets a transaction: expiry, or a restart of the node. *)
Evict(t) ==
  /\ t \in pool
  /\ pool' = pool \ {t}
  /\ UNCHANGED chain

(* The best chain changes and its last block is no longer on it.  Whether  *)
(* the transaction is back in the mempool is up to the node.               *)
Reorg ==
  /\ chain # <<>>
  /\ chain' = SubSeq(chain, 1, Len(chain) - 1)
  /\ \/ UNCHANGED pool
     \/ pool' = pool \cup {chain[Len(chain)]}
=============================================================================
