----------------------------- MODULE ChainScan ------------------------------
(***************************************************************************)
(* scan_wallet_outputs of transfer.rs: the wallet walks the blocks of the  *)
(* node one RPC at a time, collects its own outputs with their global      *)
(* index and every key image it sees, and keeps the outputs whose key      *)
(* image it did not see.  Meanwhile the node's best chain may grow or be   *)
(* reorganised, and any RPC may fail.                                      *)
(*                                                                         *)
(* A block carries one transaction: the outputs it creates in order (one   *)
(* of the wallet's, or Foreign), the wallet's outputs it spends, and       *)
(* whether the wallet's decoder reads it at all.  The cryptography that    *)
(* tells an own output from a foreign one is taken as correct.             *)
(***************************************************************************)
EXTENDS Naturals, Sequences, FiniteSets

CONSTANTS
  Owned,        \* outputs of the wallet
  Foreign,      \* any output of somebody else
  Shapes,       \* sequences of outputs a transaction may create
  MaxHeight,    \* bound: the height of the best chain
  MaxReorgs,    \* bound: how often its last block is replaced
  MaxOpaque     \* bound: transactions the wallet cannot decode

ASSUME ScanAssumption ==
  /\ Foreign \notin Owned
  /\ Shapes \subseteq Seq(Owned \cup {Foreign})
  /\ MaxHeight \in Nat /\ MaxReorgs \in Nat /\ MaxOpaque \in Nat

Blocks == [outs : Shapes, spends : SUBSET Owned, opaque : BOOLEAN]

VARIABLES
  chain,     \* the node's best chain: chain[1] is the block at height 0
  reorgs,    \* how often it was reorganised
  low,       \* history: its least length since the scan began
  pc,        \* "idle", "prefix", "main", "done" or "failed"
  start,     \* start_height
  end,       \* end_height: the tip when the caller asked for it
  h,         \* the height to read next
  index,     \* global_index
  found,     \* owned_outputs: output, global index and height
  images,    \* spent_key_images
  scanned    \* scanned_height

scanVars == <<pc, start, end, h, index, found, images, scanned>>
vars == <<chain, reorgs, low, pc, start, end, h, index, found, images,
          scanned>>
-----------------------------------------------------------------------------
(* What a chain holds. *)
Created(c) ==
  {o \in Owned : \E k \in DOMAIN c : \E n \in DOMAIN c[k].outs : c[k].outs[n] = o}
Spent(c) == UNION {c[k].spends : k \in DOMAIN c}
OpaqueIn(c) == {k \in DOMAIN c : c[k].opaque}

(* The outputs before block k, by block and place: in this order they are  *)
(* counted globally, and block k's follow.                                 *)
Before(c, k) == UNION {{j} \X DOMAIN c[j].outs : j \in 1..(k - 1)}
Offset(c, k) == Cardinality(Before(c, k))

(* An output as the wallet reports it. *)
Found(o, i, height) == [out |-> o, index |-> i, height |-> height]
OwnIn(outs) == {n \in DOMAIN outs : outs[n] \in Owned}

(* The wallet's outputs of chain c from height s on, as the node has them. *)
Located(c, s) ==
  UNION {{Found(c[k].outs[n], Offset(c, k) + n - 1, k - 1) : n \in OwnIn(c[k].outs)}
         : k \in {j \in DOMAIN c : j > s}}
Unspent(c, s) == {f \in Located(c, s) : f.out \notin Spent(c)}

(* Block b may follow chain c: no output is created or spent twice, and    *)
(* only outputs that exist are spent.                                      *)
Follows(c, b) ==
  /\ \A o \in Owned : \A j, k \in DOMAIN b.outs :
       b.outs[j] = o => o \notin Created(c) /\ (b.outs[k] = o => j = k)
  /\ b.spends \subseteq Created(c) \ Spent(c)

Init ==
  /\ \E b \in Blocks : /\ Follows(<<>>, b) /\ ~b.opaque
                       /\ chain = <<b>>
  /\ reorgs = 0
  /\ low = Len(chain)
  /\ pc = "idle"
  /\ start = 0 /\ end = 0 /\ h = 0 /\ index = 0
  /\ found = {} /\ images = {}
  /\ scanned = 0
-----------------------------------------------------------------------------
(* Mutant: the number of blocks is taken for the height of the last one. *)
BlockCount == Len(chain)

(* The height the node reports. *)
TipHeight == Len(chain) - 1

(* Mutant: only the wallet's outputs are counted. *)
CountedOwn(b) == IF b.opaque THEN 0 ELSE Cardinality(OwnIn(b.outs))

(* By how much a block advances global_index: a transaction that does not  *)
(* decode is passed over with all its outputs.                             *)
Counted(b) == IF b.opaque THEN 0 ELSE Len(b.outs)

(* The caller reads the tip and asks for a scan from height s up to it. *)
Begin(s) ==
  /\ pc = "idle"
  /\ start' = s
  /\ end' = TipHeight
  /\ h' = 0 /\ index' = 0
  /\ found' = {} /\ images' = {}
  /\ scanned' = IF s = 0 THEN 0 ELSE s - 1
  /\ low' = Len(chain)
  /\ pc' = IF s > 0 THEN "prefix" ELSE "main"
  /\ UNCHANGED <<chain, reorgs>>

(* A block below start_height: only its outputs are counted. *)
ReadPrefix ==
  /\ pc = "prefix"
  /\ h < Len(chain)
  /\ index' = index + Counted(chain[h + 1])
  /\ h' = h + 1
  /\ pc' = IF h + 1 = start THEN "main" ELSE "prefix"
  /\ UNCHANGED <<chain, reorgs, low, start, end, found, images, scanned>>

(* A block of the range. *)
ReadBlock ==
  /\ pc = "main"
  /\ h <= end /\ h < Len(chain)
  /\ LET b == chain[h + 1]
     IN  /\ images' = IF b.opaque THEN images ELSE images \cup b.spends
         /\ found' = IF b.opaque THEN found ELSE found \cup
              {Found(b.outs[n], index + n - 1, h) : n \in OwnIn(b.outs)}
         /\ index' = index + Counted(b)
  /\ scanned' = h
  /\ h' = h + 1
  /\ UNCHANGED <<chain, reorgs, low, pc, start, end>>

(* The range is read. *)
Finish ==
  /\ pc = "main"
  /\ h > end
  /\ pc' = "done"
  /\ UNCHANGED <<chain, reorgs, low, start, end, h, index, found,
                 images, scanned>>

(* get_block_by_height fails: below start_height the scan fails, in the    *)
(* range it ends and returns what it has.                                  *)
RpcFails ==
  /\ pc \in {"prefix", "main"}
  /\ pc = "main" => h <= end
  /\ pc' = IF pc = "prefix" THEN "failed" ELSE "done"
  /\ UNCHANGED <<chain, reorgs, low, start, end, h, index, found,
                 images, scanned>>

(* The caller takes the result and may scan again. *)
Deliver ==
  /\ pc \in {"done", "failed"}
  /\ pc' = "idle"
  /\ UNCHANGED <<chain, reorgs, low, start, end, h, index, found,
                 images, scanned>>

(* The node's chain grows. *)
Extend(b) ==
  /\ Len(chain) <= MaxHeight
  /\ Follows(chain, b)
  /\ b.opaque => Cardinality(OpaqueIn(chain)) < MaxOpaque
  /\ chain' = Append(chain, b)
  /\ UNCHANGED <<reorgs, low, scanVars>>

(* Its last block leaves the best chain. *)
Reorg ==
  /\ Len(chain) > 1
  /\ reorgs < MaxReorgs
  /\ reorgs' = reorgs + 1
  /\ chain' = SubSeq(chain, 1, Len(chain) - 1)
  /\ low' = IF Len(chain) - 1 < low THEN Len(chain) - 1 ELSE low
  /\ UNCHANGED scanVars

Next ==
  \/ \E s \in 0..(Len(chain) - 1) : Begin(s)
  \/ ReadPrefix \/ ReadBlock \/ Finish \/ RpcFails \/ Deliver
  \/ \E b \in Blocks : Extend(b)
  \/ Reorg

Spec == Init /\ [][Next]_vars
-----------------------------------------------------------------------------
(* Mutant: spent outputs are reported too. *)
EverFound == found

(* ScanResult.outputs_json *)
Result == {f \in found : f.out \notin images}

(* Every variable holds a value of its type. *)
TypeOK ==
  /\ chain \in Seq(Blocks)
  /\ reorgs \in 0..MaxReorgs /\ low \in 1..(MaxHeight + 1)
  /\ pc \in {"idle", "prefix", "main", "done", "failed"}
  /\ start \in 0..MaxHeight /\ end \in 0..MaxHeight /\ scanned \in 0..end
  /\ h \in 0..(end + 1) /\ index \in Nat
  /\ \A f \in found : f.out \in Owned /\ f.index \in Nat /\ f.height \in start..end
  /\ images \subseteq Owned

(* The outputs of the blocks that no reorganisation reached while the scan *)
(* ran are collected under the global index the node gives them, none      *)
(* missing and none invented, whatever was replaced above them.            *)
IndexedBelowFork ==
  LET read == SubSeq(chain, 1, IF low < h THEN low ELSE h)
  IN  OpaqueIn(read) = {} =>
        {f \in found : f.height < low} = Located(read, start)

(* A scan of blocks that stayed on the chain returns exactly the wallet's  *)
(* unspent outputs of the blocks it read, although the chain grew          *)
(* meanwhile.  (Both hold as far as the wallet decodes the blocks.)        *)
ExactForBlocksRead ==
  LET read == SubSeq(chain, 1, h)
  IN  (pc = "done" /\ h <= low /\ OpaqueIn(read) = {})
        => Result = Unspent(read, start)

(* The comment on scan_wallet_outputs: blocks from start_height to         *)
(* end_height (inclusive) are read, and all owned, unspent outputs of them *)
(* are what is returned.                                                   *)
ScanReachesEnd ==
  (pc = "done" /\ end < low /\ OpaqueIn(chain) = {})
    => Result = Unspent(SubSeq(chain, 1, end + 1), start)
=============================================================================
