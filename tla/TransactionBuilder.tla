------------------------- MODULE TransactionBuilder -------------------------
(***************************************************************************)
(* build_transaction of transfer.rs: inputs are selected from the outputs  *)
(* a scan left in the wallet, the node is asked who it is and how far its  *)
(* chain reaches, the inputs are compared with what it has, a ring is      *)
(* drawn for each, and the transaction is put together.  Every call of the *)
(* node is a step of its own: the chain may move between any two of them,  *)
(* and any call may fail.                                                  *)
(*                                                                         *)
(* The node answers from its chain, if with the identity it likes.  The    *)
(* signatures and range proofs of the builder are taken as correct.        *)
(***************************************************************************)
EXTENDS RingVre, ChainIdentity, Sequences, SequencesExt

CONSTANTS
  Requests,     \* TransactionRequest: amount, fee, ring size, recipient
  Caches,       \* outputs a scan reported, in the order of the JSON text
  Nodes,        \* the node at the start: claim, tip, total, some outputs
  MAX,          \* u64::MAX
  MaxRetries,   \* bound: max_retries
  MaxMoves      \* bound: how often the chain moves

ASSUME BuilderAssumption ==
  /\ MAX \in Nat /\ MaxRetries \in Nat \ {0} /\ MaxMoves \in Nat
  /\ \A r \in Requests : /\ r.amount \in 0..MAX /\ r.fee \in 0..MAX
                         /\ r.ring \in Nat
                         /\ r.to \in {"mainnet", "testnet", "garbled"}

(* A scan numbers the outputs it finds upwards, so no two share an index.  *)
ASSUME CacheAssumption ==
  /\ Caches \subseteq Seq([index : Nat, height : Nat, value : 0..MAX, key : STRING])
  /\ \A c \in Caches : \A j, k \in DOMAIN c : c[j].index = c[k].index => j = k

(* A node has no output at or above the number it counts.                  *)
ASSUME NodeAssumption ==
  \A n \in Nodes :
    /\ n \in [claim : {n.claim}, tip : Nat, total : Nat,
              outs : [DOMAIN n.outs -> [height : Nat, key : STRING]]]
    /\ DOMAIN n.outs \subseteq 0..(n.total - 1)

VARIABLES
  node,       \* the chain of the node: claim, tip, total, outs by index
  moves,      \* how often it moved
  pc,         \* the step to come
  req, owned, \* the request and the outputs it may spend
  sel,        \* selected, in order
  info,       \* chain_info: claim, tip, total
  rings,      \* a ring for each of the first inputs
  attempt,    \* of fetch_decoys, for the next input
  replaced,   \* history: an output was replaced since the comparison
  tx          \* BuiltTransaction

input == <<req, owned, sel>>
vars == <<node, moves, pc, req, owned, sel, info, rings, attempt, replaced, tx>>

Reading == {"connect", "info", "verify", "ring"}
NoTx == [ins |-> {}, outs |-> <<>>, fee |-> 0]
Params == VreParams(NamedMainnet(info.claim), info.tip, info.total)
-----------------------------------------------------------------------------
Total(o, S) == MapThenSumSet(LAMBDA k : o[k].value, S)

(* Mutant: the smallest outputs first. *)
Smaller(o, k) ==
  {j \in DOMAIN o : \/ o[j].value < o[k].value
                    \/ o[j].value = o[k].value /\ j < k}

(* The outputs that come before output k: the larger ones, and of those of *)
(* the same value the earlier ones.                                        *)
Ahead(o, k) ==
  {j \in DOMAIN o : \/ o[j].value > o[k].value
                    \/ o[j].value = o[k].value /\ j < k}

(* The positions of the outputs from the largest value down, stably. *)
Ranked(o) ==
  [n \in DOMAIN o |-> CHOOSE k \in DOMAIN o : Cardinality(Ahead(o, k)) = n - 1]

(* How many outputs select_inputs takes: the least number that covers what *)
(* is needed, if there is one and no sum on the way overflows.             *)
Counts(o, needed) ==
  {n \in 1..Len(o) : Total(o, ToSet(SubSeq(Ranked(o), 1, n))) >= needed}
Selects(o, needed) ==
  /\ Counts(o, needed) # {}
  /\ Total(o, ToSet(SubSeq(Ranked(o), 1, Min(Counts(o, needed))))) <= MAX
Selected(o, needed) ==
  [k \in 1..Min(Counts(o, needed)) |-> o[Ranked(o)[k]]]

Init ==
  /\ node \in Nodes
  /\ moves = 0
  /\ pc = "idle"
  /\ req \in Requests /\ owned \in Caches
  /\ sel = <<>>
  /\ info = [claim |-> node.claim, tip |-> 0, total |-> 0]
  /\ rings = <<>> /\ attempt = 0
  /\ replaced = FALSE
  /\ tx = NoTx
-----------------------------------------------------------------------------
(* Mutant: amount and fee are added without a check and wrap around. *)
Wrapping(r) == (r.amount + r.fee) % (MAX + 1)

(* total_needed *)
Needed(r) == r.amount + r.fee

(* What is checked before the node is called. *)
Begin ==
  /\ pc = "idle"
  /\ IF req.amount = 0 \/ req.fee = 0 \/ Needed(req) > MAX
     THEN pc' = "failed" /\ sel' = <<>>
     ELSE IF ~Selects(owned, Needed(req))
     THEN pc' = "unfunded" /\ sel' = <<>>
     ELSE /\ pc' = IF req.to = "garbled" THEN "failed" ELSE "connect"
          /\ sel' = Selected(owned, Needed(req))
  /\ UNCHANGED <<node, moves, req, owned, info, rings, attempt, replaced, tx>>

(* RpcClient::connect asks for the identity once. *)
Connect ==
  /\ pc = "connect"
  /\ pc' = IF Verified(node.claim) THEN "info" ELSE "failed"
  /\ UNCHANGED <<node, moves, input, info, rings, attempt, replaced, tx>>

(* verified_chain_info asks again, and keeps the answer. *)
ReadInfo ==
  /\ pc = "info"
  /\ info' = [claim |-> node.claim, tip |-> node.tip, total |-> node.total]
  /\ pc' = IF /\ Verified(node.claim)
              /\ (req.to = "mainnet") = MagicIsMainnet(node.claim)
              /\ node.tip >= Params'.active
           THEN "verify" ELSE "failed"
  /\ UNCHANGED <<node, moves, input, rings, attempt, replaced, tx>>

(* Mutant: an output need only exist. *)
Exists(o) == o.index \in DOMAIN node.outs

(* The node has the output the wallet remembers under its index. *)
OnChain(o) == o.index \in DOMAIN node.outs /\ node.outs[o.index].key = o.key

(* get_output_info, for all inputs at once. *)
VerifyOutputs ==
  /\ pc = "verify"
  /\ pc' = IF \A k \in DOMAIN sel : OnChain(sel[k]) THEN "ring" ELSE "failed"
  /\ replaced' = FALSE
  /\ UNCHANGED <<node, moves, input, info, rings, attempt, tx>>

Real(k) == [index |-> sel[k].index, height |-> sel[k].height]

(* num_decoys *)
Decoys == Most(req.ring, 2) - 1

(* What get_random_outputs may return, but for the real output. *)
Candidates(k) ==
  {[index |-> i, height |-> node.outs[i].height] :
     i \in {j \in DOMAIN node.outs : j < info.total /\ j # sel[k].index}}

(* Mutant: one attempt more. *)
TriedOnceMore ==
  /\ attempt' = attempt + 1
  /\ pc' = IF attempt = MaxRetries THEN "failed" ELSE "ring"
  /\ UNCHANGED rings

(* The attempt selected nothing that passes; the last one fails the build. *)
Tried ==
  /\ attempt' = attempt + 1
  /\ pc' = IF attempt + 1 = MaxRetries THEN "failed" ELSE "ring"
  /\ UNCHANGED rings

(* Mutant: the selection is taken as it is. *)
FetchUnchecked ==
  /\ pc = "ring"
  /\ LET k == Len(rings) + 1
     IN  \E cands \in SUBSET Candidates(k) :
           \E decoys \in Selections(cands, Real(k), Decoys, Params) :
             /\ rings' = Append(rings, decoys \cup {Real(k)})
             /\ attempt' = 0
             /\ pc' = IF k = Len(sel) THEN "build" ELSE "ring"
  /\ UNCHANGED <<node, moves, input, info, replaced, tx>>

(* One attempt of fetch_decoys for the next input. *)
FetchDecoys ==
  /\ pc = "ring"
  /\ LET k == Len(rings) + 1
     IN  \E cands \in SUBSET Candidates(k) :
           \/ /\ Selections(cands, Real(k), Decoys, Params) = {}
              /\ Tried
           \/ \E decoys \in Selections(cands, Real(k), Decoys, Params) :
                IF ~RingValid(decoys \cup {Real(k)}, info.total, Params)
                THEN Tried
                ELSE IF ~AuditPasses(decoys, info.total)
                THEN pc' = "failed" /\ UNCHANGED <<rings, attempt>>
                ELSE /\ rings' = Append(rings, decoys \cup {Real(k)})
                     /\ attempt' = 0
                     /\ pc' = IF k = Len(sel) THEN "build" ELSE "ring"
  /\ UNCHANGED <<node, moves, input, info, replaced, tx>>

(* change *)
Change == Total(sel, DOMAIN sel) - Needed(req)

(* The recipient's output, a change output if there is change, the fee. *)
Build ==
  /\ pc = "build"
  /\ tx' = [ins |-> {sel[k].index : k \in DOMAIN sel},
            outs |-> <<req.amount>> \o (IF Change > 0 THEN <<Change>> ELSE <<>>),
            fee |-> req.fee]
  /\ pc' = "done"
  /\ UNCHANGED <<node, moves, input, info, rings, attempt, replaced>>

(* A call fails, and with it the build. *)
RpcFails ==
  /\ pc \in Reading
  /\ pc' = "failed"
  /\ UNCHANGED <<node, moves, input, info, rings, attempt, replaced, tx>>
-----------------------------------------------------------------------------
(* A block with an output is added to the node's chain. *)
Extend ==
  /\ moves < MaxMoves
  /\ moves' = moves + 1
  /\ node' = [node EXCEPT !.tip = @ + 1, !.total = @ + 1]
  /\ UNCHANGED <<pc, input, info, rings, attempt, replaced, tx>>

(* A reorganisation puts another output in the place of one. *)
Replace(i) ==
  /\ moves < MaxMoves
  /\ moves' = moves + 1
  /\ node' = [node EXCEPT !.outs[i].key = "replaced"]
  /\ replaced' = TRUE
  /\ UNCHANGED <<pc, input, info, rings, attempt, tx>>

Next ==
  \/ Begin \/ Connect \/ ReadInfo \/ VerifyOutputs \/ FetchDecoys \/ Build
  \/ RpcFails
  \/ Extend \/ \E i \in DOMAIN node.outs : Replace(i)

Spec == Init /\ [][Next]_vars
-----------------------------------------------------------------------------
(* Every variable holds a value of its type. *)
TypeOK ==
  /\ node.total \in Nat /\ node.tip \in Nat /\ moves \in 0..MaxMoves
  /\ pc \in Reading \cup {"idle", "build", "failed", "unfunded", "done"}
  /\ req \in Requests /\ owned \in Caches /\ ToSet(sel) \subseteq ToSet(owned)
  /\ Len(rings) <= Len(sel) /\ attempt \in 0..MaxRetries
  /\ replaced \in BOOLEAN

(* select_inputs takes as few outputs as any way of paying could, and      *)
(* refuses a payment only if the wallet cannot cover it or holds more than *)
(* a u64 counts.                                                           *)
SelectionIsExact ==
  LET all == Total(owned, DOMAIN owned)
  IN  /\ sel # <<>> =>
           \A S \in SUBSET DOMAIN owned :
             Total(owned, S) >= req.amount + req.fee => Cardinality(S) >= Len(sel)
      /\ pc = "unfunded" => all < req.amount + req.fee \/ all > MAX

(* What goes into a transaction comes out of it, and nothing of it leaves  *)
(* the range of a u64: no output and no fee is the remainder of a sum that *)
(* wrapped around.                                                         *)
ValueConserved ==
  pc = "done" =>
    LET ins == {k \in DOMAIN owned : owned[k].index \in tx.ins}
        outs == FoldLeft(+, 0, tx.outs)
    IN  /\ Total(owned, ins) = outs + tx.fee
        /\ outs + tx.fee <= MAX /\ Head(tx.outs) = req.amount
        /\ \A k \in DOMAIN tx.outs : tx.outs[k] > 0

(* Unless a reorganisation reached an input after it was compared, the     *)
(* node's chain has every input of the transaction as the wallet signed    *)
(* for it, however stale the cache was that the request came with.         *)
InputsOnChain ==
  pc = "done" /\ ~replaced =>
    \A k \in DOMAIN sel : node.outs[sel[k].index].key = sel[k].key

(* The three things that say which network is meant agree: the version of  *)
(* the recipient's address, the magic that admits it and the name that     *)
(* chooses the ring parameters, whatever mixture of them a node claims.    *)
OneNetwork ==
  pc = "done" => /\ (req.to = "mainnet") = NamedMainnet(info.claim)
                 /\ info.claim.genesis = info.claim.network

(* Every input is in its own ring, which has the size asked for or more,   *)
(* only outputs the node had counted, never all of three or more decoys    *)
(* from one tenth of them, and keeps the rules of the network at the       *)
(* node's present height unless the chain grew since it was read.          *)
RingsKeepRules ==
  pc = "done" =>
    /\ Len(rings) = Len(sel)
    /\ \A k \in DOMAIN rings :
         LET ring == rings[k]
         IN  /\ sel[k].index \in Indices(ring)
             /\ Cardinality(Indices(ring)) = Cardinality(ring)
             /\ Cardinality(ring) >= Most(req.ring, 2)
             /\ Indices(ring) \subseteq 0..(info.total - 1)
             /\ Cardinality(ring) > 3 /\ info.total >= 10 =>
                  Cardinality({i \div (info.total \div 10) :
                                 i \in Indices(ring) \ {sel[k].index}}) > 1
             /\ info.tip = node.tip =>
                  RingValid(ring, node.total,
                    VreParams(NamedMainnet(node.claim), node.tip, node.total))

(* From the activation height on, the adapted parameters ask for no more   *)
(* than the chain offers: blocks at height 0, at the tip and in between    *)
(* span the heights, fill the bands and the indices that are required.     *)
RulesAreFeasible ==
  info.tip >= Params.active =>
    /\ Params.span < info.tip
    /\ info.tip \div Params.width + 1 >= Params.bands
    /\ info.total > 0 => Params.bps <= ((info.total - 1) * 10000) \div info.total
=============================================================================
