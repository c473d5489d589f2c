-------------------------- MODULE ChainScanProofs ---------------------------
(***************************************************************************)
(* Theorems about ChainScan, for any blocks, heights and number of         *)
(* reorganisations.  What the scan has collected is compared with the      *)
(* first m blocks of the chain, for every m that no reorganisation reached *)
(* and the scan has read: a reorganisation may take an undecodable block   *)
(* away, and what lies below it must then be right as well.                *)
(***************************************************************************)
EXTENDS ChainScan, FiniteSetTheorems, TLAPS

(* The first m blocks of chain c: all decoded, what they create of the     *)
(* wallet's from height s on, what they spend from there on.               *)
ClearTo(c, m) == \A k \in 1..m : ~c[k].opaque
LocatedIn(c, k) ==
  {Found(c[k].outs[n], Offset(c, k) + n - 1, k - 1) : n \in OwnIn(c[k].outs)}
LocatedTo(c, m, s) == UNION {LocatedIn(c, k) : k \in (s + 1)..m}
SpentFrom(c, m, s) == UNION {c[k].spends : k \in (s + 1)..m}

(* An output is created once, and spent after it was created. *)
ValidChain ==
  /\ \A j, k \in DOMAIN chain :
       \A n \in DOMAIN chain[j].outs : \A i \in DOMAIN chain[k].outs :
         chain[j].outs[n] \in Owned /\ chain[k].outs[i] = chain[j].outs[n]
           => j = k /\ n = i
  /\ \A k \in DOMAIN chain : \A o \in chain[k].spends :
       \E j \in 1..(k - 1) : \E n \in DOMAIN chain[j].outs : chain[j].outs[n] = o

Bounds ==
  /\ chain \in Seq(Blocks)
  /\ Len(chain) \in 1..(MaxHeight + 1) /\ low \in 1..Len(chain)
  /\ reorgs \in 0..MaxReorgs
  /\ pc \in {"idle", "prefix", "main", "done", "failed"}
  /\ start \in 0..end /\ end \in 0..MaxHeight /\ scanned \in 0..end
  /\ h \in 0..(end + 1) /\ index \in Nat
  /\ images \subseteq Owned
  /\ \A f \in found : /\ f.out \in Owned /\ f.index \in Nat
                      /\ f.height \in start..end /\ f.height < h
  /\ pc = "prefix" => h < start /\ found = {} /\ images = {}
  /\ pc \in {"main", "done"} => h >= start

(* What is collected, for the blocks that stayed on the chain.             *)
Collected ==
  /\ \A m \in 0..h : m <= low /\ ClearTo(chain, m) =>
       {f \in found : f.height < m} = LocatedTo(chain, m, start)
  /\ h <= low /\ ClearTo(chain, h) =>
       /\ index = Offset(chain, h + 1)
       /\ images = SpentFrom(chain, h, start)

ScanInv == Bounds /\ ValidChain /\ Collected
-----------------------------------------------------------------------------
(* Blocks and their outputs. *)

(* A block of a chain, and the places of its outputs.                      *)
LEMMA BlockTypes ==
  ASSUME NEW c \in Seq(Blocks), NEW k \in 1..Len(c)
  PROVE  /\ c[k] \in Blocks /\ c[k].outs \in Seq(Owned \cup {Foreign})
         /\ c[k].spends \subseteq Owned /\ c[k].opaque \in BOOLEAN
         /\ Len(c[k].outs) \in Nat /\ DOMAIN c[k].outs = 1..Len(c[k].outs)
  <1>1. c[k] \in Blocks
    OBVIOUS
  <1>2. c[k].outs \in Shapes /\ c[k].spends \subseteq Owned /\ c[k].opaque \in BOOLEAN
    BY <1>1 DEF Blocks
  <1>3. c[k].outs \in Seq(Owned \cup {Foreign})
    BY <1>2, ScanAssumption
  <1> QED
    BY <1>1, <1>2, <1>3

(* The outputs of block k, as Before counts them.                          *)
LEMMA OneBlock ==
  ASSUME NEW c \in Seq(Blocks), NEW k \in 1..Len(c)
  PROVE  /\ IsFiniteSet({k} \X DOMAIN c[k].outs)
         /\ Cardinality({k} \X DOMAIN c[k].outs) = Len(c[k].outs)
  <1> DEFINE n == Len(c[k].outs)
  <1>1. n \in Nat /\ DOMAIN c[k].outs = 1..n
    BY BlockTypes
  <1> HIDE DEF n
  <1>2. IsFiniteSet(1..n) /\ Cardinality(1..n) = n
    <2>1. 1 \in Int /\ n \in Int
      BY <1>1
    <2>2. IsFiniteSet(1..n) /\ Cardinality(1..n) = IF 1 > n THEN 0 ELSE n - 1 + 1
      BY ONLY <2>1, FS_Interval
    <2> QED
      BY <1>1, <2>2
  <1>3. IsFiniteSet({k}) /\ Cardinality({k}) = 1
    BY FS_Singleton
  <1>4. /\ IsFiniteSet({k} \X (1..n))
        /\ Cardinality({k} \X (1..n)) = Cardinality({k}) * Cardinality(1..n)
    BY <1>2, <1>3, FS_Product
  <1>5. Cardinality({k} \X (1..n)) = n
    BY <1>1, <1>2, <1>3, <1>4
  <1> QED
    BY <1>1, <1>4, <1>5 DEF n

(* There are finitely many outputs before a block: Offset is a number.     *)
LEMMA OffsetIsNat ==
  ASSUME NEW c \in Seq(Blocks), NEW k \in 1..(Len(c) + 1)
  PROVE  IsFiniteSet(Before(c, k)) /\ Offset(c, k) \in Nat
  <1> DEFINE part(j) == {j} \X DOMAIN c[j].outs
             parts == {part(j) : j \in 1..(k - 1)}
             f == [j \in 1..(k - 1) |-> part(j)]
  <1>1. IsFiniteSet(1..(k - 1))
    BY FS_Interval
  <1>2. f \in Surjection(1..(k - 1), parts)
    BY DEF Surjection
  <1>3. IsFiniteSet(parts)
    <2> HIDE DEF parts, f
    <2> QED BY <1>1, <1>2, FS_Surjection
  <1>4. \A T \in parts : IsFiniteSet(T)
    <2>1. \A j \in 1..(k - 1) : j \in 1..Len(c)
      OBVIOUS
    <2>2. \A j \in 1..(k - 1) : IsFiniteSet(part(j))
      BY <2>1, OneBlock
    <2> HIDE DEF part
    <2> QED BY <2>2
  <1>5. IsFiniteSet(UNION parts)
    <2> HIDE DEF parts, f
    <2> QED BY <1>3, <1>4, FS_UNION
  <1>6. IsFiniteSet(Before(c, k))
    BY <1>5 DEF Before
  <1> QED
    BY <1>6, FS_CardinalityType DEF Offset

(* Nothing precedes the first block.                                       *)
LEMMA OffsetFirst ==
  ASSUME NEW c
  PROVE  Offset(c, 1) = 0
  <1>1. Before(c, 1) = {}
    BY DEF Before
  <1> QED
    BY <1>1, FS_EmptySet DEF Offset

(* The outputs of block k precede those of block k + 1.                    *)
LEMMA OffsetNext ==
  ASSUME NEW c \in Seq(Blocks), NEW k \in 1..Len(c)
  PROVE  Offset(c, k + 1) = Offset(c, k) + Len(c[k].outs)
  <1> DEFINE part(j) == {j} \X DOMAIN c[j].outs
  <1>1. 1..((k + 1) - 1) = (1..(k - 1)) \cup {k}
    OBVIOUS
  <1>2. Before(c, k + 1) = Before(c, k) \cup part(k)
    BY <1>1 DEF Before
  <1>3. Before(c, k) \cap part(k) = {}
    BY DEF Before
  <1>4. IsFiniteSet(Before(c, k)) /\ Offset(c, k) \in Nat
    BY OffsetIsNat
  <1>5. IsFiniteSet(part(k)) /\ Cardinality(part(k)) = Len(c[k].outs)
    BY OneBlock
  <1>6. Len(c[k].outs) \in Nat
    BY BlockTypes
  <1> HIDE DEF part
  <1>7. Cardinality(Before(c, k) \cup part(k))
          = Cardinality(Before(c, k)) + Cardinality(part(k))
              - Cardinality(Before(c, k) \cap part(k))
    BY <1>4, <1>5, FS_Union
  <1>8. Cardinality(Before(c, k) \cap part(k)) = 0
    BY <1>3, FS_EmptySet
  <1>9. Offset(c, k + 1) = Offset(c, k) + Len(c[k].outs) - 0
    BY <1>2, <1>5, <1>7, <1>8 DEF Offset
  <1> QED
    BY <1>4, <1>6, <1>9

-----------------------------------------------------------------------------
(* What is said of the first m blocks depends on them alone. *)
Agree(c, d, m) ==
  /\ c \in Seq(Blocks) /\ d \in Seq(Blocks)
  /\ m \in Nat /\ m <= Len(c) /\ m <= Len(d)
  /\ \A k \in 1..m : c[k] = d[k]

(* Two chains that agree on m blocks agree on where the first m + 1 begin. *)
LEMMA OffsetAgrees ==
  ASSUME NEW c, NEW d, NEW m, Agree(c, d, m), NEW k \in 1..(m + 1)
  PROVE  Offset(c, k) = Offset(d, k)
  <1>1. \A j \in 1..(k - 1) : c[j] = d[j]
    BY DEF Agree
  <1>2. Before(c, k) = Before(d, k)
    BY <1>1 DEF Before
  <1> QED
    BY <1>2 DEF Offset

(* And on everything the scan collects from them.                          *)
LEMMA PrefixAgrees ==
  ASSUME NEW c, NEW d, NEW m, Agree(c, d, m), NEW i \in 0..m, NEW s \in Nat
  PROVE  /\ ClearTo(c, i) <=> ClearTo(d, i)
         /\ LocatedTo(c, i, s) = LocatedTo(d, i, s)
         /\ SpentFrom(c, i, s) = SpentFrom(d, i, s)
  <1>1. \A k \in 1..i : c[k] = d[k] /\ k \in 1..(m + 1)
    BY DEF Agree
  <1>2. \A k \in 1..i : Offset(c, k) = Offset(d, k)
    BY <1>1, OffsetAgrees
  <1>3. ClearTo(c, i) <=> ClearTo(d, i)
    BY <1>1 DEF ClearTo
  <1>4. \A k \in (s + 1)..i : k \in 1..i
    OBVIOUS
  <1>5. LocatedTo(c, i, s) = LocatedTo(d, i, s)
    BY <1>1, <1>2, <1>4 DEF LocatedTo, LocatedIn
  <1>6. SpentFrom(c, i, s) = SpentFrom(d, i, s)
    BY <1>1, <1>4 DEF SpentFrom
  <1> QED
    BY <1>3, <1>5, <1>6

(* The first m blocks of the chain as a chain of their own.                *)
LEMMA PrefixAsChain ==
  ASSUME NEW c \in Seq(Blocks), NEW m \in 0..Len(c), NEW s \in Nat
  PROVE  LET read == SubSeq(c, 1, m)
         IN  /\ OpaqueIn(read) = {} <=> ClearTo(c, m)
             /\ Located(read, s) = LocatedTo(c, m, s)
             /\ Spent(read) = UNION {c[k].spends : k \in 1..m}
  <1> DEFINE read == SubSeq(c, 1, m)
  <1>1. read \in Seq(Blocks) /\ Len(read) = m /\ \A k \in 1..m : read[k] = c[k]
    OBVIOUS
  <1> HIDE DEF read
  <1>2. DOMAIN read = 1..m
    BY <1>1
  <1>3. Agree(read, c, m)
    BY <1>1 DEF Agree
  <1>4. m \in 0..m
    OBVIOUS
  <1>5. OpaqueIn(read) = {} <=> ClearTo(c, m)
    BY <1>1, <1>2 DEF OpaqueIn, ClearTo
  <1>6. {j \in DOMAIN read : j > s} = (s + 1)..m
    BY <1>2
  <1>7. Located(read, s) = LocatedTo(read, m, s)
    BY <1>6 DEF Located, LocatedTo, LocatedIn
  <1>8. LocatedTo(read, m, s) = LocatedTo(c, m, s)
    BY <1>3, <1>4, PrefixAgrees
  <1>9. Spent(read) = UNION {c[k].spends : k \in 1..m}
    BY <1>1, <1>2 DEF Spent
  <1> QED
    BY <1>5, <1>7, <1>8, <1>9 DEF read

-----------------------------------------------------------------------------
(* The chain the node serves. *)

LEMMA ValidInit ==
  ASSUME Init
  PROVE  Bounds /\ ValidChain
  <1>1. PICK b \in Blocks : Follows(<<>>, b) /\ chain = <<b>>
    BY DEF Init
  <1>2. chain \in Seq(Blocks) /\ Len(chain) = 1 /\ chain[1] = b /\ DOMAIN chain = {1}
    BY <1>1
  <1>3. Created(<<>>) = {}
    BY DEF Created
  <1>4. b.spends = {}
    BY <1>1, <1>3 DEF Follows
  <1>5. Bounds
    BY <1>2, ScanAssumption DEF Init, Bounds
  <1>6. ValidChain
    BY <1>1, <1>2, <1>4 DEF Follows, ValidChain
  <1> QED
    BY <1>5, <1>6

(* A block that follows a valid chain keeps it valid.                      *)
LEMMA ValidExtend ==
  ASSUME Bounds, ValidChain, NEW b \in Blocks, Extend(b)
  PROVE  ValidChain'
  <1> DEFINE n == Len(chain)
  <1>1. /\ chain \in Seq(Blocks) /\ n \in Nat /\ DOMAIN chain = 1..n
        /\ chain' = Append(chain, b)
    BY DEF Bounds, Extend
  <1>2. /\ DOMAIN chain' = 1..(n + 1) /\ chain'[n + 1] = b
        /\ \A k \in 1..n : chain'[k] = chain[k]
    BY <1>1
  <1> HIDE DEF n
  <1>3. /\ \A o \in Owned : \A j, k \in DOMAIN b.outs :
             b.outs[j] = o => o \notin Created(chain) /\ (b.outs[k] = o => j = k)
        /\ b.spends \subseteq Created(chain)
    BY DEF Extend, Follows
  <1>4. \A k \in 1..(n + 1) : k \in 1..n \/ k = n + 1
    BY <1>1
  <1>5. ASSUME NEW j \in 1..(n + 1), NEW k \in 1..(n + 1),
               NEW x \in DOMAIN chain'[j].outs, NEW y \in DOMAIN chain'[k].outs,
               chain'[j].outs[x] \in Owned,
               chain'[k].outs[y] = chain'[j].outs[x]
        PROVE  j = k /\ x = y
    <2>1. CASE j \in 1..n /\ k \in 1..n
      BY <1>1, <1>2, <1>5, <2>1 DEF ValidChain
    <2>2. CASE j = n + 1 /\ k = n + 1
      BY <1>2, <1>3, <1>5, <2>2
    <2>3. CASE j \in 1..n /\ k = n + 1
      <3>1. chain[j].outs[x] \in Created(chain)
        BY <1>1, <1>2, <1>5, <2>3 DEF Created
      <3> QED
        BY <1>2, <1>3, <1>5, <2>3, <3>1
    <2>4. CASE j = n + 1 /\ k \in 1..n
      <3>1. chain[k].outs[y] \in Created(chain)
        BY <1>1, <1>2, <1>5, <2>4 DEF Created
      <3> QED
        BY <1>2, <1>3, <1>5, <2>4, <3>1
    <2> QED
      BY <1>4, <2>1, <2>2, <2>3, <2>4
  <1>6. ASSUME NEW k \in 1..(n + 1), NEW o \in chain'[k].spends
        PROVE  \E j \in 1..(k - 1) : \E x \in DOMAIN chain'[j].outs : chain'[j].outs[x] = o
    <2>1. CASE k \in 1..n
      <3>1. PICK j \in 1..(k - 1) : \E x \in DOMAIN chain[j].outs : chain[j].outs[x] = o
        BY <1>1, <1>2, <1>6, <2>1 DEF ValidChain
      <3>2. chain'[j] = chain[j]
        BY <1>1, <1>2, <2>1, <3>1
      <3> QED
        BY <3>1, <3>2
    <2>2. CASE k = n + 1
      <3>1. o \in Created(chain)
        BY <1>2, <1>3, <1>6, <2>2
      <3>2. PICK j \in 1..n : \E x \in DOMAIN chain[j].outs : chain[j].outs[x] = o
        BY <1>1, <3>1 DEF Created
      <3>3. chain'[j] = chain[j] /\ j \in 1..(k - 1)
        BY <1>1, <1>2, <2>2, <3>2
      <3> QED
        BY <3>2, <3>3
    <2> QED
      BY <1>4, <2>1, <2>2
  <1> QED
    BY <1>2, <1>5, <1>6 DEF ValidChain

(* And so does its last block leaving.                                     *)
LEMMA ValidReorg ==
  ASSUME Bounds, ValidChain, Reorg
  PROVE  ValidChain'
  <1> DEFINE n == Len(chain) - 1
  <1>1. /\ chain \in Seq(Blocks) /\ n \in Nat /\ DOMAIN chain = 1..(n + 1)
        /\ chain' = SubSeq(chain, 1, n)
    BY DEF Bounds, Reorg
  <1>2. DOMAIN chain' = 1..n /\ \A k \in 1..n : chain'[k] = chain[k]
    BY <1>1
  <1> HIDE DEF n
  <1>3. \A k \in 1..n : k \in DOMAIN chain /\ \A j \in 1..(k - 1) : j \in 1..n
    BY <1>1
  <1>4. ASSUME NEW k \in 1..n, NEW o \in chain'[k].spends
        PROVE  \E j \in 1..(k - 1) : \E x \in DOMAIN chain'[j].outs : chain'[j].outs[x] = o
    <2>1. PICK j \in 1..(k - 1) : \E x \in DOMAIN chain[j].outs : chain[j].outs[x] = o
      BY <1>2, <1>3, <1>4 DEF ValidChain
    <2>2. chain'[j] = chain[j]
      BY <1>2, <1>3, <2>1
    <2> QED
      BY <2>1, <2>2
  <1>5. \A j, k \in 1..n :
          \A x \in DOMAIN chain'[j].outs : \A y \in DOMAIN chain'[k].outs :
            chain'[j].outs[x] \in Owned /\ chain'[k].outs[y] = chain'[j].outs[x]
              => j = k /\ x = y
    BY <1>2, <1>3 DEF ValidChain
  <1> QED
    BY <1>2, <1>4, <1>5 DEF ValidChain

-----------------------------------------------------------------------------
(* The heights, the position and the shape of what is collected. *)

(* How far a block advances the global index.                              *)
LEMMA CountedIsNat ==
  ASSUME NEW c \in Seq(Blocks), NEW k \in 1..Len(c)
  PROVE  /\ Counted(c[k]) \in Nat
         /\ ~c[k].opaque => Counted(c[k]) = Len(c[k].outs)
  BY BlockTypes DEF Counted

(* Heights stay in range, whatever the node does to its chain.             *)
LEMMA BoundsStep ==
  ASSUME Bounds, [Next]_vars
  PROVE  Bounds'
  <1>1. CASE UNCHANGED vars
    BY <1>1 DEF vars, Bounds
  <1>2. ASSUME NEW s \in 0..(Len(chain) - 1), Begin(s)
        PROVE  Bounds'
    <2>1. Len(chain) \in 1..(MaxHeight + 1) /\ MaxHeight \in Nat
      BY ScanAssumption DEF Bounds
    <2>2. /\ chain' = chain /\ low' = Len(chain) /\ reorgs' = reorgs
          /\ start' = s /\ end' = Len(chain) - 1 /\ h' = 0 /\ index' = 0
          /\ found' = {} /\ images' = {}
          /\ scanned' = IF s = 0 THEN 0 ELSE s - 1
          /\ pc' = IF s > 0 THEN "prefix" ELSE "main"
      BY <1>2 DEF Begin, TipHeight
    <2>3. /\ chain' \in Seq(Blocks) /\ Len(chain') \in 1..(MaxHeight + 1)
          /\ reorgs' \in 0..MaxReorgs /\ low' \in 1..Len(chain')
      BY <2>1, <2>2 DEF Bounds
    <2>4. /\ end' \in 0..MaxHeight /\ start' \in 0..end' /\ scanned' \in 0..end'
          /\ h' \in 0..(end' + 1) /\ index' \in Nat
      BY <2>1, <2>2
    <2> QED
      BY <2>2, <2>3, <2>4 DEF Bounds
  <1>3. CASE ReadPrefix
    <2>1. Counted(chain[h + 1]) \in Nat
      BY <1>3, CountedIsNat DEF ReadPrefix, Bounds
    <2>2. index' \in Nat
      BY <1>3, <2>1 DEF ReadPrefix, Bounds
    <2> QED
      BY <1>3, <2>2 DEF ReadPrefix, Bounds
  <1>4. CASE ReadBlock
    <2> DEFINE b == chain[h + 1]
               new == {Found(b.outs[n], index + n - 1, h) : n \in OwnIn(b.outs)}
    <2>1. /\ b.spends \subseteq Owned /\ Counted(b) \in Nat
          /\ \A n \in OwnIn(b.outs) : n \in Nat /\ n >= 1 /\ b.outs[n] \in Owned
      <3>1. chain \in Seq(Blocks) /\ h + 1 \in 1..Len(chain)
        BY <1>4, ScanAssumption DEF ReadBlock, Bounds
      <3>2. b.spends \subseteq Owned /\ Counted(b) \in Nat
        BY <3>1, BlockTypes, CountedIsNat
      <3>3. DOMAIN b.outs = 1..Len(b.outs)
        BY <3>1, BlockTypes
      <3> QED
        BY <3>2, <3>3 DEF OwnIn
    <2>2. /\ images' \subseteq images \cup b.spends
          /\ found' \subseteq found \cup new
          /\ index' = index + Counted(b)
      BY <1>4 DEF ReadBlock
    <2>3. \A f \in new : f.out \in Owned /\ f.index \in Nat /\ f.height = h
      <3> HIDE DEF b
      <3> QED BY <2>1 DEF Found, Bounds
    <2> HIDE DEF b, new
    <2>4. /\ h <= end /\ h' = h + 1 /\ scanned' = h /\ pc = "main"
          /\ pc' = pc /\ start' = start /\ end' = end
          /\ chain' = chain /\ reorgs' = reorgs /\ low' = low
      BY <1>4 DEF ReadBlock
    <2>5. h >= start /\ h \in Nat /\ start \in Nat /\ end \in Nat
      BY <2>4, ScanAssumption DEF Bounds
    <2>6. \A f \in found' : /\ f.out \in Owned /\ f.index \in Nat
                            /\ f.height \in start..end /\ f.height < h + 1
      <3>1. \A f \in found : f.height \in start..end /\ f.height < h + 1
        BY <2>5 DEF Bounds
      <3>2. \A f \in new : f.height \in start..end /\ f.height < h + 1
        BY <2>3, <2>4, <2>5
      <3> QED
        BY <2>2, <2>3, <3>1, <3>2 DEF Bounds
    <2>7. images' \subseteq Owned /\ index' \in Nat
      BY <2>1, <2>2 DEF Bounds
    <2> QED
      BY <2>4, <2>5, <2>6, <2>7 DEF Bounds
  <1>5. CASE Finish
    BY <1>5 DEF Finish, Bounds
  <1>6. CASE RpcFails
    BY <1>6 DEF RpcFails, Bounds
  <1>7. CASE Deliver
    BY <1>7 DEF Deliver, Bounds
  <1>8. ASSUME NEW b \in Blocks, Extend(b)
        PROVE  Bounds'
    <2>1. /\ chain' = Append(chain, b) /\ Len(chain) <= MaxHeight
          /\ UNCHANGED <<reorgs, low, scanVars>>
      BY <1>8 DEF Extend
    <2>2. /\ chain' \in Seq(Blocks) /\ Len(chain') = Len(chain) + 1
          /\ Len(chain) \in Nat
      BY <2>1 DEF Bounds
    <2> QED
      BY <2>1, <2>2, ScanAssumption DEF Bounds, scanVars
  <1>9. CASE Reorg
    <2>1. /\ chain' = SubSeq(chain, 1, Len(chain) - 1) /\ Len(chain) > 1
          /\ low' = IF Len(chain) - 1 < low THEN Len(chain) - 1 ELSE low
          /\ reorgs < MaxReorgs /\ reorgs' = reorgs + 1
          /\ UNCHANGED scanVars
      BY <1>9 DEF Reorg
    <2>2. /\ chain' \in Seq(Blocks) /\ Len(chain') = Len(chain) - 1
          /\ Len(chain) \in Nat
      BY <2>1 DEF Bounds
    <2> QED
      BY <2>1, <2>2, ScanAssumption DEF Bounds, scanVars
  <1> QED
    BY <1>1, <1>2, <1>3, <1>4, <1>5, <1>6, <1>7, <1>8, <1>9 DEF Next

-----------------------------------------------------------------------------
(* What is collected. *)

(* Nothing is located in no block.                                         *)
LEMMA NoBlocks ==
  ASSUME NEW c, NEW s \in Nat, NEW m \in 0..s
  PROVE  LocatedTo(c, m, s) = {} /\ SpentFrom(c, m, s) = {}
  <1>1. (s + 1)..m = {}
    OBVIOUS
  <1> QED
    BY <1>1 DEF LocatedTo, SpentFrom

(* One more block.                                                         *)
LEMMA OneMoreBlock ==
  ASSUME NEW c, NEW s \in Nat, NEW m \in Nat, s <= m
  PROVE  /\ LocatedTo(c, m + 1, s) = LocatedTo(c, m, s) \cup LocatedIn(c, m + 1)
         /\ SpentFrom(c, m + 1, s) = SpentFrom(c, m, s) \cup c[m + 1].spends
         /\ ClearTo(c, m + 1) <=> ClearTo(c, m) /\ ~c[m + 1].opaque
  <1>1. (s + 1)..(m + 1) = ((s + 1)..m) \cup {m + 1}
    OBVIOUS
  <1>2. 1..(m + 1) = (1..m) \cup {m + 1}
    OBVIOUS
  <1>3. LocatedTo(c, m + 1, s) = LocatedTo(c, m, s) \cup LocatedIn(c, m + 1)
    BY <1>1 DEF LocatedTo
  <1>5. SpentFrom(c, m + 1, s) = SpentFrom(c, m, s) \cup c[m + 1].spends
    BY <1>1 DEF SpentFrom
  <1>6. ClearTo(c, m + 1) <=> ClearTo(c, m) /\ ~c[m + 1].opaque
    BY <1>2 DEF ClearTo
  <1> QED
    BY <1>3, <1>5, <1>6

(* A change of the chain above what the scan is judged by changes nothing. *)
LEMMA ChainChanges ==
  ASSUME Bounds, Collected, UNCHANGED scanVars,
         low' \in Nat, low' <= low, Agree(chain, chain', low')
  PROVE  Collected'
  <1>1. /\ h' = h /\ start' = start /\ found' = found /\ index' = index
        /\ images' = images
    BY DEF scanVars
  <1>2. h \in Nat /\ start \in Nat /\ low \in Nat
    BY ScanAssumption DEF Bounds
  <1>3. ASSUME NEW m \in 0..h, m <= low', ClearTo(chain', m)
        PROVE  {f \in found : f.height < m} = LocatedTo(chain', m, start)
    <2>1. m \in 0..low' /\ m <= low
      BY <1>3, <1>2
    <2>2. /\ ClearTo(chain, m) <=> ClearTo(chain', m)
          /\ LocatedTo(chain, m, start) = LocatedTo(chain', m, start)
      BY <1>2, <2>1, PrefixAgrees
    <2> QED
      BY <1>3, <2>1, <2>2 DEF Collected
  <1>4. ASSUME h <= low', ClearTo(chain', h)
        PROVE  index = Offset(chain', h + 1) /\ images = SpentFrom(chain', h, start)
    <2> DEFINE l == low'
    <2>1. h <= l /\ l <= low /\ l \in Nat
      BY <1>4
    <2> HIDE DEF l
    <2>2. h \in 0..l
      BY <2>1, <1>2
    <2>3. h <= low
      BY <2>1, <1>2
    <2>4. h + 1 \in 1..(l + 1)
      BY <2>1, <1>2
    <2>5. h \in 0..low' /\ h <= low /\ h + 1 \in 1..(low' + 1)
      BY <2>2, <2>3, <2>4 DEF l
    <2>6. /\ ClearTo(chain, h) <=> ClearTo(chain', h)
          /\ SpentFrom(chain, h, start) = SpentFrom(chain', h, start)
      BY <1>2, <2>5, PrefixAgrees
    <2>7. Offset(chain, h + 1) = Offset(chain', h + 1)
      BY <2>5, OffsetAgrees
    <2> QED
      BY <1>4, <2>5, <2>6, <2>7 DEF Collected
  <1> QED
    BY <1>1, <1>3, <1>4 DEF Collected

(* A block below start_height is counted, and nothing is collected.        *)
LEMMA CollectedReadPrefix ==
  ASSUME Bounds, Collected, ReadPrefix
  PROVE  Collected'
  <1>1. /\ h' = h + 1 /\ index' = index + Counted(chain[h + 1])
        /\ chain' = chain /\ low' = low /\ start' = start
        /\ found' = found /\ images' = images
        /\ found = {} /\ images = {} /\ h < start /\ h < Len(chain)
    BY DEF ReadPrefix, Bounds
  <1>2. /\ chain \in Seq(Blocks) /\ h \in Nat /\ start \in Nat /\ low \in Nat
        /\ Len(chain) \in Nat
    BY ScanAssumption DEF Bounds
  <1>3. ASSUME NEW m \in 0..(h + 1)
        PROVE  LocatedTo(chain, m, start) = {} /\ SpentFrom(chain, m, start) = {}
    <2>1. m \in 0..start
      BY <1>1, <1>2
    <2> QED
      BY <1>2, <2>1, NoBlocks
  <1>4. ASSUME h + 1 <= low, ClearTo(chain, h + 1)
        PROVE  index' = Offset(chain, (h + 1) + 1)
    <2>1. ClearTo(chain, h) /\ ~chain[h + 1].opaque
      BY <1>2, <1>4 DEF ClearTo
    <2>2. index = Offset(chain, h + 1)
      BY <1>2, <1>4, <2>1 DEF Collected
    <2>3. h + 1 \in 1..Len(chain)
      BY <1>1, <1>2
    <2>4. Counted(chain[h + 1]) = Len(chain[h + 1].outs)
      BY <1>2, <2>1, <2>3, CountedIsNat
    <2> QED
      BY <1>1, <1>2, <2>2, <2>3, <2>4, OffsetNext
  <1>5. h + 1 \in 0..(h + 1)
    BY <1>2
  <1> QED
    BY <1>1, <1>3, <1>4, <1>5 DEF Collected

(* A block of the range adds what it holds, under the indices that follow. *)
LEMMA CollectedReadBlock ==
  ASSUME Bounds, Collected, ReadBlock
  PROVE  Collected'
  <1> DEFINE b == chain[h + 1]
             new == {Found(b.outs[n], index + n - 1, h) : n \in OwnIn(b.outs)}
  <1>1. /\ h' = h + 1 /\ index' = index + Counted(b)
        /\ images' = IF b.opaque THEN images ELSE images \cup b.spends
        /\ found' = IF b.opaque THEN found ELSE found \cup new
        /\ chain' = chain /\ low' = low /\ start' = start
    BY DEF ReadBlock
  <1>2. /\ chain \in Seq(Blocks) /\ h \in Nat /\ start \in Nat /\ low \in Nat
        /\ Len(chain) \in Nat /\ h < Len(chain) /\ start <= h
    BY ScanAssumption DEF ReadBlock, Bounds
  <1>3. h + 1 \in 1..Len(chain)
    BY <1>2
  <1>4. \A f \in new : f.height = h
    BY DEF Found
  <1>5. \A f \in found : f.height \in Nat /\ f.height < h
    BY <1>2 DEF Bounds
  <1>6. ASSUME NEW m \in 0..h, m <= low, ClearTo(chain, m)
        PROVE  {f \in found' : f.height < m} = LocatedTo(chain, m, start)
    <2>1. {f \in found' : f.height < m} = {f \in found : f.height < m}
      <3> HIDE DEF new, b
      <3> QED BY <1>1, <1>2, <1>4
    <2> QED
      BY <1>6, <2>1 DEF Collected
  <1>7. ASSUME h + 1 <= low, ClearTo(chain, h + 1)
        PROVE  /\ {f \in found' : f.height < h + 1} = LocatedTo(chain, h + 1, start)
               /\ index' = Offset(chain, (h + 1) + 1)
               /\ images' = SpentFrom(chain, h + 1, start)
    <2>1. ClearTo(chain, h) /\ ~b.opaque
      BY <1>2, <1>7 DEF ClearTo
    <2>2. /\ index = Offset(chain, h + 1)
          /\ images = SpentFrom(chain, h, start)
          /\ {f \in found : f.height < h} = LocatedTo(chain, h, start)
      BY <1>2, <1>7, <2>1 DEF Collected
    <2>3. Counted(b) = Len(b.outs)
      BY <1>2, <1>3, <2>1, CountedIsNat
    <2>4. index' = Offset(chain, (h + 1) + 1)
      BY <1>1, <1>2, <1>3, <2>2, <2>3, OffsetNext
    <2>5. /\ LocatedTo(chain, h + 1, start) = LocatedTo(chain, h, start) \cup new
          /\ SpentFrom(chain, h + 1, start) = SpentFrom(chain, h, start) \cup b.spends
      <3>1. /\ LocatedTo(chain, h + 1, start)
                  = LocatedTo(chain, h, start) \cup LocatedIn(chain, h + 1)
            /\ SpentFrom(chain, h + 1, start)
                  = SpentFrom(chain, h, start) \cup chain[h + 1].spends
        BY ONLY <1>2, OneMoreBlock
      <3>2. LocatedIn(chain, h + 1) = new
        BY <1>2, <2>2 DEF LocatedIn
      <3>3. b = chain[h + 1]
        OBVIOUS
      <3> HIDE DEF b, new
      <3>4. LocatedTo(chain, h + 1, start) = LocatedTo(chain, h, start) \cup new
        BY ONLY <3>1, <3>2
      <3>5. SpentFrom(chain, h + 1, start) = SpentFrom(chain, h, start) \cup b.spends
        BY ONLY <3>1, <3>3
      <3> QED
        BY <3>4, <3>5
    <2> HIDE DEF new, b
    <2>6. {f \in found' : f.height < h + 1} = {f \in found : f.height < h} \cup new
      BY <1>1, <1>2, <1>4, <1>5, <2>1
    <2> QED
      BY <1>1, <2>1, <2>2, <2>4, <2>5, <2>6
  <1>8. \A m \in 0..(h + 1) : m \in 0..h \/ m = h + 1
    BY <1>2
  <1> HIDE DEF new, b
  <1> QED
    BY <1>1, <1>6, <1>7, <1>8 DEF Collected

(* What was collected stays right for the blocks not replaced.             *)
LEMMA CollectedStep ==
  ASSUME Bounds, Bounds', Collected, [Next]_vars
  PROVE  Collected'
  <1>1. CASE UNCHANGED vars
    BY <1>1 DEF vars, Collected
  <1>2. ASSUME NEW s \in 0..(Len(chain) - 1), Begin(s)
        PROVE  Collected'
    <2>1. /\ chain' = chain /\ start' = s /\ h' = 0 /\ index' = 0
          /\ found' = {} /\ images' = {} /\ s \in Nat
      BY <1>2 DEF Begin
    <2>2. 0 \in 0..s
      BY <2>1
    <2>3. LocatedTo(chain, 0, s) = {} /\ SpentFrom(chain, 0, s) = {}
      BY ONLY <2>1, <2>2, NoBlocks
    <2>4. Offset(chain, 1) = 0
      BY OffsetFirst
    <2> QED
      BY <2>1, <2>3, <2>4 DEF Collected
  <1>3. CASE ReadPrefix
    BY <1>3, CollectedReadPrefix
  <1>4. CASE ReadBlock
    BY <1>4, CollectedReadBlock
  <1>5. CASE Finish \/ RpcFails \/ Deliver
    BY <1>5 DEF Finish, RpcFails, Deliver, Collected
  <1>6. ASSUME NEW b \in Blocks, Extend(b)
        PROVE  Collected'
    <2>1. chain' = Append(chain, b) /\ low' = low /\ UNCHANGED scanVars
      BY <1>6 DEF Extend
    <2>2. Agree(chain, chain', low') /\ low' \in Nat /\ low' <= low
      BY <2>1 DEF Agree, Bounds
    <2> QED
      BY <2>1, <2>2, ChainChanges
  <1>7. CASE Reorg
    <2>1. /\ chain' = SubSeq(chain, 1, Len(chain) - 1)
          /\ low' = IF Len(chain) - 1 < low THEN Len(chain) - 1 ELSE low
          /\ UNCHANGED scanVars
      BY <1>7 DEF Reorg
    <2>2. /\ chain \in Seq(Blocks) /\ low \in 1..Len(chain)
          /\ Len(chain) \in Nat /\ Len(chain) > 1
      BY <1>7 DEF Reorg, Bounds
    <2>3. /\ chain' \in Seq(Blocks) /\ Len(chain') = Len(chain) - 1
          /\ \A k \in 1..(Len(chain) - 1) : chain'[k] = chain[k]
      BY <2>1, <2>2
    <2>4. low' \in Nat /\ low' <= low /\ low' <= Len(chain) - 1
      BY <2>1, <2>2
    <2>5. Agree(chain, chain', low')
      BY <2>2, <2>3, <2>4 DEF Agree
    <2> QED
      BY <2>1, <2>4, <2>5, ChainChanges
  <1> QED
    BY <1>1, <1>2, <1>3, <1>4, <1>5, <1>6, <1>7 DEF Next

-----------------------------------------------------------------------------
(* ScanInv holds in every reachable state: the chain the node serves is    *)
(* valid, and for every m up to the blocks read and kept that the wallet   *)
(* decodes, what is collected below height m is what chain blocks 1..m     *)
(* hold from start_height on.                                              *)
THEOREM ScanInvariant == Spec => []ScanInv
  <1>1. Init => ScanInv
    <2> SUFFICES ASSUME Init PROVE ScanInv
      OBVIOUS
    <2>1. Bounds /\ ValidChain
      BY ValidInit
    <2>2. start = 0 /\ h = 0 /\ index = 0 /\ found = {} /\ images = {}
      BY DEF Init
    <2>3. 0 \in 0..0
      OBVIOUS
    <2>4. /\ LocatedTo(chain, 0, 0) = {} /\ SpentFrom(chain, 0, 0) = {}
          /\ Offset(chain, 1) = 0
      BY <2>3, NoBlocks, OffsetFirst
    <2>5. Collected
      BY <2>2, <2>4 DEF Collected
    <2> QED
      BY <2>1, <2>5 DEF ScanInv
  <1>2. ScanInv /\ [Next]_vars => ScanInv'
    <2> SUFFICES ASSUME ScanInv, [Next]_vars PROVE ScanInv'
      OBVIOUS
    <2>1. Bounds /\ ValidChain /\ Collected
      BY DEF ScanInv
    <2>2. Bounds'
      BY <2>1, BoundsStep
    <2>3. Collected'
      BY <2>1, <2>2, CollectedStep
    <2>4. ValidChain'
      <3>1. ASSUME NEW b \in Blocks, Extend(b) PROVE ValidChain'
        BY <2>1, <3>1, ValidExtend
      <3>2. CASE Reorg
        BY <2>1, <3>2, ValidReorg
      <3>3. CASE chain' = chain
        BY <2>1, <3>3 DEF ValidChain
      <3> QED
        BY <3>1, <3>2, <3>3
        DEF Next, vars, Begin, ReadPrefix, ReadBlock, Finish, RpcFails, Deliver
    <2> QED
      BY <2>2, <2>3, <2>4 DEF ScanInv
  <1> QED
    BY <1>1, <1>2, PTL DEF Spec

(* Every variable holds a value of its type: every collected output is the *)
(* wallet's and lies in the range, and no height passes the range's end.   *)
THEOREM ScanTypeCorrect == Spec => []TypeOK
  <1>1. ScanInv => TypeOK
    <2> SUFFICES ASSUME Bounds PROVE TypeOK
      BY DEF ScanInv
    <2>1. low \in 1..(MaxHeight + 1)
      BY ScanAssumption DEF Bounds
    <2>2. start \in 0..MaxHeight
      BY ScanAssumption DEF Bounds
    <2> QED
      BY <2>1, <2>2 DEF Bounds, TypeOK
  <1> QED
    BY <1>1, ScanInvariant, PTL

(* The scan's view of a prefix of the chain nothing replaced.              *)
LEMMA PrefixRead ==
  ASSUME ScanInv, NEW m \in 0..h, m <= low, OpaqueIn(SubSeq(chain, 1, m)) = {}
  PROVE  /\ m \in 0..Len(chain) /\ ClearTo(chain, m)
         /\ {f \in found : f.height < m} = LocatedTo(chain, m, start)
         /\ Located(SubSeq(chain, 1, m), start) = LocatedTo(chain, m, start)
         /\ Spent(SubSeq(chain, 1, m)) = UNION {chain[k].spends : k \in 1..m}
  <1>1. /\ chain \in Seq(Blocks) /\ start \in Nat /\ h \in Nat /\ low \in Nat
        /\ low <= Len(chain) /\ Len(chain) \in Nat
    BY ScanAssumption DEF ScanInv, Bounds
  <1>2. m \in 0..Len(chain)
    BY <1>1
  <1>3. /\ ClearTo(chain, m)
        /\ Located(SubSeq(chain, 1, m), start) = LocatedTo(chain, m, start)
        /\ Spent(SubSeq(chain, 1, m)) = UNION {chain[k].spends : k \in 1..m}
    BY <1>1, <1>2, PrefixAsChain
  <1> QED
    BY <1>2, <1>3 DEF ScanInv, Collected

(* However the chain grew or was reorganised while the scan read it, the   *)
(* outputs collected below the lowest fork are those the node has there,   *)
(* under the global index it gives them.                                   *)
THEOREM IndicesSurviveReorgs == Spec => []IndexedBelowFork
  <1>1. ScanInv => IndexedBelowFork
    <2> SUFFICES ASSUME ScanInv,
                        OpaqueIn(SubSeq(chain, 1, IF low < h THEN low ELSE h)) = {}
                 PROVE  {f \in found : f.height < low}
                          = Located(SubSeq(chain, 1, IF low < h THEN low ELSE h), start)
      BY DEF IndexedBelowFork
    <2> DEFINE m == IF low < h THEN low ELSE h
    <2>1. h \in Nat /\ low \in Nat
      BY ScanAssumption DEF ScanInv, Bounds
    <2>2. m \in 0..h /\ m <= low /\ (m = low \/ (m = h /\ h <= low))
      BY <2>1
    <2>3. OpaqueIn(SubSeq(chain, 1, m)) = {}
      OBVIOUS
    <2>4. \A f \in found : f.height \in Nat /\ f.height < h
      BY <2>1, ScanAssumption DEF ScanInv, Bounds
    <2> HIDE DEF m
    <2>5. {f \in found : f.height < m} = Located(SubSeq(chain, 1, m), start)
      BY <2>2, <2>3, PrefixRead
    <2>6. {f \in found : f.height < m} = {f \in found : f.height < low}
      BY <2>1, <2>2, <2>4
    <2> QED
      BY <2>5, <2>6 DEF m
  <1> QED
    BY <1>1, ScanInvariant, PTL

(* A finished scan of blocks that stayed on the chain returns exactly the  *)
(* wallet's unspent outputs of them: an output created in the range can be *)
(* spent only after it was created, so no key image the scan did not look  *)
(* for, below start_height, could have spent it.                           *)
THEOREM ScanIsExact == Spec => []ExactForBlocksRead
  <1>1. ScanInv => ExactForBlocksRead
    <2> SUFFICES ASSUME ScanInv, h <= low, OpaqueIn(SubSeq(chain, 1, h)) = {}
                 PROVE  Result = Unspent(SubSeq(chain, 1, h), start)
      BY DEF ExactForBlocksRead
    <2>1. h \in Nat /\ low \in Nat /\ start \in Nat
      BY ScanAssumption DEF ScanInv, Bounds
    <2>2. h \in 0..h
      BY <2>1
    <2>3. /\ h \in 0..Len(chain) /\ ClearTo(chain, h)
          /\ {f \in found : f.height < h} = LocatedTo(chain, h, start)
          /\ Located(SubSeq(chain, 1, h), start) = LocatedTo(chain, h, start)
          /\ Spent(SubSeq(chain, 1, h)) = UNION {chain[k].spends : k \in 1..h}
      BY <2>2, PrefixRead
    <2>4. found = LocatedTo(chain, h, start)
      BY <2>3 DEF ScanInv, Bounds
    <2>5. images = SpentFrom(chain, h, start)
      BY <2>3 DEF ScanInv, Collected
    <2>6. ASSUME NEW f \in LocatedTo(chain, h, start)
          PROVE  f.out \in images
                   <=> f.out \in UNION {chain[k].spends : k \in 1..h}
      <3>1. PICK k \in (start + 1)..h : f \in LocatedIn(chain, k)
        BY <2>6 DEF LocatedTo
      <3>2. PICK n \in OwnIn(chain[k].outs) : f.out = chain[k].outs[n]
        BY <3>1 DEF LocatedIn, Found
      <3>3. /\ n \in DOMAIN chain[k].outs /\ f.out \in Owned
            /\ k \in DOMAIN chain /\ \A j \in 1..h : j \in DOMAIN chain
        BY <2>1, <2>3, <3>1, <3>2 DEF OwnIn, ScanInv, Bounds
      <3>4. ASSUME NEW j \in 1..h, f.out \in chain[j].spends
            PROVE  j \in (start + 1)..h
        <4>1. PICK i \in 1..(j - 1) : \E x \in DOMAIN chain[i].outs : chain[i].outs[x] = f.out
          BY <3>3, <3>4 DEF ScanInv, ValidChain
        <4>2. i \in 1..h
          BY <2>1, <4>1
        <4>3. i = k
          BY <3>2, <3>3, <4>1, <4>2 DEF ScanInv, ValidChain
        <4> QED
          BY <2>1, <3>1, <4>1, <4>3
      <3>5. \A j \in (start + 1)..h : j \in 1..h
        BY <2>1
      <3> QED
        BY <2>5, <3>4, <3>5 DEF SpentFrom
    <2> QED
      BY <2>3, <2>4, <2>6 DEF Result, Unspent
  <1> QED
    BY <1>1, ScanInvariant, PTL

-----------------------------------------------------------------------------
(* Every index given is below the next one, and none is given twice.       *)
Numbered ==
  /\ \A f \in found : f.index < index
  /\ \A f, g \in found : f.index = g.index => f = g

(* A block's own outputs take numbers from index on, below those of the    *)
(* next block.                                                             *)
LEMMA NumberedReadBlock ==
  ASSUME Bounds, Numbered, ReadBlock
  PROVE  Numbered'
  <1> DEFINE b == chain[h + 1]
             new == {Found(b.outs[n], index + n - 1, h) : n \in OwnIn(b.outs)}
  <1>1. /\ found' = IF b.opaque THEN found ELSE found \cup new
        /\ index' = index + Counted(b)
    BY DEF ReadBlock
  <1>2. chain \in Seq(Blocks) /\ h + 1 \in 1..Len(chain) /\ index \in Nat
    BY DEF ReadBlock, Bounds
  <1>3. b.outs \in Seq(Owned \cup {Foreign})
    BY <1>2, BlockTypes
  <1> HIDE DEF b
  <1>4. Len(b.outs) \in Nat /\ DOMAIN b.outs = 1..Len(b.outs)
    BY <1>3
  <1>5. \A n \in OwnIn(b.outs) : n \in 1..Len(b.outs)
    BY <1>4 DEF OwnIn
  <1>6. CASE b.opaque
    <2>1. found' = found /\ index' = index
      BY <1>1, <1>2, <1>6 DEF Counted
    <2> QED
      BY <2>1 DEF Numbered
  <1>7. CASE ~b.opaque
    <2>1. found' = found \cup new /\ index' = index + Len(b.outs)
      BY <1>1, <1>7 DEF Counted
    <2>2. \A f \in found : f.index \in Nat
      BY DEF Bounds
    <2>3. \A f \in new : \E n \in 1..Len(b.outs) :
            f = Found(b.outs[n], index + n - 1, h) /\ f.index = index + n - 1
      BY <1>5 DEF Found
    <2> HIDE DEF new
    <2>4. \A f \in found : f.index < index'
      BY <1>2, <1>4, <2>1, <2>2 DEF Numbered
    <2>5. \A f \in new : f.index < index' /\ index <= f.index
      BY <1>2, <1>4, <2>1, <2>3
    <2>6. \A f, g \in new : f.index = g.index => f = g
      <3> TAKE f, g \in new
      <3> HAVE f.index = g.index
      <3>1. PICK n \in 1..Len(b.outs) :
              f = Found(b.outs[n], index + n - 1, h) /\ f.index = index + n - 1
        BY <2>3
      <3>2. PICK m \in 1..Len(b.outs) :
              g = Found(b.outs[m], index + m - 1, h) /\ g.index = index + m - 1
        BY <2>3
      <3>3. m = n
        BY <1>2, <1>4, <3>1, <3>2
      <3> QED
        BY <3>1, <3>2, <3>3
    <2>7. \A f \in found : \A g \in new : f.index # g.index
      BY <1>2, <2>2, <2>5 DEF Numbered
    <2>8. \A f, g \in found : f.index = g.index => f = g
      BY DEF Numbered
    <2>9. \A f, g \in found' : f.index = g.index => f = g
      BY <2>1, <2>6, <2>7, <2>8
    <2>10. \A f \in found' : f.index < index'
      BY <2>1, <2>4, <2>5
    <2> QED
      BY <2>9, <2>10 DEF Numbered
  <1> QED
    BY <1>6, <1>7

(* Whatever the node does to its chain, the outputs a scan collects have   *)
(* distinct global indices: what TransactionBuilder assumes of a cache     *)
(* (CacheAssumption), and what keeps two inputs from being one output.     *)
THEOREM ScanNumbersUpwards == Spec => []Numbered
  <1>1. Init => Numbered
    BY DEF Init, Numbered
  <1>2. ASSUME ScanInv, Numbered, [Next]_vars PROVE Numbered'
    <2>1. CASE ReadBlock
      BY <1>2, <2>1, NumberedReadBlock DEF ScanInv
    <2>2. CASE \E s \in 0..(Len(chain) - 1) : Begin(s)
      BY <2>2 DEF Begin, Numbered
    <2>3. CASE ReadPrefix
      <3> DEFINE b == chain[h + 1]
      <3>1. Bounds /\ found' = found /\ index' = index + Counted(b)
        BY <1>2, <2>3 DEF ReadPrefix, ScanInv
      <3>2. h + 1 \in 1..Len(chain) /\ chain \in Seq(Blocks) /\ index \in Nat
        BY <2>3, <3>1 DEF ReadPrefix, Bounds
      <3>3. b.outs \in Seq(Owned \cup {Foreign})
        BY <3>2, BlockTypes
      <3> HIDE DEF b
      <3>4. Counted(b) \in Nat
        BY <3>3 DEF Counted
      <3>5. \A f \in found : f.index \in Nat
        BY <3>1 DEF Bounds
      <3> QED
        BY <1>2, <3>1, <3>2, <3>4, <3>5 DEF Numbered
    <2>4. CASE Finish \/ RpcFails \/ Deliver
      BY <1>2, <2>4 DEF Finish, RpcFails, Deliver, Numbered
    <2>5. CASE (\E b \in Blocks : Extend(b)) \/ Reorg \/ UNCHANGED vars
      BY <1>2, <2>5 DEF Extend, Reorg, vars, scanVars, Numbered
    <2> QED
      BY <1>2, <2>1, <2>2, <2>3, <2>4, <2>5 DEF Next
  <1>3. ScanInv /\ Numbered /\ [Next]_vars => Numbered'
    BY <1>2
  <1> QED
    BY <1>1, <1>3, ScanInvariant, PTL DEF Spec
=============================================================================
