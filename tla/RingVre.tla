------------------------------- MODULE RingVre -------------------------------
(***************************************************************************)
(* The ring rules of transfer.rs: the parameters a network asks for, as    *)
(* adapted to the height and the number of outputs of the chain            *)
(* (vre_params_for_network), the decoys fetch_decoys may select from the   *)
(* candidates a node returned, the check of the finished ring              *)
(* (check_ring_vre) and the audit of the decoys' distribution.             *)
(*                                                                         *)
(* A ring member is a record with the height and the global index of an    *)
(* output; a ring is a set of members.                                     *)
(***************************************************************************)
EXTENDS Integers, FiniteSets, FiniteSetsExt

Least(a, b) == IF a < b THEN a ELSE b
Most(a, b) == IF a < b THEN b ELSE a
DivCeil(a, b) == (a + b - 1) \div b
-----------------------------------------------------------------------------
(* What the two classes of networks ask for at full height. *)
Target(mainnet) ==
  IF mainnet
  THEN [span |-> 100, bands |-> 3, width |-> 2048, bps |-> 500,
        active |-> 128, ring |-> 16]
  ELSE [span |-> 20, bands |-> 2, width |-> 128, bps |-> 300,
        active |-> 32, ring |-> 4]

(* Mutant: the width of an age band stays what the paper asks for. *)
FixedWidth(t, height) == t.width

(* Age bands shrink until t.bands of them fit below the height. *)
BandWidth(t, height) ==
  IF height > 0 THEN Least(t.width, Most(height \div t.bands, 1)) ELSE t.width

(* The index span grows to its target as n^2 / (n^2 + k^2), in basis       *)
(* points of the number of outputs n, k being 64 rings.                    *)
IndexBps(t, total) ==
  LET k == t.ring * 64
  IN  IF total > 1
      THEN Least((t.bps * total * total) \div (total * total + k * k),
                 ((total - 1) * 10000) \div total)
      ELSE 0

(* VreParams *)
VreParams(mainnet, height, total) ==
  LET t == Target(mainnet)
      span == Least(t.span, Most(height - 1, 0))
      width == BandWidth(t, height)
      bps == IndexBps(t, total)
  IN  [span |-> span, bands |-> t.bands, width |-> width, bps |-> bps,
       active |-> t.active]
-----------------------------------------------------------------------------
Heights(ring) == {m.height : m \in ring}
Indices(ring) == {m.index : m \in ring}
Band(top, height, p) == (top - height) \div p.width

(* VRE-1 to VRE-4: height span, distinct heights, age bands, index span. *)
RingValid(ring, total, p) ==
  LET hs == Heights(ring)
      is == Indices(ring)
  IN  /\ Max(hs) - Min(hs) >= p.span
      /\ Cardinality(hs) >= DivCeil(3 * Cardinality(ring), 4)
      /\ Cardinality({Band(Max(hs), h, p) : h \in hs}) >= p.bands
      /\ ((Max(is) - Min(is)) * 10000) \div Most(total, 1) >= p.bps

(* At most half of the decoys, rounded up, lie in one tenth of the outputs. *)
AuditPasses(decoys, total) ==
  \/ Cardinality(decoys) < 3 \/ total < 10
  \/ \A d \in decoys :
       Cardinality({e \in decoys : e.index \div (total \div 10) = d.index \div (total \div 10)})
         <= DivCeil(Cardinality(decoys), 2)
-----------------------------------------------------------------------------
(* The sets of decoys one attempt may select for the real member out of    *)
(* the candidates: one from each of the youngest bands other than the real *)
(* one's, as many as the rules ask for, then any others up to the count.   *)
(* Bands are counted from the top of real and candidates together.         *)
Selections(cands, real, count, p) ==
  LET top == Max(Heights(cands \cup {real}))
      BandOf(m) == Band(top, m.height, p)
      others == {BandOf(c) : c \in cands} \ {BandOf(real)}
      young == {b \in others : Cardinality({a \in others : a < b}) < p.bands - 1}
      picks == Choices({{c \in cands : BandOf(c) = b} : b \in young})
      Fill(S) == {F \in SUBSET (cands \ S) :
                    Cardinality(F) = Most(count - Cardinality(S), 0)}
  IN  IF Cardinality(cands) < count \/ Cardinality(others) + 1 < p.bands
      THEN {}
      ELSE UNION {{S \cup F : F \in Fill(S)} : S \in picks}
=============================================================================
