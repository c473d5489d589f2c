-------------------------------- MODULE Wots ---------------------------------
(***************************************************************************)
(* wots.rs: hash-chain signatures over the digits of a message hash and a  *)
(* checksum, and the dual signature with Ed25519.  A hash is the value it  *)
(* is computed from: the value of a chain is its secret's name and how far *)
(* along it is, and a chain continued from the wrong place is nowhere.     *)
(***************************************************************************)
EXTENDS Integers, Sequences, Functions

W == 16
CHAIN_MAX == W - 1

(* chain: steps from "start" on; each hash names its step. *)
Chain(value, start, steps) ==
  [value EXCEPT !.at = IF @ = start THEN start + steps ELSE -1]

(* What the digits of the hash leave to their maximum. *)
Checksum(digits) ==
  FoldFunction(LAMBDA d, sum : sum + CHAIN_MAX - d, 0, digits)

(* Mutant: the checksum is not shifted before its digits are taken. *)
Unshifted(digits) ==
  LET c == Checksum(digits)
      byte1 == (c \div 65536) % 256
      byte2 == (c \div 256) % 256
  IN  digits \o <<byte1 \div W, byte1 % W, byte2 \div W>>

(* msg_base_w: the digits of the hash, then three digits out of bytes 1    *)
(* and 2 of the checksum, a big-endian u32 shifted by four bits.           *)
BaseW(digits) ==
  LET c == Checksum(digits) * 16
      byte1 == (c \div 65536) % 256
      byte2 == (c \div 256) % 256
  IN  digits \o <<byte1 \div W, byte1 % W, byte2 \div W>>

Secret(key, i) == [key |-> key, chain |-> i, at |-> 0]

(* public_key: the ends of n chains. *)
PublicKey(key, n) == [i \in 1..n |-> Chain(Secret(key, i), 0, CHAIN_MAX)]

(* sign *)
WotsSign(key, digits) ==
  LET b == BaseW(digits) IN [i \in DOMAIN b |-> Chain(Secret(key, i), 0, b[i])]

(* verify: every chain is continued to its end. *)
WotsVerify(sig, digits, public) ==
  LET b == BaseW(digits) IN
    /\ Len(sig) = Len(b)
    /\ [i \in DOMAIN sig |-> Chain(sig[i], b[i], CHAIN_MAX - b[i])] = public

(* The values of a signature, each carried on along its chain to the digit *)
(* of another hash where it is not beyond it: for stating what the         *)
(* checksum is for.                                                        *)
CarriedOn(sig, digits) ==
  LET b == BaseW(digits) IN
    [i \in DOMAIN sig |->
       IF i \in DOMAIN b /\ sig[i].at <= b[i]
       THEN Chain(sig[i], sig[i].at, b[i] - sig[i].at) ELSE sig[i]]

(* HybridSignature *)
HybridSign(key, digits) ==
  [ed |-> [key |-> key, msg |-> digits], edKey |-> key,
   wots |-> WotsSign(key, digits), wotsKey |-> PublicKey(key, Len(digits) + 3)]

HybridVerify(s, digits) ==
  /\ s.ed = [key |-> s.edKey, msg |-> digits]
  /\ WotsVerify(s.wots, digits, s.wotsKey)
=============================================================================
