------------------------------ MODULE RpcClient ------------------------------
(***************************************************************************)
(* rpc_client.rs: one TCP connection to a node, on which a request is      *)
(* written and the next frame that arrives is taken for its response.  The *)
(* ids of request and response are never compared, so what keeps answers   *)
(* from being confused is the order of the stream, and that callers drop   *)
(* the client at the first error.                                          *)
(*                                                                         *)
(* A frame arrives in one read or in several, the length first; each read  *)
(* has a timeout of its own.  The node answers in order, late or never; it *)
(* may go away, and another may listen at its address later.               *)
(***************************************************************************)
EXTENDS Naturals, Sequences, ChainIdentity

CONSTANTS
  Claims,     \* identities of the nodes behind the address
  MaxFrame,   \* reads that receive the longest frame accepted
  MaxSwaps    \* bound: how often another node takes the node's place

ASSUME RpcAssumption == MaxFrame \in Nat \ {0} /\ MaxSwaps \in Nat

VARIABLES
  claim, swaps,   \* the node that listens, and how often it changed
  conn,           \* "closed", "open", or "lost" when the node went away
  nextId,         \* next_id
  call,           \* the request whose response is awaited
  asked,          \* requests the node has not answered
  wire,           \* responses on the way
  taken           \* the last request answered and the response it took

node == <<claim, swaps>>
stream == <<conn, nextId, call, asked, wire, taken>>

NoCall == [id |-> 0, method |-> "none"]
NothingTaken == <<NoCall, NoCall>>

(* What a response says, by method; "error" is success = false and what    *)
(* does not decode.                                                        *)
Bodies(method) ==
  {"error"} \cup CASE method = "get_chain_info" -> {"info"}
                   [] method = "get_tx_location" -> {"found", "missing"}
                   [] method = "get_mempool" -> {"listed", "missing"}

StreamInit ==
  /\ claim \in Claims /\ swaps = 0
  /\ conn = "closed" /\ nextId = 1 /\ call = NoCall
  /\ asked = <<>> /\ wire = <<>> /\ taken = NothingTaken
-----------------------------------------------------------------------------
(* TcpStream::connect_timeout. *)
Dial ==
  /\ conn = "closed"
  /\ conn' = "open" /\ nextId' = 1 /\ taken' = NothingTaken
  /\ UNCHANGED <<node, call, asked, wire>>

(* Mutant: the client outlives the exchange that failed. *)
KeptOpen ==
  /\ call' = NoCall
  /\ UNCHANGED <<node, conn, nextId, asked, wire, taken>>

(* The client is dropped at an error, and the stream with it. *)
Dropped ==
  /\ conn' = "closed" /\ nextId' = 1 /\ call' = NoCall
  /\ asked' = <<>> /\ wire' = <<>>
  /\ UNCHANGED <<node, taken>>

(* The request is written under the next id. *)
Send(method) ==
  /\ call = NoCall
  /\ call' = [id |-> nextId, method |-> method]
  /\ nextId' = nextId + 1
  /\ asked' = IF conn = "open" THEN Append(asked, call') ELSE asked
  /\ UNCHANGED <<node, conn, wire, taken>>

(* A read that brings a part of the frame. *)
ReadPart ==
  /\ call # NoCall /\ wire # <<>>
  /\ Head(wire).reads \in 2..MaxFrame
  /\ wire' = [wire EXCEPT ![1].reads = @ - 1]
  /\ UNCHANGED <<node, conn, nextId, call, asked, taken>>

(* A response has arrived whole. *)
Arrived == call # NoCall /\ wire # <<>> /\ Head(wire).reads = 1

(* It is taken for the answer; the client is dropped if it was the last.   *)
Take(last) ==
  /\ Arrived
  /\ taken' = <<call, Head(wire)>>
  /\ call' = NoCall
  /\ conn' = IF last THEN "closed" ELSE conn
  /\ nextId' = IF last THEN 1 ELSE nextId
  /\ wire' = IF last THEN <<>> ELSE Tail(wire)
  /\ asked' = IF last THEN <<>> ELSE asked
  /\ UNCHANGED node
-----------------------------------------------------------------------------
(* The node answers the oldest request, with a frame of any length. *)
NodeAnswers ==
  /\ asked # <<>>
  /\ \E body \in Bodies(Head(asked).method), reads \in 1..(MaxFrame + 1) :
       wire' = Append(wire, [id |-> Head(asked).id, method |-> Head(asked).method,
                             body |-> body, from |-> claim, reads |-> reads])
  /\ asked' = Tail(asked)
  /\ UNCHANGED <<node, conn, nextId, call, taken>>

(* The node goes away with what it had not sent; another takes its place. *)
NodeSwapped ==
  /\ swaps < MaxSwaps
  /\ swaps' = swaps + 1
  /\ claim' \in Claims
  /\ conn' = IF conn = "closed" THEN "closed" ELSE "lost"
  /\ asked' = <<>> /\ wire' = <<>>
  /\ UNCHANGED <<nextId, call, taken>>
=============================================================================
