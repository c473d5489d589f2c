---------------------------- MODULE PayoutLedger ----------------------------
(***************************************************************************)
(* What the payout agent's state file promises to the agent: a ledger of   *)
(* intent -> record kept in memory and saved as one durable value.  It is  *)
(* the abstract specification of PayoutStore (the files behind it) and the *)
(* component PayoutAgent is built on.                                      *)
(*                                                                         *)
(* "durable" is the ledger a restart would load.  AtomicReplace = TRUE is  *)
(* the contract the repository documents: a save replaces the durable      *)
(* ledger by the new one or leaves the old one.  AtomicReplace = FALSE is  *)
(* the contract the code keeps: while a save runs there is a moment at     *)
(* which a restart loads an empty ledger.                                  *)
(***************************************************************************)
CONSTANTS
  Intents,        \* payout intent identifiers
  Records,        \* what can be recorded for an intent
  NoRecord,       \* absence of a record
  AtomicReplace   \* whether a save is atomic against a crash

VARIABLES
  memory,    \* the records the running agent knows
  durable,   \* the ledger a restart would load
  saved,     \* the ledger of the last save that completed
  mode       \* "ready", "saving" or "down"

vars == <<memory, durable, saved, mode>>

(* Every ledger there can be. *)
Ledgers == [Intents -> Records \cup {NoRecord}]

(* AgentState::default. *)
EmptyLedger == [i \in Intents |-> NoRecord]

(* Ledger b has every record of ledger a. *)
Keeps(a, b) == \A i \in Intents : a[i] # NoRecord => b[i] = a[i]

Init ==
  /\ memory = EmptyLedger
  /\ durable = EmptyLedger
  /\ saved = EmptyLedger
  /\ mode = "ready"

(* The agent adds a record to the ledger in memory and starts to save it. *)
Insert(i, r) ==
  /\ mode = "ready"
  /\ memory[i] = NoRecord
  /\ memory' = [memory EXCEPT ![i] = r]
  /\ mode' = "saving"
  /\ UNCHANGED <<durable, saved>>

(* The save reached its end: the ledger in memory is the durable one. *)
SaveOk ==
  /\ mode = "saving"
  /\ durable' = memory
  /\ saved' = memory
  /\ mode' = "ready"
  /\ UNCHANGED memory

(* The old durable ledger is out of the way and the new one not yet there. *)
Vacate ==
  /\ ~AtomicReplace
  /\ mode = "saving"
  /\ durable' = EmptyLedger
  /\ UNCHANGED <<memory, saved, mode>>

(* The save failed and the agent runs on: the last saved ledger is still   *)
(* or again in place, or, when putting it back failed as well, nothing is. *)
SaveFails ==
  /\ mode = "saving"
  /\ durable' \in {saved, IF AtomicReplace THEN saved ELSE EmptyLedger}
  /\ mode' = "ready"
  /\ UNCHANGED <<memory, saved>>

(* The process stops at any moment; only the durable ledger is left. *)
Crash ==
  /\ mode # "down"
  /\ memory' = EmptyLedger
  /\ mode' = "down"
  /\ UNCHANGED <<durable, saved>>

(* A new process loads the durable ledger. *)
Recover ==
  /\ mode = "down"
  /\ memory' = durable
  /\ mode' = "ready"
  /\ UNCHANGED <<durable, saved>>

Next ==
  \/ \E i \in Intents, r \in Records : Insert(i, r)
  \/ SaveOk \/ Vacate \/ SaveFails
  \/ Crash \/ Recover

Spec == Init /\ [][Next]_vars
=============================================================================
