---------------------------- MODULE PayoutStore -----------------------------
(***************************************************************************)
(* The state file of the payout agent: persist_state, load_state and       *)
(* load_state_with_backup of payout_agent.rs, one file operation per step, *)
(* with operations that fail, a process that stops between any two of them *)
(* and a primary file that may become unreadable.                          *)
(*                                                                         *)
(* A file is absent, unreadable (truncated, partly written or damaged) or  *)
(* holds a serialised ledger.  No other process touches the files, so an   *)
(* exists() test and the operation it guards are one step.                 *)
(***************************************************************************)
EXTENDS Naturals

CONSTANTS
  Intents, Records, NoRecord,
  NoFile,       \* content of a path nothing is at
  Torn,         \* content that does not deserialise
  MaxCrashes,   \* bound: how often the process stops
  MaxFaults,    \* bound: how many file operations fail
  MaxDamage     \* bound: how often the primary becomes unreadable

Ledgers == [Intents -> Records \cup {NoRecord}]
EmptyLedger == [i \in Intents |-> NoRecord]

Contents == Ledgers \cup {NoFile, Torn}

(* The records a file or the memory holds, each with its intent. *)
Entries(f) ==
  IF f \in Ledgers
  THEN {e \in Intents \X Records : f[e[1]] = e[2]} ELSE {}

ASSUME StoreAssumption ==
  /\ NoRecord \notin Records
  /\ NoFile \notin Ledgers /\ Torn \notin Ledgers /\ NoFile # Torn
  /\ MaxCrashes \in Nat /\ MaxFaults \in Nat /\ MaxDamage \in Nat

VARIABLES
  path,      \* payout_agent.bin
  next,      \* payout_agent.bin.next
  bak,       \* payout_agent.bin.bak
  memory,    \* Agent.state.records of the running process
  pc,        \* where the process is
  crashes, faults, damage,   \* what happened so far, each below its bound
  acked,     \* history: every record persist_state ever returned Ok for
  prior,     \* history: those acknowledged before the last save
  passed,    \* history: those the last start without a readable primary
             \* went without
  erased     \* history: of these, those whose backup was removed since

files == <<path, next, bak>>
budget == <<crashes, faults, damage>>
history == <<acked, prior, passed, erased>>
vars == <<files, memory, pc, budget, history>>

(* Inside persist_state, named by the operation to come. *)
Saving == {"open", "write", "removeBak", "renameToBak", "renameNext", "restore"}

Init ==
  /\ path = NoFile /\ next = NoFile /\ bak = NoFile
  /\ memory = EmptyLedger
  /\ pc = "ready"
  /\ crashes = 0 /\ faults = 0 /\ damage = 0
  /\ acked = {} /\ prior = {} /\ passed = {} /\ erased = {}
-----------------------------------------------------------------------------
(* Agent::submit inserts the built transaction and calls persist_state. *)
Insert(i, r) ==
  /\ pc = "ready"
  /\ memory[i] = NoRecord
  /\ memory' = [memory EXCEPT ![i] = r]
  /\ pc' = "open"
  /\ UNCHANGED <<files, budget, history>>

(* Mutant: the ledger is written in place. *)
OpenInPlace ==
  /\ pc = "open"
  /\ path' = Torn
  /\ pc' = "write"
  /\ UNCHANGED <<next, bak, memory, budget, history>>

(* Open .next with create and truncate. *)
OpenNext ==
  /\ pc = "open"
  /\ next' = Torn
  /\ pc' = "write"
  /\ UNCHANGED <<path, bak, memory, budget, history>>

(* After .next is complete: which of the optional steps come first. *)
AfterSync == IF path = NoFile THEN "renameNext"
             ELSE IF bak = NoFile THEN "renameToBak" ELSE "removeBak"

(* write_all and sync_all of the whole ledger. *)
WriteNext ==
  /\ pc = "write"
  /\ next' = memory
  /\ pc' = AfterSync
  /\ UNCHANGED <<path, bak, memory, budget, history>>

RemoveBak ==
  /\ pc = "removeBak"
  /\ bak' = NoFile
  /\ pc' = "renameToBak"
  /\ erased' = erased \cup (passed \cap Entries(bak))
  /\ UNCHANGED <<path, next, memory, budget, acked, prior, passed>>

(* Mutant: the old file is removed instead of kept as the backup. *)
RemovePath ==
  /\ pc = "renameToBak"
  /\ path' = NoFile
  /\ pc' = "renameNext"
  /\ UNCHANGED <<next, bak, memory, budget, history>>

RenameToBak ==
  /\ pc = "renameToBak"
  /\ bak' = path
  /\ path' = NoFile
  /\ pc' = "renameNext"
  /\ UNCHANGED <<next, memory, budget, history>>

(* The rename that completes the save; persist_state returns Ok. *)
RenameNext ==
  /\ pc = "renameNext"
  /\ path' = next
  /\ next' = NoFile
  /\ pc' = "ready"
  /\ acked' = acked \cup Entries(memory)
  /\ prior' = acked \ passed
  /\ passed' = passed \ Entries(memory)
  /\ erased' = erased \ Entries(memory)
  /\ UNCHANGED <<bak, memory, budget>>

(* An operation fails: persist_state returns its error, .next stays as far *)
(* as it got, and the record stays in memory.  Only the last rename has    *)
(* something to put back.                                                  *)
SaveFault ==
  /\ pc \in Saving \ {"restore"}
  /\ faults < MaxFaults
  /\ faults' = faults + 1
  /\ pc' = IF pc = "renameNext" /\ path = NoFile /\ bak # NoFile
           THEN "restore" ELSE "ready"
  /\ UNCHANGED <<files, memory, crashes, damage, history>>

(* The recovery of a failed rename, whose own result is ignored. *)
Restore ==
  /\ pc = "restore"
  /\ pc' = "ready"
  /\ \/ /\ path' = bak
        /\ bak' = NoFile
        /\ UNCHANGED faults
     \/ /\ faults < MaxFaults
        /\ faults' = faults + 1
        /\ UNCHANGED <<path, bak>>
  /\ UNCHANGED <<next, memory, crashes, damage, history>>
-----------------------------------------------------------------------------
(* The process stops: the memory is gone, the files stay as they are. *)
Crash ==
  /\ pc # "down"
  /\ crashes < MaxCrashes
  /\ crashes' = crashes + 1
  /\ memory' = EmptyLedger
  /\ pc' = "down"
  /\ UNCHANGED <<files, faults, damage, history>>

(* The primary file stops deserialising while no save runs. *)
Damage ==
  /\ pc \in {"ready", "down"}
  /\ path \in Ledgers
  /\ damage < MaxDamage
  /\ damage' = damage + 1
  /\ path' = Torn
  /\ UNCHANGED <<next, bak, memory, pc, crashes, faults, history>>

(* Mutants: the backup is preferred; it is not looked at. *)
BackupFirst == IF bak \in Ledgers THEN bak
               ELSE IF path = NoFile THEN EmptyLedger ELSE path
NoFallback == IF path \in Ledgers THEN path ELSE EmptyLedger

(* load_state_with_backup: the primary if it reads; the backup if the      *)
(* primary is there and does not read; the default if no primary is there, *)
(* whatever the backup holds.                                              *)
Loadable == IF path \in Ledgers THEN path
            ELSE IF path = NoFile THEN EmptyLedger ELSE bak

(* Mutant: what was loaded is not checked. *)
OpensAnything == TRUE

(* With neither file readable the process refuses to start. *)
CanOpen == Loadable \in Ledgers

(* Agent::open. *)
Open ==
  /\ pc = "down"
  /\ CanOpen
  /\ memory' = Loadable
  /\ pc' = "ready"
  /\ IF path \in Ledgers
     THEN passed' = passed \ Entries(path) /\ UNCHANGED prior
     ELSE passed' = acked \ Entries(Loadable) /\ prior' = {}
  /\ UNCHANGED <<files, budget, acked, erased>>

Next ==
  \/ \E i \in Intents, r \in Records : Insert(i, r)
  \/ OpenNext \/ WriteNext \/ RemoveBak \/ RenameToBak \/ RenameNext
  \/ SaveFault \/ Restore
  \/ Crash \/ Damage \/ Open

Spec == Init /\ [][Next]_vars
-----------------------------------------------------------------------------
(* Every variable holds a value of its type. *)
TypeOK ==
  /\ path \in Contents /\ next \in Contents /\ bak \in Contents
  /\ memory \in Ledgers
  /\ pc \in Saving \cup {"ready", "down"}
  /\ crashes \in 0..MaxCrashes /\ faults \in 0..MaxFaults
  /\ damage \in 0..MaxDamage
  /\ acked \subseteq Intents \X Records
  /\ prior \subseteq acked /\ passed \subseteq acked /\ erased \subseteq acked

(* No record persist_state ever acknowledged is in none of the files,      *)
(* between any two file operations, after any of them failed and across    *)
(* restarts, but in one way (while no file was damaged): a process started *)
(* between the renames, where no primary was, went on without it, and then *)
(* removed the backup that had it.  Those no process went without are      *)
(* together in one file.                                                   *)
SurvivingCopy ==
  damage = 0 =>
    /\ \A e \in acked \ erased : \E f \in {path, next, bak} : e \in Entries(f)
    /\ \E f \in {path, next, bak} : acked \ passed \subseteq Entries(f)

(* A process that opens over a readable primary has every record ever      *)
(* acknowledged, whatever was interrupted before, except those a process   *)
(* that found no readable primary had already gone without.                *)
ReadablePrimaryIsCurrent ==
  [][(Open /\ path \in Ledgers) => acked \ passed \subseteq Entries(memory')]_vars

(* Falling back to the backup gives up at most the last completed save:    *)
(* what was acknowledged before it is all there.                           *)
FallbackKeepsPriorSave ==
  [][(Open /\ path = Torn) => prior \subseteq Entries(memory')]_vars
-----------------------------------------------------------------------------
(* The ledger contract under the files: "durable" is what a restart loads. *)
(* The backup is what a failed save may put back.                          *)
LedgerMode == IF pc \in {"ready", "down"} THEN pc ELSE "saving"
LedgerSaved == IF path \in Ledgers THEN path
               ELSE IF bak \in Ledgers THEN bak ELSE EmptyLedger

Loose == INSTANCE PayoutLedger WITH
  durable <- Loadable,
  saved <- LedgerSaved,
  mode <- LedgerMode,
  AtomicReplace <- FALSE

(* Until a file is damaged, the files keep the contract PayoutLedger       *)
(* states with AtomicReplace = FALSE: every file operation is a step of    *)
(* the durable ledger or none, and the only value a restart can load       *)
(* besides the old and the new ledger is the empty one.                    *)
StoreImplementsLedger ==
  Loose!Init /\ [][damage' = 0 => Loose!Next]_(Loose!vars)
=============================================================================
