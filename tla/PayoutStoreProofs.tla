-------------------------- MODULE PayoutStoreProofs -------------------------
(* Theorems about PayoutStore, for every choice of its constants. *)
EXTENDS PayoutStore, TLAPS

(* Which files are there while a save is under way, and that the ledger    *)
(* being saved is complete in .next from the first rename on.              *)
SavingInv ==
  /\ pc \in {"removeBak", "renameToBak", "renameNext"} => next = memory
  /\ pc \in {"removeBak", "renameToBak"} => path # NoFile
  /\ pc = "renameToBak" => bak = NoFile
  /\ pc = "renameNext" => path = NoFile
  /\ pc = "restore" => path = NoFile /\ bak # NoFile

(* Only damage leaves an unreadable file where a ledger was. *)
ReadableInv ==
  damage = 0 => path # Torn /\ bak # Torn

(* The records acknowledged and not gone without by a later process. *)
Live == acked \ passed

(* Where they are: in the memory of a process that runs; in a readable     *)
(* primary; with no primary in the backup, if one is there; and before the *)
(* first damage one is there unless nothing was acknowledged.              *)
CopyInv ==
  /\ pc # "down" => Live \subseteq Entries(memory)
  /\ path \in Ledgers => Live \subseteq Entries(path)
  /\ path = NoFile /\ bak \in Ledgers => Live \subseteq Entries(bak)
  /\ path = NoFile /\ bak = NoFile => damage > 0 \/ Live = {}

(* Before the first damage, a record gone without is still in one of the   *)
(* two files unless its backup was removed.                                *)
OldInv ==
  damage = 0 => acked \ erased \subseteq Entries(path) \cup Entries(bak)

(* Behind a primary, readable or not, the backup has what was acknowledged *)
(* before the last save.                                                   *)
PriorInv ==
  path # NoFile /\ bak \in Ledgers => prior \subseteq Entries(bak)

CopiesOK == SavingInv /\ ReadableInv /\ CopyInv /\ OldInv /\ PriorInv

StoreInv == TypeOK /\ CopiesOK
-----------------------------------------------------------------------------
(* A ledger with one record more is a ledger. *)
LEMMA InsertedLedger ==
  ASSUME NEW led \in Ledgers, NEW i \in Intents, NEW r \in Records
  PROVE  [led EXCEPT ![i] = r] \in Ledgers
BY DEF Ledgers

(* No file and an unreadable file are no ledgers; the empty ledger is one. *)
LEMMA ContentsDiffer ==
  /\ NoFile \notin Ledgers /\ Torn \notin Ledgers /\ NoFile # Torn
  /\ EmptyLedger \in Ledgers
BY StoreAssumption DEF Ledgers, EmptyLedger

(* A ledger inserted into keeps its records.                               *)
LEMMA InsertedKeeps ==
  ASSUME NEW led \in Ledgers, NEW i \in Intents, NEW r \in Records,
         led[i] = NoRecord
  PROVE  Entries(led) \subseteq Entries([led EXCEPT ![i] = r])
BY InsertedLedger, StoreAssumption DEF Entries, Ledgers

(* Only ledgers have records, and the empty one has none.                  *)
LEMMA EntriesBasics ==
  /\ \A f : Entries(f) \subseteq Intents \X Records
  /\ Entries(NoFile) = {} /\ Entries(Torn) = {} /\ Entries(EmptyLedger) = {}
BY ContentsDiffer, StoreAssumption DEF Entries, EmptyLedger

(* What a process that may open loads is a ledger. *)
LEMMA LoadedIsLedger == TypeOK /\ CanOpen => Loadable \in Ledgers
BY DEF CanOpen

(* Every variable holds a value of its type: every file holds a whole      *)
(* ledger, nothing or what does not deserialise, wherever the process is.  *)
LEMMA StoreTyping == TypeOK /\ SavingInv /\ [Next]_vars => TypeOK'
<1> SUFFICES ASSUME TypeOK, SavingInv, [Next]_vars
             PROVE  TypeOK'
  OBVIOUS
<1> USE StoreAssumption, ContentsDiffer, EntriesBasics
    DEF TypeOK, Contents, Saving, files, budget, history
<1>1. ASSUME NEW i \in Intents, NEW r \in Records, Insert(i, r)
      PROVE  TypeOK'
  BY <1>1, InsertedLedger DEF Insert
<1>2. ASSUME OpenNext
      PROVE  TypeOK'
  BY <1>2 DEF OpenNext
<1>3. ASSUME WriteNext
      PROVE  TypeOK'
  BY <1>3 DEF WriteNext, AfterSync
<1>4. ASSUME RemoveBak
      PROVE  TypeOK'
  BY <1>4 DEF RemoveBak
<1>5. ASSUME RenameToBak
      PROVE  TypeOK'
  BY <1>5 DEF RenameToBak
<1>6. ASSUME RenameNext
      PROVE  TypeOK'
  BY <1>6 DEF RenameNext, SavingInv
<1>7. ASSUME SaveFault
      PROVE  TypeOK'
  BY <1>7 DEF SaveFault
<1>8. ASSUME Restore
      PROVE  TypeOK'
  BY <1>8 DEF Restore
<1>9. ASSUME Crash
      PROVE  TypeOK'
  BY <1>9 DEF Crash
<1>10. ASSUME Damage
       PROVE  TypeOK'
  BY <1>10 DEF Damage
<1>11. ASSUME Open
       PROVE  TypeOK'
  BY <1>11, LoadedIsLedger DEF Open
<1>12. CASE UNCHANGED vars
  BY <1>12 DEF vars
<1> QED
  BY <1>1, <1>2, <1>3, <1>4, <1>5, <1>6, <1>7, <1>8, <1>9, <1>10, <1>11,
     <1>12 DEF Next

(* The copies of the ledger keep their places after every file operation,  *)
(* every failed one, and every stop of the process.                        *)
LEMMA CopiesStep == StoreInv /\ [Next]_vars => CopiesOK'
<1> SUFFICES ASSUME StoreInv, [Next]_vars
             PROVE  CopiesOK'
  OBVIOUS
<1> USE StoreAssumption, ContentsDiffer, EntriesBasics
    DEF StoreInv, TypeOK, CopiesOK, SavingInv, ReadableInv, CopyInv, OldInv,
        PriorInv, Live, Contents, files, budget, history
<1>1. ASSUME NEW i \in Intents, NEW r \in Records, Insert(i, r)
      PROVE  CopiesOK'
  <2>1. Entries(memory) \subseteq Entries(memory')
    BY <1>1, InsertedKeeps DEF Insert
  <2> QED
    BY <1>1, <2>1 DEF Insert
<1>2. ASSUME OpenNext
      PROVE  CopiesOK'
  BY <1>2 DEF OpenNext
<1>3. ASSUME WriteNext
      PROVE  CopiesOK'
  BY <1>3 DEF WriteNext, AfterSync
<1>4. ASSUME RemoveBak
      PROVE  CopiesOK'
  BY <1>4 DEF RemoveBak
<1>5. ASSUME RenameToBak
      PROVE  CopiesOK'
  BY <1>5 DEF RenameToBak
<1>6. ASSUME RenameNext
      PROVE  CopiesOK'
  BY <1>6 DEF RenameNext
<1>7. ASSUME SaveFault
      PROVE  CopiesOK'
  BY <1>7 DEF SaveFault, Saving
<1>8. ASSUME Restore
      PROVE  CopiesOK'
  BY <1>8 DEF Restore
<1>9. ASSUME Crash
      PROVE  CopiesOK'
  BY <1>9 DEF Crash
<1>10. ASSUME Damage
       PROVE  CopiesOK'
  BY <1>10 DEF Damage
<1>11. ASSUME Open
       PROVE  CopiesOK'
  BY <1>11 DEF Open, Loadable, CanOpen
<1>12. CASE UNCHANGED vars
  BY <1>12 DEF vars
<1> QED
  BY <1>1, <1>2, <1>3, <1>4, <1>5, <1>6, <1>7, <1>8, <1>9, <1>10, <1>11, <1>12 DEF Next

(* The inductive invariant of the files: types, the stage of a save, and   *)
(* where the acknowledged ledger and the one before it are.                *)
THEOREM StoreInvariant == Spec => []StoreInv
<1>1. Init => StoreInv
  BY StoreAssumption, ContentsDiffer, EntriesBasics
  DEF Init, StoreInv, TypeOK, CopiesOK, SavingInv, ReadableInv, CopyInv,
      OldInv, PriorInv, Live, Contents
<1>2. StoreInv /\ [Next]_vars => StoreInv'
  BY StoreTyping, CopiesStep DEF StoreInv, CopiesOK
<1>3. QED
  BY <1>1, <1>2, PTL DEF Spec

(* Whatever file operation failed and wherever the process stopped, every  *)
(* file and every history variable has a value of its type.                *)
THEOREM StoreTypeCorrect == Spec => []TypeOK
<1>1. StoreInv => TypeOK
  BY DEF StoreInv
<1>2. QED
  BY <1>1, StoreInvariant, PTL

(* Between any two operations of persist_state, after any of them failed   *)
(* and across restarts, a record once acknowledged is in one of the files, *)
(* unless a process that started between the renames went without it and   *)
(* removed its backup.                                                     *)
THEOREM CopySurvives == Spec => []SurvivingCopy
<1>1. StoreInv => SurvivingCopy
  <2> SUFFICES ASSUME StoreInv, damage = 0
               PROVE  /\ \A e \in acked \ erased :
                           \E f \in {path, next, bak} : e \in Entries(f)
                      /\ \E f \in {path, next, bak} : Live \subseteq Entries(f)
    BY DEF SurvivingCopy, Live
  <2>1. acked \ erased \subseteq Entries(path) \cup Entries(bak)
    BY DEF StoreInv, CopiesOK, OldInv
  <2>2. path # Torn /\ bak # Torn /\ path \in Contents /\ bak \in Contents
    BY DEF StoreInv, CopiesOK, ReadableInv, TypeOK
  <2>3. CASE path \in Ledgers
    BY <2>1, <2>3 DEF StoreInv, CopiesOK, CopyInv
  <2>4. CASE path = NoFile
    <3>1. bak = NoFile => Live = {}
      BY <2>4 DEF StoreInv, CopiesOK, CopyInv, TypeOK
    <3>2. bak \in Ledgers => Live \subseteq Entries(bak)
      BY <2>4 DEF StoreInv, CopiesOK, CopyInv
    <3> QED
      BY <2>1, <2>2, <3>1, <3>2 DEF Contents
  <2> QED
    BY <2>2, <2>3, <2>4 DEF Contents
<1>2. QED
  BY <1>1, StoreInvariant, PTL

(* A process that opens over a readable primary has every record ever      *)
(* acknowledged that no process before it went without: no primary is      *)
(* older than what was acknowledged, and the fallback of                   *)
(* load_state_with_backup never hides a newer one.                         *)
THEOREM PrimaryIsCurrent == Spec => ReadablePrimaryIsCurrent
<1>1. StoreInv /\ [Next]_vars =>
        [(Open /\ path \in Ledgers) =>
           acked \ passed \subseteq Entries(memory')]_vars
  BY DEF StoreInv, CopiesOK, CopyInv, Live, Open, Loadable
<1>2. QED
  BY <1>1, StoreInvariant, PTL DEF Spec, ReadablePrimaryIsCurrent

(* A process that falls back to the backup has every record of the ledger  *)
(* saved before the one in the damaged primary.                            *)
THEOREM FallbackIsOneSaveBack == Spec => FallbackKeepsPriorSave
<1>1. StoreInv /\ [Next]_vars =>
        [(Open /\ path = Torn) => prior \subseteq Entries(memory')]_vars
  <2> SUFFICES ASSUME StoreInv, Open, path = Torn
               PROVE  prior \subseteq Entries(memory')
    OBVIOUS
  <2>1. path \notin Ledgers /\ path # NoFile
    BY ContentsDiffer
  <2>2. memory' = bak /\ bak \in Ledgers
    BY <2>1 DEF Open, Loadable, CanOpen
  <2> QED
    BY <2>1, <2>2 DEF StoreInv, CopiesOK, PriorInv
<1>2. QED
  BY <1>1, StoreInvariant, PTL DEF Spec, FallbackKeepsPriorSave
-----------------------------------------------------------------------------
(* Before the first damage a primary that is there is readable: what a     *)
(* restart would load is the primary, or nothing while there is none.      *)
LEMMA UndamagedFiles ==
  ASSUME StoreInv, damage = 0
  PROVE  /\ path \in Ledgers \/ path = NoFile
         /\ bak \in Ledgers \/ bak = NoFile
         /\ Loadable = IF path = NoFile THEN EmptyLedger ELSE path
<1>1. /\ path \in Contents \ {Torn}
      /\ bak \in Contents \ {Torn}
  BY DEF StoreInv, CopiesOK, TypeOK, ReadableInv
<1> QED
  BY <1>1, ContentsDiffer DEF Contents, Loadable

(* The two specifications name the same set of ledgers and the same empty  *)
(* one.                                                                    *)
LEMMA SameLedgers == Loose!EmptyLedger = EmptyLedger
BY DEF Loose!EmptyLedger, EmptyLedger

(* An operation that leaves the ledger in memory, what a restart would     *)
(* load, what a failed save would leave and the mode as they are.          *)
LEMMA InvisibleStep ==
  ASSUME UNCHANGED <<memory, path, bak>>, LedgerMode' = LedgerMode
  PROVE  UNCHANGED Loose!vars
BY DEF Loose!vars, Loadable, LedgerSaved

(* Every step of the files is, until one is damaged, a step of the ledger  *)
(* contract or none of its business.                                       *)
LEMMA StoreStep ==
  ASSUME StoreInv, Next, damage' = 0
  PROVE  Loose!Next \/ UNCHANGED Loose!vars
<1> USE DEF files, budget, history
<1>1. ASSUME NEW i \in Intents, NEW r \in Records, Insert(i, r)
      PROVE  Loose!Insert(i, r)
  <2>1. UNCHANGED <<Loadable, LedgerSaved>>
    BY <1>1 DEF Insert, Loadable, LedgerSaved
  <2> QED
    BY <1>1, <2>1 DEF Insert, Loose!Insert, LedgerMode
<1>2. ASSUME OpenNext \/ WriteNext
      PROVE  UNCHANGED Loose!vars
  <2>1. LedgerMode' = LedgerMode
    BY <1>2 DEF OpenNext, WriteNext, AfterSync, LedgerMode
  <2> QED
    BY <1>2, <2>1, InvisibleStep DEF OpenNext, WriteNext
<1>3. ASSUME RemoveBak
      PROVE  UNCHANGED Loose!vars
  <2>1. path \in Ledgers
    BY <1>3, UndamagedFiles DEF RemoveBak, StoreInv, CopiesOK, SavingInv
  <2> QED
    BY <1>3, <2>1
    DEF RemoveBak, Loose!vars, Loadable, LedgerSaved, LedgerMode
<1>4. ASSUME RenameToBak
      PROVE  Loose!Vacate
  <2>1. path \in Ledgers
    BY <1>4, UndamagedFiles DEF RenameToBak, StoreInv, CopiesOK, SavingInv
  <2>2. Loadable' = EmptyLedger /\ LedgerSaved' = LedgerSaved
    BY <1>4, <2>1, ContentsDiffer DEF RenameToBak, Loadable, LedgerSaved
  <2> QED
    BY <1>4, <2>2, SameLedgers DEF RenameToBak, Loose!Vacate, LedgerMode
<1>5. ASSUME RenameNext
      PROVE  Loose!SaveOk
  <2>1. path' = memory /\ memory' \in Ledgers /\ memory' = memory
    BY <1>5 DEF RenameNext, StoreInv, CopiesOK, SavingInv, TypeOK
  <2>2. Loadable' = memory /\ LedgerSaved' = memory
    BY <2>1 DEF Loadable, LedgerSaved
  <2> QED
    BY <1>5, <2>1, <2>2 DEF RenameNext, Loose!SaveOk, LedgerMode
<1>6. ASSUME SaveFault
      PROVE  Loose!SaveFails \/ UNCHANGED Loose!vars
  <2>1. UNCHANGED <<memory, path, bak, Loadable, LedgerSaved>>
    BY <1>6 DEF SaveFault, Loadable, LedgerSaved
  <2>2. damage = 0 /\ LedgerMode = "saving"
    BY <1>6 DEF SaveFault, Saving, LedgerMode
  <2>3. CASE pc' = "restore"
    BY <2>1, <2>2, <2>3, InvisibleStep DEF LedgerMode
  <2>4. CASE pc' = "ready"
    <3>1. Loadable \in {LedgerSaved, EmptyLedger}
      BY <2>2, UndamagedFiles, ContentsDiffer DEF Loadable, LedgerSaved
    <3> QED
      BY <2>1, <2>2, <2>4, <3>1, SameLedgers DEF Loose!SaveFails, LedgerMode
  <2> QED
    BY <1>6, <2>3, <2>4 DEF SaveFault
<1>7. ASSUME Restore
      PROVE  Loose!SaveFails
  <2>1. path = NoFile /\ bak \in Ledgers /\ damage = 0
    BY <1>7, UndamagedFiles DEF Restore, StoreInv, CopiesOK, SavingInv
  <2>2. Loadable' \in {LedgerSaved, EmptyLedger} /\ LedgerSaved' = LedgerSaved
    BY <1>7, <2>1, ContentsDiffer DEF Restore, Loadable, LedgerSaved
  <2> QED
    BY <1>7, <2>2, SameLedgers DEF Restore, Loose!SaveFails, LedgerMode
<1>8. ASSUME Crash
      PROVE  Loose!Crash
  <2>1. UNCHANGED <<Loadable, LedgerSaved>>
    BY <1>8 DEF Crash, Loadable, LedgerSaved
  <2> QED
    BY <1>8, <2>1, SameLedgers DEF Crash, Loose!Crash, LedgerMode
<1>9. ASSUME Damage
      PROVE  FALSE
  BY <1>9 DEF Damage, StoreInv, TypeOK
<1>10. ASSUME Open
       PROVE  Loose!Recover
  <2>1. UNCHANGED <<Loadable, LedgerSaved>>
    BY <1>10 DEF Open, Loadable, LedgerSaved
  <2> QED
    BY <1>10, <2>1 DEF Open, Loose!Recover, LedgerMode
<1> QED
  BY <1>1, <1>2, <1>3, <1>4, <1>5, <1>6, <1>7, <1>8, <1>9, <1>10
  DEF Next, Loose!Next

(* Until a file is damaged, persist_state and load_state_with_backup keep  *)
(* the ledger contract whose saves are not atomic against a crash.         *)
THEOREM FilesImplementLedger == Spec => StoreImplementsLedger
<1>1. Init => Loose!Init
  BY ContentsDiffer, SameLedgers
  DEF Init, Loose!Init, Loadable, LedgerSaved, LedgerMode
<1>2. StoreInv /\ [Next]_vars => [damage' = 0 => Loose!Next]_(Loose!vars)
  <2>1. CASE UNCHANGED vars
    <3>1. UNCHANGED <<memory, path, bak>> /\ LedgerMode' = LedgerMode
      BY <2>1 DEF vars, files, budget, history, LedgerMode
    <3> QED
      BY <3>1, InvisibleStep
  <2> QED
    BY <2>1, StoreStep
<1>3. QED
  BY <1>1, <1>2, StoreInvariant, PTL DEF Spec, StoreImplementsLedger
=============================================================================
