--------------------------- MODULE WalletSession ----------------------------
(***************************************************************************)
(* WalletService (wallet_service.dart) with the screens that call it: the  *)
(* session, the output cache and the transfer history of every wallet.     *)
(*                                                                         *)
(* Dart runs one piece of code at a time and lets another in at every      *)
(* await.  A call is a sequence of segments, each the code between two     *)
(* awaits and one action here; `at' names what the call awaits.  What a    *)
(* segment reads of _state is read when it runs, so the key of a write may *)
(* be another wallet's than the key of the read before it.  The secure     *)
(* storage serves its requests in the order issued: a write takes effect,  *)
(* and a read finds its value, in the segment that asks for it.            *)
(*                                                                         *)
(* The user may lock, switch, restore and unlock at any time, also under   *)
(* calls in flight; how often is bounded, for TLC.                         *)
(*                                                                         *)
(* Left out: rewards, endpoints and the network, renaming and deletion,    *)
(* the temporary wallet of the creation screen.  A chain reorganisation is *)
(* ChainScan's subject; here outputs are only created and spent.           *)
(***************************************************************************)
EXTENDS Naturals

CONSTANTS
  Calls,       \* bound: the calls that can be in flight together
  Wallets, Outputs,
  Owner,       \* the wallet each output pays
  NoWallet, NoOutput,
  MaxOverlaps, \* bound: how often the user does not wait (Apart)
  MaxLater     \* bound: the refreshes and sends begun after that

ASSUME SessionAssumption ==
  /\ Owner \in [Outputs -> Wallets]
  /\ NoWallet \notin Wallets /\ NoOutput \notin Outputs
  /\ MaxOverlaps \in Nat /\ MaxLater \in Nat

VARIABLES
  screen,      \* the screen under all others: "unlock" or "home"
  listed,      \* the ids of _state.wallets
  active,      \* _state.activeWalletId
  seed,        \* the wallet _state.seedHex belongs to; NoWallet when locked
  shown,       \* the outputs summed in _state.onChainBalanceAtomic
  transfers,   \* _state.transferActivities, each by the output it spent
  cached,      \* secure storage: the owned outputs, per wallet
  history,     \* secure storage: the transfer history, per wallet
  call,        \* the calls in flight
  mined, spent, pool,  \* the chain's outputs, those spent, those being spent
  overlaps,    \* history: how often the user did not wait
  later,       \* history: the refreshes and sends begun since
  overtaken,   \* history: what a call awaited, with its key, each time the
               \* active wallet changed under it
  mixed        \* history: a restored wallet took over what was shown

session == <<active, seed, shown, transfers>>
storage == <<cached, history>>
chain == <<mined, spent, pool>>
past == <<overlaps, later, overtaken, mixed>>
vars == <<screen, listed, session, storage, call, chain, past>>

(* here: the screen that made the call is still mounted.                   *)
(* key: the wallet a call was given or took the seed of.                   *)
Idle == [kind |-> "none", at |-> "idle", key |-> NoWallet, got |-> {},
         tx |-> NoOutput, here |-> FALSE]

Points == {"idle", "decrypt", "cache", "status", "scan", "store", "history",
           "balance", "outputs", "submit", "accepted", "drop", "dropped",
           "switch", "restore"}

CallStates ==
  [kind : {"none", "unlock", "refresh", "send", "switch", "restore"},
   at : Points, key : Wallets \cup {NoWallet}, got : SUBSET Outputs,
   tx : Outputs \cup {NoOutput}, here : BOOLEAN]

Init ==
  /\ screen = "unlock"
  /\ listed \in SUBSET Wallets \ {{}} /\ active \in listed
  /\ seed = NoWallet /\ shown = {} /\ transfers = {}
  /\ cached = [w \in Wallets |-> {}] /\ history = [w \in Wallets |-> {}]
  /\ call = [c \in Calls |-> Idle]
  /\ mined = {} /\ spent = {} /\ pool = {}
  /\ overlaps = 0 /\ later = 0 /\ overtaken = {} /\ mixed = FALSE
-----------------------------------------------------------------------------
(* The calls, and what they do at every await.                             *)

Begin(c, k, a, w, read) ==
  /\ call[c].at = "idle"
  /\ call' = [call EXCEPT ![c] = [Idle EXCEPT !.kind = k, !.at = a, !.key = w,
                                              !.got = read, !.here = TRUE]]

Await(c, a, read) ==
  call' = [call EXCEPT ![c].at = a, ![c].got = read]

Return(c) == call' = [call EXCEPT ![c] = Idle]

InFlight == {c \in Calls : call[c].at # "idle"}
Open(k) == \E c \in Calls : call[c].kind = k /\ call[c].here

(* The call changes which wallet is active or whose keys are in memory.    *)
ChangesWallet(c) == call[c].kind \in {"unlock", "switch", "restore"}

(* The user waits for other calls to end, or counts as not waiting.        *)
Apart(others) ==
  /\ others # {} => overlaps < MaxOverlaps
  /\ overlaps' = overlaps + (IF others = {} THEN 0 ELSE 1)

MayChangeWallet == Apart(InFlight) /\ UNCHANGED later

MayUseWallet ==
  /\ Apart({c \in InFlight : ChangesWallet(c)})
  /\ overlaps > 0 => later < MaxLater
  /\ later' = later + (IF overlaps > 0 THEN 1 ELSE 0)

(* The active wallet changes by call c, under all other calls.             *)
Overtakes(c) ==
  overtaken' = overtaken \cup
    {<<call[d].at, call[d].key>> : d \in InFlight \ {c}}

(* pushNamedAndRemoveUntil: every screen below is gone.                    *)
Unmounted == [c \in Calls |-> [call[c] EXCEPT !.here = FALSE]]

UnlockStart(c) ==
  /\ screen = "unlock" /\ ~Open("unlock") /\ MayChangeWallet
  /\ Begin(c, "unlock", "decrypt", active, {})
  /\ UNCHANGED <<screen, listed, session, storage, chain, overtaken, mixed>>

(* The password was right: the keys are set, and refreshAll asks for the   *)
(* cached outputs of the wallet active by now.                             *)
Decrypted(c) ==
  /\ call[c].at = "decrypt"
  /\ seed' = call[c].key
  /\ Await(c, "cache", cached[active])
  /\ UNCHANGED <<screen, listed, active, shown, transfers, storage, chain,
                 past>>

WrongPassword(c) ==
  /\ call[c].at = "decrypt"
  /\ Return(c)
  /\ UNCHANGED <<screen, listed, session, storage, chain, past>>

(* The home screen, pulled down: one refresh at a time per screen.         *)
RefreshStart(c) ==
  /\ screen = "home" /\ ~Open("refresh") /\ MayUseWallet
  /\ Begin(c, "refresh", "cache", NoWallet, cached[active])
  /\ UNCHANGED <<screen, listed, session, storage, chain, overtaken, mixed>>

(* Mutant: a failed scan leaves the stored history unread.                 *)
AfterScan_NoHistory(c, ok) ==
  CASE call[c].kind = "unlock" ->
         Await(c, "history", IF ok THEN history[active] ELSE {})
    [] call[c].kind = "send" /\ ok /\ seed # NoWallet ->
         Await(c, "balance", cached[active])
    [] OTHER -> Return(c)

(* What follows a scan that returned (ok) or threw: refreshAll catches the *)
(* exception, the send screen gives up.                                    *)
AfterScan(c, ok) ==
  CASE call[c].kind = "unlock" -> Await(c, "history", history[active])
    [] call[c].kind = "send" /\ ok /\ seed # NoWallet ->
         Await(c, "balance", cached[active])
    [] OTHER -> Return(c)

CacheLoaded(c) ==
  /\ call[c].at = "cache"
  /\ shown' = call[c].got
  /\ IF seed # NoWallet THEN Await(c, "status", {}) ELSE AfterScan(c, FALSE)
  /\ UNCHANGED <<screen, listed, active, seed, transfers, storage, chain,
                 past>>

(* Mutant: every output of the chain is taken for the wallet's.            *)
TipRead_NotOwned(c) ==
  /\ call[c].at = "status" /\ seed # NoWallet
  /\ call' = [call EXCEPT ![c].at = "scan", ![c].key = seed,
                          ![c].got = mined \ spent]
  /\ UNCHANGED <<screen, listed, session, storage, chain, past>>

(* scanWalletOutputs, from the tip the node names to the end of the walk:  *)
(* the outputs of the wallet whose seed is in memory when the tip is known.*)
TipRead(c) ==
  /\ call[c].at = "status" /\ seed # NoWallet
  /\ call' = [call EXCEPT ![c].at = "scan", ![c].key = seed,
                          ![c].got = {o \in mined \ spent : Owner[o] = seed}]
  /\ UNCHANGED <<screen, listed, session, storage, chain, past>>

(* The node does not answer, or the keys are gone when the tip is known.   *)
ScanFails(c) ==
  /\ call[c].at \in {"status", "scan"}
  /\ AfterScan(c, FALSE)
  /\ UNCHANGED <<screen, listed, session, storage, chain, past>>

(* The walk has ended: its result replaces the cache of the wallet active  *)
(* now.                                                                    *)
ScanReturned(c) ==
  /\ call[c].at = "scan"
  /\ cached' = [cached EXCEPT ![active] = call[c].got]
  /\ Await(c, "store", call[c].got)
  /\ UNCHANGED <<screen, listed, session, history, chain, past>>

ScanStored(c) ==
  /\ call[c].at = "store"
  /\ shown' = call[c].got
  /\ AfterScan(c, TRUE)
  /\ UNCHANGED <<screen, listed, active, seed, transfers, storage, chain,
                 past>>

(* loadTransferHistory ends unlock; a wallet without a history keeps what  *)
(* is in memory.  The unlock screen, if still there, gives way to home.    *)
HistoryLoaded(c) ==
  /\ call[c].at = "history"
  /\ transfers' = IF call[c].got = {} THEN transfers ELSE call[c].got
  /\ screen' = IF call[c].here THEN "home" ELSE screen
  /\ Return(c)
  /\ UNCHANGED <<listed, active, seed, shown, storage, chain, past>>
-----------------------------------------------------------------------------
(* The send screen: a scan, the balance check, the transaction, the record.*)

SendStart(c) ==
  /\ screen = "home" /\ ~Open("send") /\ MayUseWallet
  /\ seed # NoWallet
  /\ Begin(c, "send", "status", NoWallet, {})
  /\ UNCHANGED <<screen, listed, session, storage, chain, overtaken, mixed>>

BalanceRead(c) ==
  /\ call[c].at = "balance"
  /\ call[c].got # {} /\ seed # NoWallet
  /\ Await(c, "outputs", cached[active])
  /\ UNCHANGED <<screen, listed, session, storage, chain, past>>

(* One output stands for the inputs select_inputs takes from the cache.    *)
OutputsRead(c) ==
  /\ call[c].at = "outputs" /\ seed # NoWallet
  /\ \E o \in call[c].got :
       call' = [call EXCEPT ![c].at = "submit", ![c].key = seed,
                            ![c].tx = o, ![c].got = {}]
  /\ UNCHANGED <<screen, listed, session, storage, chain, past>>

(* Too small a balance, no keys, a refusal, no answer.                     *)
SendFails(c) ==
  /\ call[c].at \in {"balance", "outputs", "submit", "accepted"}
  /\ Return(c)
  /\ UNCHANGED <<screen, listed, session, storage, chain, past>>

(* The node takes what the owner's keys sign and nothing has spent.        *)
NodeAccepts(c) ==
  /\ call[c].at = "submit"
  /\ Owner[call[c].tx] = call[c].key
  /\ call[c].tx \in mined \ (spent \cup pool)
  /\ pool' = pool \cup {call[c].tx}
  /\ Await(c, "accepted", {})
  /\ UNCHANGED <<screen, listed, session, storage, mined, spent, past>>

(* removeSpentOutputs: the read, and the write of what remains.            *)
SpentRead(c) ==
  /\ call[c].at = "accepted"
  /\ Await(c, "drop", cached[active])
  /\ UNCHANGED <<screen, listed, session, storage, chain, past>>

SpentDropped(c) ==
  /\ call[c].at = "drop"
  /\ call[c].got # {}
  /\ LET remaining == call[c].got \ {call[c].tx} IN
       /\ cached' = [cached EXCEPT ![active] = remaining]
       /\ Await(c, "dropped", remaining)
  /\ UNCHANGED <<screen, listed, session, history, chain, past>>

(* recordSentTransfer, unless the send screen has been left.               *)
Record(c) ==
  IF call[c].here
  THEN /\ transfers' = transfers \cup {call[c].tx}
       /\ history' = [history EXCEPT ![active] = transfers']
  ELSE UNCHANGED <<transfers, history>>

SendReturned(c) ==
  /\ \/ call[c].at = "dropped" /\ shown' = call[c].got
     \/ call[c].at = "drop" /\ call[c].got = {} /\ UNCHANGED shown
  /\ Record(c)
  /\ Return(c)
  /\ UNCHANGED <<screen, listed, active, seed, cached, chain, past>>

LeaveScreen(c) ==
  /\ call[c].kind \in {"send", "restore"} /\ call[c].here
  /\ call' = [call EXCEPT ![c].here = FALSE]
  /\ UNCHANGED <<screen, listed, session, storage, chain, past>>
-----------------------------------------------------------------------------
(* Lock, switch and restore.                                               *)

(* Mutants: copyWith in the place of a new state, which keeps what is not  *)
(* named.                                                                  *)
Forget_KeepsSeed(w) ==
  active' = w /\ shown' = {} /\ transfers' = {} /\ UNCHANGED seed
Forget_KeepsTransfers(w) ==
  active' = w /\ seed' = NoWallet /\ shown' = {} /\ UNCHANGED transfers

(* A new WalletState: no keys, balance or transfers.                       *)
Forget(w) ==
  active' = w /\ seed' = NoWallet /\ shown' = {} /\ transfers' = {}

Lock ==
  /\ screen = "home" /\ MayChangeWallet
  /\ Forget(active)
  /\ screen' = "unlock" /\ call' = Unmounted
  /\ UNCHANGED <<listed, storage, chain, overtaken, mixed>>

(* The call is not awaited: the unlock screen is there before the wallet   *)
(* changes.                                                                *)
SwitchStart(c, w) ==
  /\ MayChangeWallet /\ call[c].at = "idle"
  /\ w \in listed \ {active}
  /\ call' = [Unmounted EXCEPT ![c] = [Idle EXCEPT !.kind = "switch",
                                           !.at = "switch", !.key = w]]
  /\ screen' = "unlock"
  /\ UNCHANGED <<listed, session, storage, chain, overtaken, mixed>>

SwitchDone(c) ==
  /\ call[c].at = "switch"
  /\ Forget(call[c].key)
  /\ Return(c)
  /\ Overtakes(c)
  /\ UNCHANGED <<screen, listed, storage, chain, overlaps, later, mixed>>

(* From the wallet list, which the unlock screen offers beside a second    *)
(* wallet only.                                                            *)
RestoreStart(c, w) ==
  /\ MayChangeWallet /\ ~Open("restore")
  /\ screen = "home" \/ \E v \in listed : v # active
  /\ w \in Wallets \ listed
  /\ \A d \in Calls : call[d].at = "restore" => call[d].key # w
  /\ Begin(c, "restore", "restore", w, {})
  /\ UNCHANGED <<screen, listed, session, storage, chain, overtaken, mixed>>

(* Mutant: the new list is missing from the copyWith.                      *)
RestoreDone_Unlisted(c) ==
  /\ call[c].at = "restore"
  /\ active' = call[c].key /\ seed' = call[c].key
  /\ IF call[c].here
     THEN screen' = "home" /\ call' = [Unmounted EXCEPT ![c] = Idle]
     ELSE UNCHANGED screen /\ Return(c)
  /\ Overtakes(c)
  /\ mixed' = (mixed \/ shown \cup transfers # {})
  /\ UNCHANGED <<listed, shown, transfers, storage, chain, overlaps, later>>

(* copyWith sets the keys and leaves the balance and the transfers alone.  *)
RestoreDone(c) ==
  /\ call[c].at = "restore"
  /\ listed' = listed \cup {call[c].key}
  /\ active' = call[c].key /\ seed' = call[c].key
  /\ IF call[c].here
     THEN screen' = "home" /\ call' = [Unmounted EXCEPT ![c] = Idle]
     ELSE UNCHANGED screen /\ Return(c)
  /\ Overtakes(c)
  /\ mixed' = (mixed \/ shown \cup transfers # {})
  /\ UNCHANGED <<shown, transfers, storage, chain, overlaps, later>>

RestoreFails(c) ==
  /\ call[c].at = "restore"
  /\ Return(c)
  /\ UNCHANGED <<screen, listed, session, storage, chain, past>>
-----------------------------------------------------------------------------
(* The chain, and other devices with the same wallet.                      *)

Receive(o) ==
  /\ o \notin mined
  /\ mined' = mined \cup {o}
  /\ UNCHANGED <<screen, listed, session, storage, call, spent, pool,
                 past>>

Spend(o) ==
  /\ o \in mined \ spent
  /\ spent' = spent \cup {o}
  /\ pool' = pool \ {o}
  /\ UNCHANGED <<screen, listed, session, storage, call, mined, past>>

Evict(o) ==
  /\ o \in pool
  /\ pool' = pool \ {o}
  /\ UNCHANGED <<screen, listed, session, storage, call, mined, spent,
                 past>>

Next ==
  \/ \E c \in Calls :
       \/ UnlockStart(c) \/ Decrypted(c) \/ WrongPassword(c)
       \/ RefreshStart(c) \/ CacheLoaded(c) \/ TipRead(c) \/ ScanFails(c)
       \/ ScanReturned(c) \/ ScanStored(c) \/ HistoryLoaded(c)
       \/ SendStart(c) \/ BalanceRead(c) \/ OutputsRead(c) \/ SendFails(c)
       \/ NodeAccepts(c) \/ SpentRead(c) \/ SpentDropped(c) \/ SendReturned(c)
       \/ LeaveScreen(c) \/ SwitchDone(c) \/ RestoreDone(c) \/ RestoreFails(c)
       \/ \E w \in Wallets : SwitchStart(c, w) \/ RestoreStart(c, w)
  \/ Lock
  \/ \E o \in Outputs : Receive(o) \/ Spend(o) \/ Evict(o)

Spec == Init /\ [][Next]_vars
-----------------------------------------------------------------------------
(* The type invariant: the active wallet is one of the list's, and no      *)
(* output is spent before it is on the chain.                              *)
TypeOK ==
  /\ screen \in {"unlock", "home"}
  /\ listed \subseteq Wallets /\ active \in listed
  /\ seed \in Wallets \cup {NoWallet}
  /\ shown \subseteq Outputs /\ transfers \subseteq Outputs
  /\ cached \in [Wallets -> SUBSET Outputs]
  /\ history \in [Wallets -> SUBSET Outputs]
  /\ call \in [Calls -> CallStates]
  /\ mined \subseteq Outputs /\ spent \subseteq mined /\ pool \subseteq mined
  /\ overlaps \in 0..MaxOverlaps /\ later \in 0..MaxLater
  /\ overtaken \subseteq Points \X (Wallets \cup {NoWallet})
  /\ mixed \in BOOLEAN

Own(w) == {o \in Outputs : Owner[o] = w}

(* A call was overtaken by a change of the active wallet in such an await. *)
Late(points) == \E e \in overtaken : e[1] \in points

(* The cached set sendTransaction takes its inputs from holds outputs of   *)
(* its own wallet only, although scanWalletOutputs names the wallet after  *)
(* the walk and the seed before it.  So README.md:111 has it; a user who   *)
(* does not wait sees it fail.                                             *)
SelectsOwnedOutputs == \A w \in Wallets : cached[w] \subseteq Own(w)

(* Whatever else the user does not wait for, one wallet's outputs get into *)
(* another's cache only by a call that the other became active under while *)
(* it decrypted, walked the chain, or read the cache it was to write back: *)
(* sends, refreshes and unlocks overtaken elsewhere do no harm.            *)
CachesStayOwn == ~Late({"decrypt", "scan", "drop"}) => SelectsOwnedOutputs

(* unlock names its wallet before it decrypts and sets the keys after it:  *)
(* keys in memory that are not the active wallet's are those of a wallet   *)
(* whose own unlock a switch or restore overtook, and come in no other way.*)
KeysOfActiveWallet ==
  seed \in {NoWallet, active} \/ <<"decrypt", seed>> \in overtaken

(* A call that outlives lock, switchWallet or restoreWallet goes on to set *)
(* what is shown and to record its transfer.  Unless restoreWallet took    *)
(* over what was shown, another wallet's balance, transfers and stored     *)
(* history come only from a call overtaken with that result in its hands;  *)
(* lock alone, with any calls in flight, mixes nothing.                    *)
OwnTransfers ==
  ~mixed =>
    /\ ~Late({"decrypt", "cache", "scan", "store", "drop", "dropped"}) =>
         shown \subseteq Own(active)
    /\ ~Late({"decrypt", "history", "submit", "accepted", "drop", "dropped"}) =>
         /\ transfers \subseteq Own(active)
         /\ \A w \in Wallets : history[w] \subseteq Own(w)

(* A transfer once recorded stays in its wallet's history, which           *)
(* recordSentTransfer replaces as a whole by what is in memory: for a user *)
(* who has waited so far, as a history loaded late may be the shorter one. *)
HistoryGrows ==
  [][overlaps = 0 => \A w \in Wallets : history[w] \subseteq history'[w]]_vars
=============================================================================
