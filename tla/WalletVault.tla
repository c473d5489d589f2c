---------------------------- MODULE WalletVault ------------------------------
(***************************************************************************)
(* The wallets of the application: the list of envelopes, the id of the    *)
(* active wallet and the network in secure storage, the copy of them in    *)
(* WalletService, and the operations that create, restore, unlock, switch, *)
(* rename and delete wallets and choose the network.  An action is the     *)
(* code from one await to the next; storage serves requests in the order   *)
(* they are made.  The process may stop between any two of them.           *)
(*                                                                         *)
(* The create screen has its mnemonic from a wallet made with the password *)
(* "__temp__", which it locks and deletes again before it shows the words. *)
(***************************************************************************)
EXTENDS WalletKeys, Wots, FiniteSets, SequencesExt, TLC

CONSTANTS
  Passwords,    \* what users protect wallets with
  Typed,        \* what users type when asked for a mnemonic
  Old,          \* the list at first, with an envelope of the legacy format
  NewIds,       \* the ids of new wallets: the times they are made at
  Hashes,       \* message hashes
  None,         \* absence of a value
  MaxChanges,   \* bounds on wallets made and changes of network together,
  MaxOverlaps,  \* on the calls begun while another is in flight,
  MaxFaults     \* and on crashes and damages together

ASSUME BoundAssumption ==
  MaxChanges \in Nat /\ MaxOverlaps \in Nat /\ MaxFaults \in Nat

(* The clock moves on between two wallets.                                 *)
ASSUME IdAssumption ==
  /\ DOMAIN NewIds = 1..MaxChanges
  /\ \A m, n \in 1..MaxChanges : NewIds[m] = NewIds[n] => m = n
  /\ \A n \in 1..MaxChanges : NewIds[n] # None

(* The wallets there are at first; their envelopes hold valid mnemonics.   *)
ASSUME OldAssumption ==
  /\ Old \in Seq([id : {w.id : w \in ToSet(Old)}, env : {w.env : w \in ToSet(Old)}])
  /\ \A k \in DOMAIN Old :
       /\ Old[k].id # None /\ \A n \in 1..MaxChanges : Old[k].id # NewIds[n]
       /\ \A j \in DOMAIN Old : Old[j].id = Old[k].id => j = k
       /\ \E p \in Typed, w \in Passwords :
            ValidMnemonic(p) /\ Old[k].env \in {EncryptWallet(p, w, "fresh"),
                                                LegacyEnvelope(p, w, "fresh")}

(* A message hash has 32 bytes of two digits each. *)
ASSUME HashAssumption ==
  Hashes \subseteq Seq(0..CHAIN_MAX) /\ \A d \in Hashes : Len(d) <= 64

Temp == "__temp__"

VARIABLES
  list, activeId,   \* stored: envelopes by id, in order; the active id;
  network, turns,   \* the network, and how often it was changed
  state,            \* _state: wallets, active, network, session
  calls,            \* calls in flight, a set of records
  shown,            \* the words the create screen shows, or None
  signed,           \* the last message signature
  overlaps,         \* history: how many calls were begun during another
  mine,             \* history: by id, what the user was shown of a wallet
  made,             \* how many wallets were made
  crashes, damaged  \* how often, and of which wallets, each happened

choice == <<network, turns>>
stored == <<list, activeId, choice>>
past == <<mine, made, crashes, damaged>>
history == <<overlaps, past>>
vars == <<stored, state, calls, shown, signed, history>>

Networks == {"mainnet", "testnet"}
Locked == [seed |-> None, address |-> None]
IsUnlocked == state.session.seed # None
Ids(wallets) == {wallets[k].id : k \in DOMAIN wallets}
EnvOf(wallets, id) == (CHOOSE w \in ToSet(wallets) : w.id = id).env
Without(wallets, id) ==
  IF id \in Ids(wallets)
  THEN RemoveAt(wallets, CHOOSE k \in DOMAIN wallets : wallets[k].id = id)
  ELSE wallets
FirstId(wallets) == IF wallets = <<>> THEN None ELSE Head(wallets).id

(* The keys a password opens a mnemonic with. *)
Opened(p, password) == RestoreWallet(p, PqTransform(password))
Session(r, net) ==
  [seed |-> r.seed, address |-> IF net = "mainnet" THEN r.main ELSE r.test]

(* What a user has seen of a wallet. *)
Seen(password, p, address) ==
  [password |-> password, phrase |-> p, address |-> address]

(* init *)
Loaded ==
  [wallets |-> list, active |-> activeId, network |-> network, session |-> Locked]

Init ==
  /\ list = Old /\ activeId = FirstId(Old)
  /\ network = "testnet" /\ turns = 0
  /\ state = Loaded
  /\ calls = {} /\ shown = None /\ signed = None
  /\ overlaps = 0
  /\ mine = [id \in Ids(Old) |->
               LET old == EnvOf(Old, id).sealed
               IN  Seen(old.password, old.msg, Opened(old.msg, old.password).test)]
  /\ made = 0 /\ crashes = 0 /\ damaged = {}
-----------------------------------------------------------------------------
Call(op, at, id, phrase, password, got) ==
  [op |-> op, at |-> at, id |-> id, phrase |-> phrase, password |-> password, got |-> got]

(* A user begins a call, or does not wait for another to end; the screen   *)
(* with a signature is left first.                                         *)
MayBegin ==
  /\ signed = None
  /\ calls # {} => overlaps < MaxOverlaps
  /\ overlaps' = overlaps + (IF calls = {} THEN 0 ELSE 1)
Begin(c) == MayBegin /\ calls' = calls \cup {c}
Step(c, at) == calls' = (calls \ {c}) \cup {[c EXCEPT !.at = at]}
StepWith(c, at, got) ==
  calls' = (calls \ {c}) \cup {[c EXCEPT !.at = at, !.got = got]}
End(c) == calls' = calls \ {c}

(* Mutant: the clock stands still. *)
SameId == NewIds[1]

NewId == NewIds[made + 1]

(* createWallet and restoreWallet, to the first request of storage; the    *)
(* id is the time, the mnemonic of createWallet is new.                    *)
Make(op, p, password) ==
  /\ made + turns < MaxChanges
  /\ made' = made + 1
  /\ IF ValidMnemonic(p)
     THEN Begin(Call(op, "read", NewId, p, password, <<>>))
     ELSE MayBegin /\ UNCHANGED calls
  /\ UNCHANGED <<stored, state, signed, mine, crashes, damaged>>

StartCreate ==
  /\ Make("create", GenerateMnemonic("new" \o ToString(made + 1), 24), Temp)
  /\ shown' = None
StartRestore(p, password) ==
  /\ p \in Typed \cup (IF shown = None THEN {} ELSE {shown})
  /\ Make("restore", p, password)
  /\ UNCHANGED shown

(* _persistNewWallet reads the list, *)
ReadList(c) ==
  /\ c.op \in {"create", "restore"} /\ c.at = "read"
  /\ StepWith(c, "write", list)
  /\ UNCHANGED <<stored, state, shown, signed, history>>

(* writes it with the new wallet, *)
WriteList(c) ==
  /\ c.at = "write"
  /\ list' = Append(c.got, [id |-> c.id,
                            env |-> EncryptWallet(c.phrase, c.password, "fresh")])
  /\ Step(c, "activate")
  /\ UNCHANGED <<choice, activeId, state, shown, signed, history>>

(* and makes it the active one. *)
WriteActive(c) ==
  /\ c.at = "activate"
  /\ activeId' = c.id
  /\ Step(c, "reload")
  /\ UNCHANGED <<choice, list, state, shown, signed, history>>

Reload(c) ==
  /\ c.at = "reload"
  /\ StepWith(c, "publish", list)
  /\ UNCHANGED <<stored, state, shown, signed, history>>

(* The new wallet is open; the rewards are asked for. *)
Publish(c) ==
  /\ c.at = "publish"
  /\ state' = [state EXCEPT !.wallets = c.got, !.active = c.id,
               !.session = Session(Opened(c.phrase, c.password), state.network)]
  /\ Step(c, "rewards")
  /\ UNCHANGED <<stored, shown, signed, history>>

(* restoreWallet returns: the wallet is the user's. *)
Restored(c) ==
  /\ c.at = "rewards" /\ c.op = "restore"
  /\ mine' = [id \in DOMAIN mine \cup {c.id} |->
                IF id = c.id THEN Seen(c.password, c.phrase, state.session.address)
                ELSE mine[id]]
  /\ End(c)
  /\ UNCHANGED <<stored, state, shown, signed, overlaps, made, crashes, damaged>>

(* deleteWalletById, to its write of the list. *)
Delete(c, id) ==
  /\ list' = Without(state.wallets, id)
  /\ calls' = (calls \ {c}) \cup
                {[c EXCEPT !.at = "deleted", !.id = id, !.got = Without(state.wallets, id)]}
  /\ UNCHANGED <<activeId, choice>>

(* Mutant: the first wallet of the list is taken for the temporary one. *)
TakesFirst(wallets, active) == FirstId(wallets)

(* deleteWallet deletes the wallet that is active. *)
Victim(wallets, active) == active

(* The create screen has its mnemonic, locks, and deletes. *)
Discard(c) ==
  /\ c.at = "rewards" /\ c.op = "create"
  /\ state' = [state EXCEPT !.session = Locked]
  /\ IF state.active = None
     THEN End(c) /\ shown' = c.phrase /\ UNCHANGED stored
     ELSE Delete(c, Victim(state.wallets, state.active)) /\ UNCHANGED shown
  /\ UNCHANGED <<signed, history>>

(* The wallet list screen deletes a wallet that is not active, the         *)
(* settings and the unlock screen the active one.                          *)
DeleteWalletById(id) ==
  /\ id \in (Ids(state.wallets) \cup {state.active}) \ {None}
  /\ MayBegin
  /\ Delete(Call("delete", "deleted", id, None, None, <<>>), id)
  /\ mine' = [k \in DOMAIN mine \ {id} |-> mine[k]]
  /\ UNCHANGED <<state, shown, signed, made, crashes, damaged>>

(* Mutant: the stored id of the active wallet is left alone. *)
KeepsActiveId(c) ==
  /\ c.at = "deleted" /\ state.active = c.id
  /\ Step(c, "settle")
  /\ UNCHANGED <<stored, state, shown, signed, history>>

(* The deleted wallet is the active one: the first of the rest follows it. *)
NextActive(c) ==
  /\ c.at = "deleted" /\ state.active = c.id
  /\ activeId' = FirstId(c.got)
  /\ Step(c, "settle")
  /\ UNCHANGED <<choice, list, state, shown, signed, history>>

Shows(c) == shown' = IF c.op = "create" THEN c.phrase ELSE shown

(* It is not: the list is all that changes. *)
StaysActive(c) ==
  /\ c.at = "deleted" /\ state.active # c.id
  /\ state' = [state EXCEPT !.wallets = c.got]
  /\ Shows(c) /\ End(c)
  /\ UNCHANGED <<stored, signed, history>>

Deleted(c) ==
  /\ c.at = "settle"
  /\ state' = [state EXCEPT !.wallets = c.got, !.active = FirstId(c.got),
                            !.session = Locked]
  /\ Shows(c) /\ End(c)
  /\ UNCHANGED <<stored, signed, history>>
-----------------------------------------------------------------------------
(* renameWallet writes the list of _state with another name. *)
StartRename(id) ==
  /\ id \in Ids(state.wallets)
  /\ Begin(Call("rename", "renamed", id, None, None, state.wallets))
  /\ list' = state.wallets
  /\ UNCHANGED <<choice, activeId, state, shown, signed, past>>
Renamed(c) ==
  /\ c.at = "renamed"
  /\ state' = [state EXCEPT !.wallets = c.got]
  /\ End(c)
  /\ UNCHANGED <<stored, shown, signed, history>>

(* switchWallet *)
StartSwitch(id) ==
  /\ id \in Ids(state.wallets) \ {state.active}
  /\ Begin(Call("switch", "switched", id, None, None, <<>>))
  /\ activeId' = id
  /\ UNCHANGED <<choice, list, state, shown, signed, past>>
Switched(c) ==
  /\ c.at = "switched"
  /\ state' = [state EXCEPT !.active = c.id, !.session = Locked]
  /\ End(c)
  /\ UNCHANGED <<stored, shown, signed, history>>

(* unlock takes the envelope from _state and opens it; a wrong password    *)
(* and a damaged envelope throw.                                           *)
StartUnlock(password) ==
  /\ state.active \in Ids(state.wallets)
  /\ Begin(Call("unlock", "decrypt", state.active,
                DecryptWallet(EnvOf(state.wallets, state.active), password), password, <<>>))
  /\ UNCHANGED <<stored, state, shown, signed, past>>

(* Mutant: the password is not transformed into a passphrase. *)
NoPassphrase(p, password) == RestoreWallet(p, PqTransform(""))

Reopened(p, password) == Opened(p, password)

Unlocked(c) ==
  /\ c.at = "decrypt"
  /\ state' = IF c.phrase = Error THEN state
              ELSE [state EXCEPT !.session = Session(Reopened(c.phrase, c.password), state.network)]
  /\ End(c)
  /\ UNCHANGED <<stored, shown, signed, history>>

(* lock *)
Lock ==
  /\ IsUnlocked /\ MayBegin
  /\ state' = [state EXCEPT !.session = Locked]
  /\ UNCHANGED <<stored, calls, shown, signed, past>>

(* signMessage, with the keys of the default path; the signature is shown  *)
(* until another screen is opened.                                         *)
Sign(digits) ==
  /\ IsUnlocked /\ calls = {} /\ signed = None
  /\ signed' = HybridSign(DeriveKey(state.session.seed, 0, 0, 0, FALSE).signing, digits)
  /\ UNCHANGED <<stored, state, calls, shown, history>>
Close ==
  /\ signed # None
  /\ signed' = None
  /\ UNCHANGED <<stored, state, calls, shown, history>>

(* switchNetwork stores the network, *)
StartNetwork(net) ==
  /\ made + turns < MaxChanges
  /\ net # state.network
  /\ Begin(Call("network", "stored", net, None, None, <<>>))
  /\ network' = net /\ turns' = turns + 1
  /\ UNCHANGED <<list, activeId, state, shown, signed, past>>

(* then shows it, at once or, with a wallet open, *)
NetworkStored(c) ==
  /\ c.at = "stored"
  /\ IF IsUnlocked
     THEN /\ StepWith(c, "derive", DefaultAddress(state.session.seed, c.id = "mainnet"))
          /\ UNCHANGED state
     ELSE state' = [state EXCEPT !.network = c.id] /\ End(c)
  /\ UNCHANGED <<stored, shown, signed, history>>

(* when the wallet's address for it is derived. *)
NetworkDerived(c) ==
  /\ c.at = "derive"
  /\ state' = [state EXCEPT !.network = c.id, !.session.address = c.got]
  /\ End(c)
  /\ UNCHANGED <<stored, shown, signed, history>>

(* The process ends and is started again. *)
Crash ==
  /\ crashes + Cardinality(damaged) < MaxFaults
  /\ crashes' = crashes + 1
  /\ state' = Loaded
  /\ calls' = {} /\ shown' = None /\ signed' = None
  /\ UNCHANGED <<stored, overlaps, mine, made, damaged>>

(* A stored envelope is changed, in one place, while the application is    *)
(* closed.                                                                 *)
Damage(k) ==
  /\ crashes + Cardinality(damaged) < MaxFaults
  /\ calls = {} /\ ~IsUnlocked /\ list[k].id \notin damaged
  /\ \E env \in Damaged(list[k].env) : list' = [list EXCEPT ![k].env = env]
  /\ damaged' = damaged \cup {list[k].id}
  /\ state' = [wallets |-> list', active |-> activeId, network |-> network,
               session |-> Locked]
  /\ shown' = None /\ signed' = None
  /\ UNCHANGED <<choice, activeId, calls, overlaps, mine, made, crashes>>

Next ==
  \/ StartCreate \/ \E p \in Typed \cup {shown}, w \in Passwords : p # None /\ StartRestore(p, w)
  \/ \E c \in calls :
       \/ ReadList(c) \/ WriteList(c) \/ WriteActive(c) \/ Reload(c) \/ Publish(c)
       \/ Restored(c) \/ Discard(c) \/ NextActive(c) \/ StaysActive(c) \/ Deleted(c)
       \/ Renamed(c) \/ Switched(c) \/ Unlocked(c)
       \/ NetworkStored(c) \/ NetworkDerived(c)
  \/ \E id \in Ids(state.wallets) \cup {state.active} :
       DeleteWalletById(id) \/ StartRename(id) \/ StartSwitch(id)
  \/ \E w \in Passwords : StartUnlock(w)
  \/ \E net \in Networks : StartNetwork(net)
  \/ Lock \/ (\E d \in Hashes : Sign(d)) \/ Close
  \/ Crash \/ \E k \in DOMAIN list : Damage(k)

Spec == Init /\ [][Next]_vars
-----------------------------------------------------------------------------
(* Every variable holds a value of its type, and no two wallets share an   *)
(* id.                                                                     *)
TypeOK ==
  /\ Ids(list) \subseteq Ids(Old) \cup {NewIds[n] : n \in 1..MaxChanges}
  /\ Cardinality(Ids(list)) = Len(list)
  /\ Cardinality(calls) <= 1 + overlaps
  /\ state.network \in Networks /\ network \in Networks /\ turns + made \in 0..MaxChanges
  /\ overlaps \in 0..MaxOverlaps /\ crashes \in 0..MaxFaults

(* Whatever calls overlap, the stored envelope of a wallet opens with the  *)
(* password it was protected with, to the mnemonic its user typed or was   *)
(* shown, and with no other; one that was changed in any place opens not   *)
(* at all.                                                                 *)
EnvelopeKeepsMnemonic ==
  \A k \in DOMAIN list : \A w \in Passwords \cup {Temp} :
    LET id == list[k].id
        opened == DecryptWallet(list[k].env, w)
    IN  /\ id \in damaged => opened = Error
        /\ id \in DOMAIN mine \ damaged =>
             opened = IF w = mine[id].password THEN mine[id].phrase ELSE Error

(* Unlocking leads back to the keys of the address the user was shown when *)
(* the wallet was made, on whichever network, though only the mnemonic is  *)
(* kept and the passphrase is made anew from the password; the address     *)
(* shown holds these keys and is one of the network shown.                 *)
UnlockReopens ==
  overlaps = 0 /\ IsUnlocked /\ state.active \in DOMAIN mine =>
    LET now == Decode(state.session.address)
        before == Decode(mine[state.active].address)
    IN  /\ now.view = before.view /\ now.spend = before.spend
        /\ now.spend = DeriveBip44(state.session.seed, 0, 0, 0).spend
        /\ now.version = 1 <=> state.network = "mainnet"

(* A user who waits for each call loses no wallet but those deleted on     *)
(* request, wherever the process stopped; if it never did, the temporary   *)
(* wallets of the create screen are gone as well when it shows the words.  *)
ListIsTheUsers ==
  overlaps = 0 =>
    /\ DOMAIN mine \subseteq Ids(list)
    /\ calls = {} /\ crashes = 0 => DOMAIN mine = Ids(list)

(* Between two calls of a user who waits, a restart would show what is     *)
(* shown now: the same wallets and network, the same one active, listed.   *)
RestartShowsTheSame ==
  overlaps = 0 /\ calls = {} /\ crashes = 0 =>
    /\ state.wallets = list /\ state.active = activeId /\ state.network = network
    /\ IF list = <<>> THEN activeId = None ELSE activeId \in Ids(list)

(* The signature as made verifies for its message alone, as a whole and in *)
(* its one-time half.  With its chain values carried on to the digits of   *)
(* another hash, the whole still does; the half alone does for no hash     *)
(* with a smaller digit, nor with a smaller checksum as far as the three   *)
(* digits of msg_base_w hold it, which is from bit 8 up.                   *)
SignatureBinds ==
  signed # None =>
    \A d \in Hashes :
      LET msg == signed.ed.msg
          carried == CarriedOn(signed.wots, d)
      IN  /\ HybridVerify(signed, d) <=> d = msg
          /\ WotsVerify(signed.wots, d, signed.wotsKey) <=> d = msg
          /\ HybridVerify([signed EXCEPT !.wots = carried], d) <=> d = msg
          /\ WotsVerify(carried, d, signed.wotsKey) =>
               /\ Len(d) = Len(msg) /\ \A i \in DOMAIN d : msg[i] <= d[i]
               /\ Checksum(msg) \div 256 <= Checksum(d) \div 256
=============================================================================
