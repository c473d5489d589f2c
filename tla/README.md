# Hyphen Wallet: TLA+ models and proofs

Models of the Hyphen wallet repository (Flutter application, Rust core, payout
agent), TLC configurations that check them, and TLAPS proofs of every safety
property that the passing runs check.
Everything is run inside this directory: `tlc -config payout_agent.cfg
MCPayoutAgent.tla`, `tlapm PayoutAgentProofs.tla`. Paths below are relative to
the repository; `payout_agent.rs` is `rust/src/bin/payout_agent.rs`, the other
Rust files are in `rust/src/`, `wallet_service.dart` is in `lib/services/`.

## The system

| Part | Where | State | Operations | What makes it correct |
|---|---|---|---|---|
| Payout agent | `payout_agent.rs` 133-512 | ledger intent -> signed transaction, one mutex | `submit`, `status`, `health`, on two server threads | one transaction per intent, whatever is retried or crashes; inputs of two payouts never overlap; nothing is broadcast that a restart would forget |
| Payout state file | `payout_agent.rs` 585-644 | `payout_agent.bin`, `.next`, `.bak` | `persist_state`, `load_state_with_backup` | a save is atomic against a crash; what was saved is loaded again |
| Output scan | `transfer.rs` 140-311 | running index, found outputs, key images | `scan_wallet_outputs` | exactly the unspent outputs, each under the node's index |
| Transaction status and broadcast | `transfer.rs` 560-640 | none | `transaction_status`, `submit_built_transaction` | a status that can be acted on; idempotent broadcast |
| Transaction construction | `transfer.rs` 345-557, 650-678 | none | `build_transaction`, `select_inputs` | value is conserved; stale inputs are noticed |
| Decoys and ring rules | `transfer.rs` 686-991 | none | `fetch_decoys`, `vre_params_for_network`, `check_ring_vre`, `audit_decoy_distribution` | every ring built satisfies the rules checked |
| Agent's HTTP service | `payout_agent.rs` 186-213, 395-551 | threads of the server | `respond`, `Rejection`, `decode` | a verdict only for who may ask; every request is answered |
| Node RPC client | `rpc_client.rs` | one TCP stream, request counter | `connect`, `call`, typed getters | the answer taken is the answer to the request |
| Chain identity | `chain_identity.rs` | four pinned identities | `verify` | nothing is signed for another chain |
| Wallet service | `wallet_service.dart` | `WalletState`, wallets in secure storage, cached outputs, history, timers | create, restore, unlock, lock, switch, delete, scan, send, network switch, polling | keys, outputs and history of one wallet never end up under another; a spent output does not come back |
| Screens | `lib/screens` | widgets | call the wallet service in some order | no half-done operation when a screen is left |
| Wallet envelope | `api/wallet.rs` 373-533, `crypto.rs` | none | `encrypt_wallet`, `decrypt_wallet` | opens with its password to its text, and in no other way |
| Keys, mnemonics, addresses | `keys.rs`, `bip39.rs`, `address.rs` | none | derivations and encodings | the same mnemonic and password lead to the same keys, for ever |
| One-time signatures | `wots.rs` | none | `sign`, `verify` | a signature is for one message |

Interaction: the mining pool calls the agent over HTTP; agent and application
call the same Rust functions, which open an RPC connection to a full node per
operation. The node's chain grows, is reorganised and its mempool forgets,
independently of all of them. The agent's only persistent state is its ledger
file; the application's is the secure storage.

What is hard here: two server threads and a retrying pool; a process that stops
between any two file operations; replies that are lost after the node has
acted; several RPCs that are meant to see one chain and see two; errors that
are swallowed and look like an end of data; Dart operations that await and then
act on state that has changed. `PROJECT.json` lists each hazard at its line
with the properties that cover it.

## Modules

| Module | Models | Checked by |
|---|---|---|
| `PayoutLedger` | what the state file promises: a ledger in memory, a durable one, a save that may or may not be atomic | `StoreImplementsLedger`, `AgentUsesLedger` |
| `PayoutStore` | `persist_state`, `load_state`, `load_state_with_backup`, one file operation per action | `payout_store` |
| `HyphenNode` | the full node as the RPC shows it (external): best chain and mempool of the wallet's transactions | part of `PayoutAgent` |
| `PayoutAgent` | the agent: workers, mutex, requests, ledger, RPCs, crashes | `payout_agent*` |
| `ChainScan` | `scan_wallet_outputs` against a moving chain | `chain_scan*` |
| `ChainIdentity` | the pinned networks and `verify` | part of the next three |
| `RingVre` | ring parameters, ring check, audit, the selections of `fetch_decoys` | part of `TransactionBuilder` |
| `TransactionBuilder` | `build_transaction`, one node call per action | `transaction_builder` |
| `RpcClient` | one connection to a node: requests, frames, reads, drops | part of `AgentService` |
| `AgentService` | the agent as an HTTP service: checks, mutex, the handlers' conversation with the node | `agent_service` |
| `WalletSession` | `WalletService` and the screens that call it: session, output cache and history of every wallet | `wallet_session*` |
| `WalletKeys` | mnemonic, keys, addresses and envelopes as free constructors | part of `WalletVault` |
| `Wots` | hash-chain signatures and the dual signature | part of `WalletVault` |
| `WalletVault` | the stored wallets and the operations on them | `wallet_vault` |
| `MC...` | constants and symmetry for TLC | |
| `SetInduction` | induction over numbers and finite sets, without operator parameters | `tlapm` |
| `PayoutStoreProofs`, `PayoutAgentProofs`, `ChainScanProofs`, `WalletSessionProofs`, `TransactionBuilderProofs`, `AgentServiceProofs`, `WalletVaultProofs` | theorems about the module named | `tlapm` |

A definition marked "Mutant" is no part of the model. It is a plausible bug in
the definition after it; substituted for that definition it makes the property
named with it in `PROJECT.json` fail, which shows that the property depends on
the code.

### PayoutStore

A file is absent (`NoFile`), unreadable (`Torn`) or holds a ledger. The actions
are the operations of `persist_state` in order: `OpenNext` (create and
truncate), `WriteNext` (write and sync), `RemoveBak`, `RenameToBak`,
`RenameNext`, and `Restore` for the rename in the error branch. `AfterSync`
holds the two `exists()` tests. `SaveFault` is the early return of any
operation; the record stays in memory as in `Agent::submit`. `Crash` is
possible between any two operations, also within `WriteNext`'s file (`.next` is
`Torn` from `OpenNext` on). `Damage` makes the primary unreadable, the case the
backup is for. `Loadable` is what `load_state_with_backup` returns, including
its last branch: no primary, then the default, whatever `.bak` holds. A rename
is atomic and durable, as the code assumes (it syncs the file, not the
directory).

`payout_store` (three intents, two records each, two crashes, two faults, one
damage): `SurvivingCopy`, `ReadablePrimaryIsCurrent`, `FallbackKeepsPriorSave`,
`StoreImplementsLedger`. Three intents give three saves, so that all branches of `persist_state` are
taken (no primary; no backup; both) and each may be interrupted.
The properties speak of every record `persist_state` ever returned `Ok` for
(`acked`, which nothing resets). After a stop between the two renames the next
start loads the empty ledger although two files hold all records, and the second
save after it removes the backup, the last of them. Those records are followed
by name: `passed` has what a start without a readable primary went without,
`erased` those of them whose backup has been removed since. While no file is
damaged, `SurvivingCopy` says
that nothing else is ever lost, `ReadablePrimaryIsCurrent` that nothing else is
missing in a process over a readable primary; that what they admit is a defect
is shown on the agent by `payout_agent_gap`.

`StoreImplementsLedger` relates the files to `PayoutLedger` under `durable <-
Loadable`: a save is a step to the new ledger or none, except for the vacant
moment between the renames (`Vacate`, allowed by `AtomicReplace = FALSE`). With
`AtomicReplace = TRUE`, the documented contract, it fails for that reason. The
steps are those before the primary is damaged: a lost primary is outside the
contract, and `FallbackKeepsPriorSave` says what is left then.

### PayoutAgent

`records` is `Agent.state.records`, `durable` what a restart would load, `saved`
the ledger of the last save that completed, `holder` the worker with the mutex,
`pc[w]` the call worker `w` makes next. One action is one call that others can
interleave with:

| Code | Action |
|---|---|
| request read, before `agent.lock()` | `Receive` |
| lock; validation against the record (244-250), unknown intent in `status` | `EnterRefused` |
| lock; record found | `EnterKnown` |
| lock; new intent | `EnterNew` |
| `ensure_no_unconfirmed_intent`, per record | `EnsureConfirmed` |
| `get_chain_status` and `scan_wallet_outputs` | `Scan` |
| `build_transaction`, insertion into the ledger | `Build` |
| `persist_state` | `Vacate`, `SaveOk`, `SaveFails` |
| `transaction_status`, its two RPCs | `Locate`, `Mempool` |
| `submit_built_transaction` | `Submit` |
| any RPC error | `RpcFails` |
| process stop, `Agent::open` | `Crash`, `Restart` |
| node | `NodeStep` |

Abstractions: recipient and amount are one value `payee`; a transaction is an
identity and the set of outputs it spends; the wallet's outputs are a fixed set
(change outputs only add to what can be selected). The save has the outcomes of
`PayoutLedger`; `AgentUsesLedger` states that the agent uses the ledger as
that module allows, `StoreImplementsLedger` that the files provide it, and that
is how the two components compose. `Scan` is one step at the moment the tip is
read: blocks after that tip are not read by the code either, and a mix of two
chains needs a reorganisation, which is counted.

Mishaps are counted by kind in `mishaps`, and a property that needs the absence
of one says so:

* `Undisturbed`: no stop in the vacant moment of a save, and no failed save
  followed by a stop. These are the two ways to lose a record.
* `FullView`: no reorganisation and no scan that was cut short.

Runs and bounds. `payout_agent`: two workers, two intents, two payees, two
outputs of which each covers a payout, two signed transactions, each mishap
once. Two of everything is the least at which two workers race for one intent,
an intent is retried with other payment data, and two payouts compete for one
output; the second transaction may also be a second one for the first intent.
(With three transactions the run takes four minutes and finds nothing more; the
theorems hold for any number.) `payout_agent_gap` and `payout_agent_unsaved` show
what the documentation promises and the code does not keep; each allows only
the mishap at issue.

Liveness (`payout_agent_live`, one worker, one crash): every payout is confirmed
in the end. Fairness, per action:

* `WF` on the handler of a worker: a thread of a running process runs.
* `SF` on the calls of the handler (per intent where a retry makes them): an RPC
  that is made again and again succeeds eventually. Every retry makes the call
  again; without this assumption a node that never answers is a
  counterexample.
* `SF` on `Submit(w) /\ Admit(...)`: the node does not refuse for ever what it
  has no reason to refuse.
* `WF` on `Restart`: the operator starts a stopped agent.
* `SF` on receiving a request per intent: the pool keeps retrying a payout,
  which is the contract the README of the repository gives it.
* `SF` on mining a waiting transaction: what keeps coming back to the mempool
  is mined. Eviction stays possible, so this needs the agent's rebroadcast
  (the mutant without it fails).

The goal is `Paid(i) \/ ~Quiet`: with a lost record or overlapping inputs a
record can exist that never confirms, and `ensure_no_unconfirmed_intent` then
refuses every later intent.

### ChainScan

The caller reads the tip (`Begin`); `ReadPrefix` counts outputs below
`start_height`; `ReadBlock` collects outputs and key images; `RpcFails` is an
error in the prefix (the scan fails) or in the range (it ends with `Ok`);
`Extend` and `Reorg` are the node's, at any moment. `opaque` marks a
transaction the wallet cannot decode, which is passed over without counting its
outputs. `low`, the least length of the chain since the scan began, tells the
blocks a reorganisation reached from those it did not. `Before` is the set of
outputs that come before a block, `Offset` their number: the global index.

`chain_scan` (three blocks, two owned outputs, two reorganisations, one opaque
transaction; one transaction with one or two outputs per block, an own output
first, last or absent): `IndexedBelowFork`, `ExactForBlocksRead`. Three blocks
allow an output to be created, another to be created above it, and one of them
to be spent, with the prefix of a partial scan below.
`chain_scan_short` shows that a scan that meets an RPC error returns `Ok` with
fewer blocks than asked for.

### WalletSession

Dart runs one piece of code at a time and lets another in at every `await`. A
call in flight is a record in `call`; `at` names what it awaits, and each action
is the code from one await to the next:

| Code | Actions |
|---|---|
| `unlock` | `UnlockStart`, `Decrypted` or `WrongPassword`, then `refreshAll`, then `HistoryLoaded` |
| `refreshAll` | `RefreshStart`, `CacheLoaded`, then the scan; `AfterScan` is what follows it |
| `scanWalletOutputs` | `TipRead` (takes the seed), `ScanReturned` (stores under the wallet active by then), `ScanStored` (shows the balance), or `ScanFails` |
| `_sendTransaction` of the send screen | `SendStart`, the scan, `BalanceRead`, `OutputsRead`, `NodeAccepts` or `SendFails`, `removeSpentOutputs` (`SpentRead`, `SpentDropped`), `SendReturned` with `recordSentTransfer` |
| `lock`, `switchWallet`, `restoreWallet` | `Lock`; `SwitchStart`, `SwitchDone`; `RestoreStart`, `RestoreDone` or `RestoreFails` |
| leaving the send or restore screen | `LeaveScreen` |

`_state` is read when a segment runs, as in the code: `active` in the key of a
storage request, `seed` where a `!` would throw. Storage serves requests in the
order issued, so a write takes effect in the segment that asks for it. `here`
is `mounted` of the screen that made the call; a screen offers a call once at a
time, but a new screen may begin while a call of an older one is in flight. An
output is a model value; a transfer is known by the output it spends. The chain
only adds and spends outputs, in blocks (`Receive`, `Spend`), and its mempool
forgets (`Evict`); reorganisations are `ChainScan`'s.

The user may lock, switch, restore and unlock under any calls in flight, and
refresh or send while a call is about to change the wallet; `overlaps` counts
how often that happened, up to `MaxOverlaps`, and `later` the refreshes and
sends begun afterwards, up to `MaxLater`. A call begun before goes on, with what
it has read, in whatever state it then finds. `overtaken` remembers of every
call what it awaited, and the wallet it was given or took the seed of, when the
active wallet changed under it: it is in these terms that the properties say
when data of two wallets can be mixed.

* `wallet_session` (two calls, two wallets of which one or both are stored at
  first, two outputs of one wallet, one overlap, one later call):
  `CachesStayOwn`, `KeysOfActiveWallet` and `OwnTransfers` for this user,
  `HistoryGrows` for one who has waited so far. One switch under a call in each
  of its awaits is what these are about: an unlock that ends after the active
  wallet changed sets the other's keys, and a call that outlives `lock` shows
  and records what it has. Lock alone mixes nothing. That such a call shows the
  locked wallet's own balance again is what the code does, so no property says a
  locked session shows nothing, although `lib/l10n/app_en.arb` 94 calls lock
  "Clear session and require password". Two calls are what a home screen and the
  screen above it can have in flight; a third would be a call of a screen
  already left. Two outputs of one wallet let a second transfer overwrite a
  first, and the other wallet shows what gets to the wrong place. (With an
  output for each wallet, two later calls, or two overlaps and no later call,
  up to sixteen million states, the same properties hold; the theorems hold for
  all.)
* `wallet_session_switch` shows what the documentation says and the code does
  not keep, see below.

Every call may fail at every await that can throw, so no run of this module
states liveness: nothing in the code retries.

### TransactionBuilder, RingVre, ChainIdentity

| Code | Actions |
|---|---|
| checks of the request, `select_inputs`, recipient (357-400) | `Begin` |
| `RpcClient::connect` with its own identity check | `Connect` |
| `verified_chain_info`, class of the recipient, activation height | `ReadInfo` |
| `get_output_info` and the comparison | `VerifyOutputs` |
| one attempt of `fetch_decoys`, ring check and audit | `FetchDecoys` |
| change, outputs, fee | `Build` |
| any RPC error | `RpcFails` |
| the node's chain, at any moment | `Extend`, `Replace` |

The node answers from its chain, with whatever identity it likes.
`get_random_outputs` may return any set of its outputs below the total the
wallet read, so `FetchDecoys` ranges over all of them; `Selections` are the
sets that the shuffled walk over them may end with. Values are bounded by `MAX`
in place of `u64::MAX`. The transaction is what it spends and creates;
signatures and range proofs are taken as correct. `RingVre` holds the rules as
functions without state.

`transaction_builder`: a devnet just above its activation height, a mainnet, a
testnet below it, and a node with the name of one network and the magic of
another; caches with equal values, one replaced output, and more value than
`MAX`; amounts and fees on both sides of zero, of the balance and of `MAX`;
ring sizes below, at and above two; two attempts in place of sixteen, so that a
retry succeeds and the last one fails; two moves of the chain, before and after
any call. The outputs of the devnet allow rings that meet each rule and rings
that miss each one. `SelectionIsExact`, `ValueConserved`, `InputsOnChain`,
`OneNetwork`, `RingsKeepRules`, `RulesAreFeasible`.

### RpcClient, AgentService

`RpcClient` is one TCP stream: `Send` writes a request under the next id,
`ReadPart` is a read that does not complete the frame (`reads` is how many are
left; a frame of more than `MaxFrame` is too large), `Take` takes the frame for
the answer, `Dropped` is the end of the client at an error. `NodeAnswers` is
the node's, with an answer of any kind; `NodeSwapped` ends the node and puts
another, perhaps of another chain, behind the address.

| Code | Action of `AgentService` |
|---|---|
| `Agent::open`, `parse_args` and what they refuse | `Opens`, in `Init` |
| method, route, presence of a token | `Receive` |
| `request.body.collect()` | `ReadBody` |
| mutex, token, `decode`, `check_version`, handlers that refuse on their own | `Lock` |
| `connect` and `verify`; `get_chain_status`; the two calls of `transaction_status` | `Connects`, `Calls`, `Reads`, `Takes` with `After` |
| an error of connect, write, read, or a timeout | `Fails` |
| `write_json` | `Responds` |

`health` and `status` are complete; a `submit` begins its conversation where
that of `status` begins, since what it does before is `PayoutAgent`'s. Of all
answers those of the three getters used here are told apart. `agent_service`:
two threads (one waits for the mutex of the other), a request for each check
that can fail and one where two checks compete, frames of one read, of two, and
too large; one replacement of the node by another of the same or of another
chain. Fairness: `WF` of `ReadBody`, `Responds` and of the handler (threads
run, and each read has a deadline of its own, so a handler can always go on, be
it by failing), `SF` of `Lock` (the mutex does not pass over a waiting thread
for ever: the standard library's mutex does not promise this, the operating
system's scheduling provides it). Nothing is assumed of the node or of the
peers. `EveryRequestAnswered` therefore says that what bounds the handlers,
timeouts and the one attempt per call, is enough.

### WalletKeys, Wots, WalletVault

Hashes, key derivation, ciphers and curve operations are free constructors: a
value is the record of what it was computed from, so two are equal exactly if
all that entered is. This is perfect cryptography; what remains to be checked
is what enters. The salt stands for salt and nonce.

| Code | Actions of `WalletVault` |
|---|---|
| `createWallet`, `restoreWallet` | `StartCreate`, `StartRestore`, then `ReadList`, `WriteList`, `WriteActive` of `_persistNewWallet`, `Reload`, `Publish`, and `Restored` or `Discard` after the rewards |
| `_generateMnemonic` of the create screen: lock, `deleteWallet` | `Discard`, `Shows` |
| `deleteWalletById` | `DeleteWalletById`, `NextActive`, `Deleted`, or `StaysActive` |
| `renameWallet`, `switchWallet`, `switchNetwork` | `StartRename`, `Renamed`; `StartSwitch`, `Switched`; `StartNetwork`, `NetworkStored`, `NetworkDerived` |
| `unlock` up to the refresh, `lock` | `StartUnlock`, `Unlocked`; `Lock` |
| `signMessage` and its screen | `Sign`, `Close` |
| process stop and `init`, a changed envelope | `Crash`, `Damage` |

An id is the time a wallet is made at; `NewIds` are those times, and the clock
moves on between two wallets (`IdAssumption`; the mutant `SameId` shows what a
clock that stands still does). `Damage` changes an envelope once, while the
application is closed, so what follows starts from what is stored.

`wallet_vault`: one wallet of the legacy format at first; two wallets made, or
one and a change of network; one call that overlaps another; one crash or one
damaged envelope, in any place of it. Users type two passwords, and three
texts: a valid mnemonic, the same with other spaces, and one with a wrong
checksum. A create and a restore are two makings, so the temporary wallet meets
one of the user; two overlapping calls are enough for a lost update.
(With two makings and a change of network, 4.7 million states, the same
properties hold.) The hashes signed have twenty digits, so that the checksum
reaches the digit of its bit 8; some agree in the checksum, and of those that
dominate another digit by digit one has the same last checksum digit and one a
smaller. `SignatureBinds` speaks of the signature as made and of one with its
chain values carried on to the digits of another hash, which is what the
checksum is for.
`EnvelopeKeepsMnemonic` and `SignatureBinds` hold whatever overlaps;
`UnlockReopens`, `ListIsTheUsers` and `RestartShowsTheSame` are stated for a user
who waits for each call (`overlaps = 0`), which the code does not enforce: see
below.

## Proofs

Every invariant and every action property of a passing run is a theorem of the
specification, and so are the two refinements. A theorem holds for every value
of the constants that meets the module's `ASSUME`s, and for any number of
workers, calls, wallets, outputs, blocks and mishaps. The assumptions say that
sentinel values stand beside the sets they are sentinels for, that bounds are
natural numbers, and what the constants' values are made of; those that say
more are given below with the reason. Each proof module begins with the
inductive invariant; its parts are lemmas with one case per action.

### PayoutStoreProofs

| Theorem | Property |
|---|---|
| `StoreInvariant`, `StoreTypeCorrect` | `StoreInv`, `TypeOK` |
| `CopySurvives` | `SurvivingCopy` |
| `PrimaryIsCurrent` | `ReadablePrimaryIsCurrent` |
| `FallbackIsOneSaveBack` | `FallbackKeepsPriorSave` |
| `FilesImplementLedger` | `StoreImplementsLedger` |

`StoreInv` adds to the types which files exist at each operation of a save
(`SavingInv`: `.next` is complete from the first rename on; after it there is no
primary), that only damage leaves an unreadable file (`ReadableInv`), where the
acknowledged records are that no process went without (`CopyInv`: in memory, in
a readable primary, with no primary in the backup), that the others are in
primary or backup until erased (`OldInv`), and that the backup behind a primary
has what was acknowledged before the last save (`PriorInv`). A step of the files before the first damage is
then a step of `PayoutLedger` or a stutter, operation by operation: only
`RenameNext` is `SaveOk`, only `RenameToBak` is `Vacate`.

### PayoutAgentProofs

| Theorem | Property |
|---|---|
| `TypeCorrect` | `TypeOK` and `HandlerInv` |
| `InductiveInvariant` | `AgentInv` |
| `OneTransaction` | `OneTransactionPerIntent` |
| `AnswersAreStable` | `AnswersAgree` |
| `BroadcastIsSaved` | `BroadcastOnlySaved` |
| `InputsStayDisjoint` | `DisjointInputs` |
| `AgentRefinesLedger` | `AgentUsesLedger` |

That two broadcasts of one intent agree is not inductive: the reason lies in
the ledger. `AgentInv`, which `payout_agent` also checks, adds

1. `HandlerInv`: only the holder of the mutex is inside the handler, and the
   record of its intent is absent until `Build` and present afterwards. Types
   and this part are proved together, because the type of a signed transaction
   needs the record to be there.
2. `LedgerInv`: the durable ledger is the saved one or empty, and the running
   agent's records are the durable ledger whenever no save runs or has failed.
3. `KnowledgeInv`: whatever was broadcast or answered is recorded, in memory
   while the process runs and in the saved ledger otherwise. `OneTransaction`,
   `AnswersAreStable` and `BroadcastIsSaved` follow in a few steps.
4. `SelectionInv`: what `ensure_no_unconfirmed_intent` has checked is on the
   chain, what the scan then reports is disjoint from every record.
   `InputsStayDisjoint` follows.

`MishapsGrow` and `ChainGrows` carry the conditions `Undisturbed` and `FullView`
backwards over a step. `AgentRefinesLedger` and `FilesImplementLedger` meet in
`PayoutLedger`: the agent inserts only while no save runs and for intents
without a record, and the files provide the saves it relies on.

### ChainScanProofs

| Theorem | Property |
|---|---|
| `ScanInvariant`, `ScanTypeCorrect` | `ScanInv`, `TypeOK` |
| `IndicesSurviveReorgs` | `IndexedBelowFork` |
| `ScanIsExact` | `ExactForBlocksRead` |
| `ScanNumbersUpwards` | `Numbered`: no two outputs found share a global index |

`IndexedBelowFork` speaks of the lowest fork so far; the next reorganisation
may reach lower. `ScanInv` therefore says of *every* height up to the ones read
and kept that what was collected below it is what the chain holds there. Its
third part, `ValidChain` (an output is created once, and spent after it was
created), is what lets a scan from `start_height` ignore the key images below.
`Numbered` needs no condition on the chain: indices only grow, whatever blocks
they count. It is what `TransactionBuilder` assumes of a cache.

### TransactionBuilderProofs

| Theorem | Property |
|---|---|
| `BuilderInvariant`, `BuilderTypeCorrect` | `BuilderInv`, `TypeOK` |
| `SelectionExact` | `SelectionIsExact` |
| `TransactionConserves` | `ValueConserved` |
| `InputsAreOnChain` | `InputsOnChain` |
| `NetworkIsOne` | `OneNetwork` |
| `RingsKeepTheRules` | `RingsKeepRules` |
| `RulesCanBeMet` | `RulesAreFeasible` |

Assumed are caches without two outputs of one index (`CacheAssumption`, proved
of a scan) and nodes without outputs at or above the number they count
(`NodeAssumption`). Half of the module is about data. `Total` does not depend
on the order of summation and grows with its set. `Ahead` and `Place` give the
position an output has in the order of `select_inputs` (larger first, equal
values as they came), `Ranked` is the inverse of `Place`, and the sum of the
first n is the most that any n outputs amount to; so the first n that pay are
as few as any that do (`SelectionExact`). `RulesFeasible` bounds the adapted
ring parameters by what the chain offers. `BuilderInv` then says call by call
what is known: the inputs are those `select_inputs` takes, the chain info is a
verified node's, of the recipient's network, and heights and counts have only
grown since; the inputs were compared; the rings drawn so far keep the rules as
that info gives them.

### AgentServiceProofs

| Theorem | Property |
|---|---|
| `ServiceInvariant`, `ServiceTypeCorrect` | `ServiceInv`, `TypeOK` |
| `NoAnswerIsConfused` | `AnswersMatch` |
| `ReportsPinnedChainOnly` | `LearnedFromPinned` |
| `OnlyProperRequestsServed` | `VerdictIsTheAgents` |

The client never compares the id of an answer with that of its request. That
answers match nevertheless rests on `StreamInv`: requests and frames under way
are one at most, it belongs to the present call and comes from the present
node, and an error drops the stream with all it holds. `ConversationInv` ties
the next id to the point the handler has reached, `MutexInv` makes the handler
the only one, and `HeardInv` says that whatever was heard after the identity
check was heard from verified nodes.

### WalletSessionProofs

| Theorem | Property | For |
|---|---|---|
| `SessionTypeCorrect` | `TypeOK` | any user |
| `OwnInvariant` | `OwnInv` | any user |
| `CachesAreOwn` | `CachesStayOwn` | any user |
| `KeysAreActive` | `KeysOfActiveWallet` | any user |
| `TransfersAreOwn` | `OwnTransfers` | any user |
| `PatientInvariant` | `PatientInv` | while `overlaps = 0` |
| `PatientSelectsOwned` | `SelectsOwnedOutputs` | while `overlaps = 0` |
| `PatientHistory` | `HistoryGrows` | while `overlaps = 0` |

Nothing is assumed of the user. `OwnInv` says of every call in flight whose data
it holds at each await (`Carries`): the wallet's whose seed it took or that is
active, unless it, or a call it read after, was overtaken in one of the awaits
named. `wallet_session_switch` shows `SelectsOwnedOutputs` to fail as soon as a
scan is overtaken. `PatientInv` is the stronger fact while the user has waited:
a call that changes the wallet is alone (`Undisturbed`), and what every other
call holds is the active wallet's (`Holds`). `HistoryGrows` needs
`HistoryInMemory`: `recordSentTransfer` writes the whole history from memory, so
memory has to hold all of it, unless an unlock is about to load it.

### WalletVaultProofs

| Theorem | Property | For |
|---|---|---|
| `VaultInvariant`, `VaultTypeCorrect` | `VaultInv`, `TypeOK` | any user |
| `EnvelopesKeep` | `EnvelopeKeepsMnemonic` | any user |
| `SyncInvariant` | `SyncInv` | a user who waits |
| `ListStaysTheUsers` | `ListIsTheUsers` | a user who waits |
| `RestartsShowTheSame` | `RestartShowsTheSame` | a user who waits |
| `KeysInvariant` | `KeysInv` | a user who waits |
| `UnlockingReopens` | `UnlockReopens` | a user who waits |
| `SignaturesBind` | `SignatureBinds` | any user |

`EnvelopeKeepsMnemonic` is about the stored list, but any call in flight may
write its own old copy of the list back. `CopiesInv` hence says of *every* copy
(stored, shown by the service, held by a call) that it has only ids that were
issued, each once, each with the envelope made for it. `DamageBreaks` shows that
no changed envelope opens, in either format, by cases of what was changed.
For a user who waits, `overlaps = 0`, the properties have that condition
themselves, so nothing is assumed. `Sync` says by the position of the one call
in flight what of list, active id and network is stored already and what is
shown already (`Between`); crashes at any position leave what `init` then loads.
`Keys` says that the seed is made of the active wallet's mnemonic and password
and the address of the seed. `SignaturesBind` holds for any set of hashes of at
most 64 digits (`HashAssumption`; the code's have 64). `ChecksumBounds` bounds
the checksum by induction, `AppendedDigits` computes the three digits it leaves,
0, 0 and the checksum from bit 8 up, and `WotsOnChains` says what `verify` asks
of values anywhere on the chains.

### What the proofs rest on, and what stays with TLC

Induction over data is possible in the form of `SetInduction`, where what is to
be shown of every number is given as the set of those it holds of; with it the
community modules' folds (`FoldFunction`, `FoldLeft`, `MapThenSumSet`), which
unfold to recursive functions on sets, are reasoned about. No module with a
theorem reaches a `RECURSIVE` operator.

`EveryPayoutConfirms` and `EveryRequestAnswered` are liveness under fairness,
which is out of the prover's reach, as is `ENABLED`: they are only
model-checked. The four properties that the runs `payout_agent_gap`,
`payout_agent_unsaved`, `chain_scan_short` and `wallet_session_switch` show to
be violated are what the documentation says; there is nothing to prove.

## What the checks found

* A stop between the two renames of `persist_state` loses the whole ledger on
  restart, and a retry then signs a second transaction for an intent that was
  already paid (`payout_agent_gap`). `.bak` and `.next` both hold the records at
  that moment; `load_state_with_backup` does not look.
* A failed save leaves its record in memory; the retry broadcasts it unsaved
  (`payout_agent_unsaved`).
* `scan_wallet_outputs` returns a partial result as complete on an RPC error
  (`chain_scan_short`). The agent may then build a payout on outputs a confirmed
  payout has spent, which is why `DisjointInputs` has the condition `FullView`.
  The node refuses it, but the record stays, and every later intent is refused
  as "not confirmed".
* `scanWalletOutputs` takes the seed before a walk over the whole chain and the
  wallet's id after it. A switch meanwhile (the unlock screen offers it during
  the scan that unlocking starts) stores one wallet's outputs under the other
  (`wallet_session_switch`) until that wallet is scanned again.
* A scan that ends after `lock` shows the wallet's balance in the locked state.
  And of two overlapping scans, a refresh and the send screen's, the one stored
  last may be the one that began first. Both are repaired by the next unlock or
  scan.
* The outputs dropped after a send return with the next scan if the transaction
  is not mined by then, and the balance counts them again.
* `restoreWallet` copies the state of the wallet that is open, whose balance and
  transfers then appear under the new one; the next recorded transfer stores
  them as its history. No text of the repository promises otherwise, so no run
  claims a violation; `OwnTransfers` excepts it (`mixed`).
* Rings: an attempt of `fetch_decoys` that has to fill more bands than it was
  asked for decoys returns more of them, so a ring may be larger than requested
  (ring size two where three bands are required); `RingsKeepRules` says "or
  more" for that reason. `audit_decoy_distribution` cuts the indices at
  multiples of `total / 10`, which gives eleven parts when the total is no
  multiple of ten, and lets half of the decoys, rounded up, share one.
* `AgentService` reads the body before it compares the token (454, 469); the
  comment before (450) says that authorization comes first. What comes first is
  the presence of a token.
* `health` reports the address of account 0 whatever account the payouts spend
  from, and accepts a node of any pinned network; only `build_transaction`
  compares the network, by way of the recipient's address.
* The read timeout is one per read. A node that sends a frame bit by bit holds
  the mutex for many timeouts; the frame limit is what bounds it.
* `validate_mnemonic` splits at any white space, `mnemonic_to_seed` takes the
  text as it is: a mnemonic typed with two spaces is accepted and opens another
  wallet. `UnlockReopens` holds since the text is kept as typed.
* The seed depends on the password as well as on the mnemonic
  (`pqTransformPassword`): a wallet restored with its mnemonic and another
  password is another wallet, and a new password cannot be chosen.
* The create screen deletes the wallet that is active once its temporary wallet
  has been made. If another wallet became active meanwhile, that one is deleted;
  a stop leaves the temporary wallet in the list. `ListIsTheUsers` needs a user who waits, and no stop, for that
  reason. `renameWallet` and `deleteWalletById` write back the list they have in
  memory, so a wallet stored by an overlapping call is lost.
* After a stop between the two writes of a deletion the stored id names a wallet
  that is not listed. Unlocking then fails until another wallet is chosen.
* `switchNetwork` leaves `rpcEndpoint` alone, which `init` derives from the
  network: after a change the wallet asks the node of the network before, until
  a restart. The identity check of the node refuses the mixture, so scans fail
  rather than lie; `OneNetwork` is what the builder contributes.
* Of the checksum of a message hash, `msg_base_w` keeps the bits from bit 8 up,
  and two of the three digits are always zero. `SignatureBinds` states what this
  leaves to the one-time half alone; the signature as a whole is bound to its
  message by both halves.

## Not modelled, and the plan

Rewards polling (`_refreshMinedRewards`, two HTTP services whose answers are
displayed and read by nothing else), endpoints, biometrics and appearance
settings: a stored value each, with nothing to relate it to. Of biometric
unlocking the model has the essential part, `unlock` with a password that may be
another wallet's. Generated glue (`frb_generated.rs`), `lib.rs`, presentation,
localisation and platform code have no logic of the wallet. Cryptography below
the free constructors (bytes, curves, encodings) is the unit tests' subject.
The sums `scan_wallet_outputs` reports are over what `ChainScan` finds.

What is left to prove:

1. The single actions the two liveness properties rest on: that a handler which
   has begun can always go on or fail, stated without `ENABLED` as what guards
   hold where.
2. That the scan the agent relies on is `ChainScan`'s: `Scan` of `PayoutAgent`
   takes the unspent outputs from a chain at rest, `ScanIsExact` gives them for
   blocks that stayed.
