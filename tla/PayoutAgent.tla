---------------------------- MODULE PayoutAgent -----------------------------
(***************************************************************************)
(* The payout agent of payout_agent.rs: workers of the HTTP server that    *)
(* handle submit and status requests of the mining pool under one mutex,   *)
(* the ledger intent -> signed transaction, the node it asks and           *)
(* broadcasts to, and a process that may stop at any moment.               *)
(*                                                                         *)
(* One action is one call that can be interleaved: an RPC to the node, or  *)
(* the save of the ledger (in the three outcomes of PayoutLedger, which    *)
(* PayoutStore implements file operation by file operation).  Health,      *)
(* authentication and malformed requests change no state and are left out. *)
(***************************************************************************)
EXTENDS HyphenNode

CONSTANTS
  Intents,     \* payout intent identifiers
  Payees,      \* payment data: recipient and amount together
  Workers,     \* threads of the HTTP server
  NoRecord, NoRequest, NoWorker,
  Budget       \* bound: how often each kind of mishap happens

(* What can go wrong, counted in "mishaps". *)
Mishap == {"crash",      \* the process stops
           "gapCrash",   \* it stops while no ledger is at the primary path
           "saveFault",  \* persist_state returns an error
           "reorg",      \* a confirmed block leaves the best chain
           "shortScan"}  \* a scan ends early on an RPC error

Records == [payee : Payees, tx : Txs]
Ledgers == [Intents -> Records \cup {NoRecord}]
EmptyLedger == [i \in Intents |-> NoRecord]
Keeps(a, b) == \A i \in Intents : a[i] # NoRecord => b[i] = a[i]

Requests == [kind : {"submit", "status"}, intent : Intents, payee : Payees]

ASSUME AgentAssumption ==
  /\ NoRecord \notin Records
  /\ NoRequest \notin Requests
  /\ NoWorker \notin Workers
  /\ Budget \in [Mishap -> Nat]

VARIABLES
  records,   \* Agent.state.records in memory
  durable,   \* the ledger a restart would load
  saved,     \* the ledger of the last save that completed
  up,        \* whether the process runs
  holder,    \* the worker that holds the agent's mutex
  pc,        \* per worker: the call to come
  req,       \* per worker: the request it serves
  todo,      \* per worker: intents ensure_no_unconfirmed_intent has to check
  view,      \* per worker: outputs its scan reported as unspent
  refused,   \* per worker: the node answered accepted = false
  lastId,    \* identity of the transaction signed last
  sent,      \* history: transactions handed to the node, with their intent
  answered,  \* history: successful answers to submit requests
  mishaps    \* history: how often each kind happened

ledgerVars == <<records, durable, saved>>
workVars == <<pc, req, todo, view, refused>>
historyVars == <<sent, answered, mishaps>>
vars == <<chain, pool, records, durable, saved, up, holder, pc, req, todo,
          view, refused, lastId, sent, answered, mishaps>>

(* Where a worker inside the handler is: between two calls. *)
Calls == {"ensure", "build", "persist", "locate", "mempool", "submit",
          "locateAgain", "mempoolAgain"}
(* The calls that go to the node and may fail. *)
RpcCalls == Calls \ {"persist"}

Init ==
  /\ NodeInit
  /\ records = EmptyLedger /\ durable = EmptyLedger /\ saved = EmptyLedger
  /\ up = TRUE
  /\ holder = NoWorker
  /\ pc = [w \in Workers |-> "idle"]
  /\ req = [w \in Workers |-> NoRequest]
  /\ todo = [w \in Workers |-> {}]
  /\ view = [w \in Workers |-> {}]
  /\ refused = [w \in Workers |-> FALSE]
  /\ lastId = 0
  /\ sent = {} /\ answered = {}
  /\ mishaps = [m \in Mishap |-> 0]
-----------------------------------------------------------------------------
(* A mishap of kind m happens, within its budget. *)
Suffer(m) == /\ mishaps[m] < Budget[m]
             /\ mishaps' = [mishaps EXCEPT ![m] = @ + 1]

(* Mutant: no record is ever looked at. *)
NothingRecorded == {}

Recorded == {i \in Intents : records[i] # NoRecord}

(* The transaction the request of worker w is about. *)
TxOf(w) == records[req[w].intent].tx

Goto(w, label) == pc' = [pc EXCEPT ![w] = label]

(* The handler returns: the mutex is released and the locals are dropped. *)
Return(w) ==
  /\ pc' = [pc EXCEPT ![w] = "idle"]
  /\ req' = [req EXCEPT ![w] = NoRequest]
  /\ todo' = [todo EXCEPT ![w] = {}]
  /\ view' = [view EXCEPT ![w] = {}]
  /\ refused' = [refused EXCEPT ![w] = FALSE]
  /\ holder' = NoWorker

(* It returns an error. *)
Refuse(w) == Return(w) /\ UNCHANGED answered

(* Mutant: the answer carries no hash. *)
AnswerNoHash(w) ==
  /\ Return(w)
  /\ answered' = answered \cup {[intent |-> req[w].intent,
                                 payee |-> req[w].payee, id |-> 0]}

(* It returns Ok with the record's transaction hash (record_response).     *)
Answer(w) ==
  /\ Return(w)
  /\ answered' =
       IF req[w].kind = "submit"
       THEN answered \cup {[intent |-> req[w].intent, payee |-> req[w].payee,
                            id |-> TxOf(w).id]}
       ELSE answered
-----------------------------------------------------------------------------
(* A worker has read a request of the pool and is about to lock. *)
Receive(w, r) ==
  /\ up
  /\ pc[w] = "idle"
  /\ Goto(w, "waiting")
  /\ req' = [req EXCEPT ![w] = r]
  /\ UNCHANGED <<nodeVars, ledgerVars, up, holder, todo, view, refused,
                 lastId, historyVars>>

(* Mutant: no mutex. *)
NoMutex(w) == pc[w] = "waiting"

(* The worker may take the mutex. *)
MayLock(w) == pc[w] = "waiting" /\ holder = NoWorker

(* Mutant: the payment data of a retry is not compared. *)
MatchesAny(rec, r) == TRUE

(* The record is for the payment data of the request. *)
Matches(rec, r) == rec.payee = r.payee

(* The worker locks and its request is refused at once: status of an       *)
(* unknown intent, or an intent bound to other payment data.               *)
EnterRefused(w) ==
  /\ MayLock(w)
  /\ LET rec == records[req[w].intent] IN
       \/ req[w].kind = "status" /\ rec = NoRecord
       \/ req[w].kind = "submit" /\ rec # NoRecord /\ ~Matches(rec, req[w])
  /\ Refuse(w)
  /\ UNCHANGED <<nodeVars, ledgerVars, up, lastId, sent, mishaps>>

(* The worker locks and finds the intent recorded. *)
EnterKnown(w) ==
  /\ MayLock(w)
  /\ LET rec == records[req[w].intent] IN
       /\ rec # NoRecord
       /\ req[w].kind = "submit" => Matches(rec, req[w])
  /\ holder' = w
  /\ Goto(w, "locate")
  /\ UNCHANGED <<nodeVars, ledgerVars, up, req, todo, view, refused,
                 lastId, historyVars>>

(* The worker locks and finds a new intent: every record is to be checked. *)
EnterNew(w) ==
  /\ MayLock(w)
  /\ req[w].kind = "submit" /\ records[req[w].intent] = NoRecord
  /\ holder' = w
  /\ Goto(w, "ensure")
  /\ todo' = [todo EXCEPT ![w] = Recorded]
  /\ UNCHANGED <<nodeVars, ledgerVars, up, req, view, refused,
                 lastId, historyVars>>

(* Mutant: a transaction in the mempool counts as confirmed. *)
KnownToNode(t) == InChain(t) \/ t \in pool

(* TransactionStatus::Confirmed *)
Confirmed(t) == InChain(t)

(* ensure_no_unconfirmed_intent: one transaction_status.  Only Confirmed   *)
(* goes on; the mempool lookup of the others cannot change the refusal.    *)
EnsureConfirmed(w, i) ==
  /\ pc[w] = "ensure" /\ i \in todo[w]
  /\ \/ /\ Confirmed(records[i].tx)
        /\ todo' = [todo EXCEPT ![w] = @ \ {i}]
        /\ UNCHANGED <<pc, req, view, refused, holder, answered>>
     \/ /\ ~Confirmed(records[i].tx)
        /\ Refuse(w)
  /\ UNCHANGED <<nodeVars, ledgerVars, up, lastId, sent, mishaps>>

(* scan_wallet_outputs: the outputs no block up to the tip has spent.  An  *)
(* RPC error while reading block n + 1 ends the scan and it still returns  *)
(* Ok, with what the first n blocks show.                                  *)
Scan(w) ==
  /\ pc[w] = "ensure" /\ todo[w] = {}
  /\ Goto(w, "build")
  /\ \/ /\ view' = [view EXCEPT ![w] = Outputs \ SpentBy(Len(chain))]
        /\ UNCHANGED mishaps
     \/ \E n \in 0..(Len(chain) - 1) :
          /\ Suffer("shortScan")
          /\ view' = [view EXCEPT ![w] = Outputs \ SpentBy(n)]
  /\ UNCHANGED <<nodeVars, ledgerVars, up, holder, req, todo, refused,
                 lastId, sent, answered>>

(* build_transaction, and the record it leaves in memory before the save. *)
Build(w, ins) ==
  /\ pc[w] = "build"
  /\ ins \in InputSets /\ ins \subseteq view[w]
  /\ lastId < MaxTx
  /\ lastId' = lastId + 1
  /\ records' = [records EXCEPT ![req[w].intent] =
                   [payee |-> req[w].payee,
                    tx |-> [id |-> lastId + 1, ins |-> ins]]]
  /\ Goto(w, "persist")
  /\ UNCHANGED <<nodeVars, durable, saved, up, holder, req, todo, view,
                 refused, historyVars>>

(* persist_state between its two renames: no ledger at the primary path. *)
Vacate(w) ==
  /\ pc[w] = "persist"
  /\ durable' = EmptyLedger
  /\ UNCHANGED <<nodeVars, records, saved, up, holder, workVars, lastId,
                 historyVars>>

(* Mutant: the ledger was written as it was before the insertion. *)
SaveEarly(w) ==
  /\ pc[w] = "persist"
  /\ Goto(w, "locate")
  /\ durable' = saved
  /\ UNCHANGED <<nodeVars, records, saved, up, holder, req, todo, view,
                 refused, lastId, historyVars>>

(* persist_state returned Ok. *)
SaveOk(w) ==
  /\ pc[w] = "persist"
  /\ durable' = records /\ saved' = records
  /\ Goto(w, "locate")
  /\ UNCHANGED <<nodeVars, records, up, holder, req, todo, view, refused,
                 lastId, historyVars>>

(* persist_state returned an error; the record stays in memory. *)
SaveFails(w) ==
  /\ pc[w] = "persist"
  /\ durable' \in {saved, EmptyLedger}
  /\ Suffer("saveFault")
  /\ Refuse(w)
  /\ UNCHANGED <<nodeVars, records, saved, up, lastId, sent>>

(* transaction_status, first RPC: is the transaction in a block? *)
Locate(w) ==
  /\ pc[w] \in {"locate", "locateAgain"}
  /\ \/ Confirmed(TxOf(w)) /\ Answer(w)
     \/ /\ ~Confirmed(TxOf(w))
        /\ Goto(w, IF pc[w] = "locate" THEN "mempool" ELSE "mempoolAgain")
        /\ UNCHANGED <<req, todo, view, refused, holder, answered>>
  /\ UNCHANGED <<nodeVars, ledgerVars, up, lastId, sent, mishaps>>

(* Mutant: a transaction handed to the node once counts as waiting there. *)
HandedOver(t) == \E s \in sent : s.id = t.id

(* TransactionStatus::Mempool *)
Waiting(t) == t \in pool

(* transaction_status, second RPC: is it in the mempool?  Unknown sends a  *)
(* submit on to the node, and after a refusal of the node it is an error.  *)
Mempool(w) ==
  /\ pc[w] \in {"mempool", "mempoolAgain"}
  /\ LET known == Waiting(TxOf(w))
         first == pc[w] = "mempool"
     IN  \/ /\ ~known /\ first /\ req[w].kind = "submit"
            /\ Goto(w, "submit")
            /\ UNCHANGED <<req, todo, view, refused, holder, answered>>
         \/ /\ known \/ (first /\ req[w].kind = "status")
                     \/ (~first /\ ~refused[w])
            /\ Answer(w)
         \/ /\ ~known /\ ~first /\ refused[w]
            /\ Refuse(w)
  /\ UNCHANGED <<nodeVars, ledgerVars, up, lastId, sent, mishaps>>

(* submit_built_transaction: the node decides; then the status is asked    *)
(* for again.  A reply that is lost is this step and then RpcFails.        *)
Submit(w) ==
  /\ pc[w] = "submit"
  /\ sent' = sent \cup {[intent |-> req[w].intent, id |-> TxOf(w).id]}
  /\ \/ Admit(TxOf(w)) /\ UNCHANGED refused
     \/ refused' = [refused EXCEPT ![w] = TRUE] /\ UNCHANGED nodeVars
  /\ Goto(w, "locateAgain")
  /\ UNCHANGED <<ledgerVars, up, holder, req, todo, view, lastId, answered,
                 mishaps>>

(* Any RPC may end in an error, which the handler returns to the pool; so  *)
(* does build_transaction when the scan left it nothing to spend.          *)
RpcFails(w) ==
  /\ pc[w] \in RpcCalls
  /\ Refuse(w)
  /\ UNCHANGED <<nodeVars, ledgerVars, up, lastId, sent, mishaps>>
-----------------------------------------------------------------------------
(* The process stops: workers, mutex and memory are gone. *)
Crash ==
  /\ up
  /\ up' = FALSE
  /\ Suffer(IF Keeps(saved, durable) THEN "crash" ELSE "gapCrash")
  /\ records' = EmptyLedger
  /\ holder' = NoWorker
  /\ pc' = [w \in Workers |-> "idle"]
  /\ req' = [w \in Workers |-> NoRequest]
  /\ todo' = [w \in Workers |-> {}]
  /\ view' = [w \in Workers |-> {}]
  /\ refused' = [w \in Workers |-> FALSE]
  /\ UNCHANGED <<nodeVars, durable, saved, lastId, sent, answered>>

(* Agent::open loads the ledger. *)
Restart ==
  /\ ~up
  /\ up' = TRUE
  /\ records' = durable
  /\ UNCHANGED <<nodeVars, durable, saved, holder, workVars, lastId,
                 historyVars>>

NodeStep ==
  /\ \/ /\ \E t \in pool : Mine(t) \/ Evict(t)
        /\ UNCHANGED mishaps
     \/ Reorg /\ Suffer("reorg")
  /\ UNCHANGED <<ledgerVars, up, holder, workVars, lastId, sent, answered>>

Handle(w) ==
  \/ EnterRefused(w) \/ EnterKnown(w) \/ EnterNew(w)
  \/ \E i \in Intents : EnsureConfirmed(w, i)
  \/ Scan(w)
  \/ \E ins \in InputSets : Build(w, ins)
  \/ Vacate(w) \/ SaveOk(w) \/ SaveFails(w)
  \/ Locate(w) \/ Mempool(w) \/ Submit(w)
  \/ RpcFails(w)

Next ==
  \/ \E w \in Workers : Handle(w) \/ \E r \in Requests : Receive(w, r)
  \/ Crash \/ Restart
  \/ NodeStep

Spec == Init /\ [][Next]_vars
-----------------------------------------------------------------------------
(* Every variable holds a value of its type. *)
TypeOK ==
  /\ chain \in Seq(Txs) /\ pool \subseteq Txs
  /\ records \in Ledgers /\ durable \in Ledgers /\ saved \in Ledgers
  /\ up \in BOOLEAN
  /\ holder \in Workers \cup {NoWorker}
  /\ pc \in [Workers -> Calls \cup {"idle", "waiting"}]
  /\ req \in [Workers -> Requests \cup {NoRequest}]
  /\ todo \in [Workers -> SUBSET Intents]
  /\ view \in [Workers -> SUBSET Outputs]
  /\ refused \in [Workers -> BOOLEAN]
  /\ lastId \in 0..MaxTx
  /\ sent \subseteq [intent : Intents, id : 1..MaxTx]
  /\ answered \subseteq [intent : Intents, payee : Payees, id : 1..MaxTx]
  /\ mishaps \in [Mishap -> Nat]

(* A worker is inside the handler only while it holds the mutex and the    *)
(* process runs; the record of its intent is absent until it is built and  *)
(* there, with the payment data asked for, from then on.                   *)
HandlerInv ==
  \A w \in Workers :
    /\ pc[w] # "idle" => up /\ req[w] \in Requests
    /\ pc[w] \in Calls => holder = w
    /\ pc[w] \in {"ensure", "build"} =>
         req[w].kind = "submit" /\ records[req[w].intent] = NoRecord
    /\ pc[w] \in Calls \ {"ensure", "build"} =>
         /\ records[req[w].intent] # NoRecord
         /\ req[w].kind = "submit" =>
              records[req[w].intent].payee = req[w].payee

(* The two ways a running agent comes to lack a record it has used: a stop *)
(* while the primary path is empty, and a stop after a save that failed.   *)
Undisturbed == /\ mishaps["gapCrash"] = 0
               /\ mishaps["saveFault"] = 0 \/ mishaps["crash"] = 0

(* The durable ledger is the saved one or vacated.  The running agent      *)
(* knows exactly the durable ledger whenever no save runs or has failed.   *)
LedgerInv ==
  /\ durable \in {saved, EmptyLedger}
  /\ ~up => /\ records = EmptyLedger
            /\ mishaps["crash"] > 0 \/ mishaps["gapCrash"] > 0
  /\ (~up /\ mishaps["gapCrash"] = 0) => Keeps(saved, durable)
  /\ (up /\ mishaps["saveFault"] = 0 /\ \A w \in Workers : pc[w] # "persist")
       => records = durable

(* A ledger has transaction n for intent i. *)
Has(ledger, i, n) == ledger[i] # NoRecord /\ ledger[i].tx.id = n

(* Intent i is known as transaction n: to the running agent, and, as long  *)
(* as no save failed, to the ledger saved last.                            *)
Known(i, n) == /\ up => Has(records, i, n)
               /\ mishaps["saveFault"] = 0 => Has(saved, i, n)

(* Whatever was broadcast or answered is known. *)
KnowledgeInv ==
  Undisturbed =>
    /\ \A s \in sent : Known(s.intent, s.id)
    /\ \A a \in answered :
         /\ Known(a.intent, a.id)
         /\ up => records[a.intent].payee = a.payee
         /\ mishaps["saveFault"] = 0 => saved[a.intent].payee = a.payee

(* Outside those two, no intent is ever broadcast as two transactions,     *)
(* however requests, retries, crashes, lost replies and reorganisations    *)
(* interleave: two workers never both decide that a payout is unpaid.      *)
OneTransactionPerIntent ==
  Undisturbed => \A s, t \in sent : s.intent = t.intent => s.id = t.id

(* Outside those two, all successful answers for an intent carry the same  *)
(* transaction hash and answer the same payment data.                      *)
AnswersAgree ==
  Undisturbed => \A a, b \in answered :
                   a.intent = b.intent => a.id = b.id /\ a.payee = b.payee

(* No confirmed block was undone and no scan was cut short. *)
FullView == mishaps["reorg"] = 0 /\ mishaps["shortScan"] = 0

Disjoint(ledger) ==
  \A i, j \in Intents :
    (i # j /\ ledger[i] # NoRecord /\ ledger[j] # NoRecord)
      => ledger[i].tx.ins \cap ledger[j].tx.ins = {}

(* Then two recorded payouts never spend the same output: refusing a new   *)
(* intent until every other is confirmed keeps input selections apart.     *)
DisjointInputs == FullView => Disjoint(records)

(* Why: what ensure_no_unconfirmed_intent has checked is on the chain, and *)
(* what the scan then reports as unspent is not spent by a record.         *)
SelectionInv ==
  FullView =>
    /\ Disjoint(records) /\ Disjoint(saved)
    /\ \A w \in Workers :
         /\ pc[w] = "ensure" =>
              \A i \in Recorded \ todo[w] : InChain(records[i].tx)
         /\ pc[w] = "build" =>
              \A i \in Recorded : view[w] \cap records[i].tx.ins = {}

(* The inductive invariant behind all of these. *)
AgentInv == TypeOK /\ HandlerInv /\ LedgerInv /\ KnowledgeInv /\ SelectionInv

Quiet == Undisturbed /\ FullView

(* A transaction is only handed to the node when a restart would know it.  *)
BroadcastOnlySaved ==
  mishaps["saveFault"] = 0 =>
    \A w \in Workers :
      pc[w] = "submit" => Keeps(records, durable)

(* The comment on build_transaction asks for that without a condition. *)
PersistBeforeSubmit ==
  \A w \in Workers :
    pc[w] = "submit" => durable[req[w].intent] = records[req[w].intent]

(* README.md: for a fixed intent, every successful retry returns the same  *)
(* transaction hash.                                                       *)
RetriesReturnSameHash ==
  \A a, b \in answered : a.intent = b.intent => a.id = b.id
-----------------------------------------------------------------------------
(* A worker serves a submit request for intent i. *)
Serves(w, i) == /\ req[w] # NoRequest
                /\ req[w].kind = "submit" /\ req[w].intent = i

(* A thread runs; each kind of call succeeds if it is made often enough    *)
(* (the calls of a retry, which every request of an intent makes, for each *)
(* intent); the node admits what it has no reason to refuse.               *)
WorkerFairness(w) ==
  /\ WF_vars(Handle(w))
  /\ SF_vars(\E j \in Intents : EnsureConfirmed(w, j))
  /\ SF_vars(Scan(w))
  /\ SF_vars(\E ins \in InputSets : Build(w, ins))
  /\ SF_vars(Submit(w) /\ Admit(TxOf(w)))
  /\ \A i \in Intents : /\ SF_vars(Serves(w, i) /\ Locate(w))
                        /\ SF_vars(Serves(w, i) /\ Mempool(w))
                        /\ SF_vars(Serves(w, i) /\ Submit(w))

(* A stopped process is started again; the pool keeps asking for its       *)
(* payouts; the node mines what keeps coming back to its mempool.          *)
Fairness ==
  /\ WF_vars(Restart)
  /\ \A w \in Workers : WorkerFairness(w)
  /\ \A i \in Intents :
       SF_vars(\E w \in Workers, p \in Payees :
                 Receive(w, [kind |-> "submit", intent |-> i, payee |-> p]))
  /\ \A n \in 1..MaxTx :
       SF_vars(NodeStep /\ \E t \in pool : t.id = n /\ Mine(t))

FairSpec == Spec /\ Fairness

Paid(i) == \E k \in DOMAIN chain : [intent |-> i, id |-> chain[k].id] \in sent

(* Every payout the pool keeps asking for is confirmed in the end, unless  *)
(* one of the mishaps happens that can take the agent's records away or    *)
(* give two payouts the same input.                                        *)
EveryPayoutConfirms == \A i \in Intents : <>(Paid(i) \/ ~Quiet)
-----------------------------------------------------------------------------
(* The agent's handling of its records, seen as PayoutLedger. *)
LedgerMode == IF ~up THEN "down"
              ELSE IF \E w \in Workers : pc[w] = "persist" THEN "saving"
              ELSE "ready"
Ledger == INSTANCE PayoutLedger WITH
  memory <- records, mode <- LedgerMode, AtomicReplace <- FALSE

(* The agent uses the ledger as PayoutLedger allows: it inserts only when  *)
(* no save runs and never replaces a record, on any interleaving of its    *)
(* workers.  With StoreImplementsLedger this places PayoutStore under it.  *)
AgentUsesLedger == Ledger!Spec
=============================================================================
