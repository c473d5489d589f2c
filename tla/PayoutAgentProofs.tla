-------------------------- MODULE PayoutAgentProofs -------------------------
(* Theorems about PayoutAgent, for every choice of its constants. *)
EXTENDS PayoutAgent, TLAPS

(* What is proved together: types, and where a handler stands. *)
Typing == TypeOK /\ HandlerInv

(* A worker inside the handler serves a request, and past "build" its      *)
(* intent has a record, whose transaction is well typed.                   *)
LEMMA HandlerFacts ==
  ASSUME Typing, NEW w \in Workers
  PROVE  /\ pc[w] # "idle" => /\ req[w].intent \in Intents
                              /\ req[w].payee \in Payees
                              /\ req[w].kind \in {"submit", "status"}
         /\ pc[w] \in Calls \ {"ensure", "build"} =>
              /\ records[req[w].intent] \in Records
              /\ TxOf(w) \in Txs
              /\ TxOf(w).id \in 1..MaxTx
<1>1. pc[w] # "idle" => req[w] \in Requests
  BY DEF Typing, HandlerInv
<1>2. pc[w] # "idle" => req[w].intent \in Intents
  BY <1>1 DEF Requests
<1>3. ASSUME pc[w] \in Calls \ {"ensure", "build"}
      PROVE  records[req[w].intent] \in Records
  <2>1. pc[w] # "idle"
    BY <1>3 DEF Calls
  <2>2. records[req[w].intent] # NoRecord
    BY <1>3 DEF Typing, HandlerInv
  <2> QED
    BY <1>2, <2>1, <2>2 DEF Typing, TypeOK, Ledgers
<1>4. \A r \in Records : r.tx \in Txs /\ r.tx.id \in 1..MaxTx
  BY DEF Records, Txs
<1> QED
  BY <1>1, <1>2, <1>3, <1>4 DEF Requests, TxOf

(* Recording a signed transaction for an intent gives a ledger again. *)
LEMMA RecordedLedger ==
  ASSUME NEW led \in Ledgers, NEW i \in Intents, NEW p \in Payees,
         NEW n \in 1..MaxTx, NEW ins \in InputSets
  PROVE  LET rec == [payee |-> p, tx |-> [id |-> n, ins |-> ins]]
         IN  /\ rec \in Records
             /\ [led EXCEPT ![i] = rec] \in Ledgers
BY DEF Ledgers, Records, Txs
(* The handler's place, its request and the record it works on agree       *)
(* after every step.                                                       *)
LEMMA HandlerStep == Typing /\ [Next]_vars => HandlerInv'
<1> SUFFICES ASSUME Typing, [Next]_vars
             PROVE  HandlerInv'
  OBVIOUS
<1> USE AgentAssumption DEF Typing, TypeOK, HandlerInv
<1>1. ASSUME NEW w \in Workers, NEW r \in Requests, Receive(w, r)
      PROVE  HandlerInv'
  BY <1>1 DEF Receive, Goto, Calls, ledgerVars
<1>2. ASSUME NEW w \in Workers, EnterRefused(w)
      PROVE  HandlerInv'
  BY <1>2 DEF EnterRefused, Matches, MayLock, Refuse, Return, Calls, ledgerVars
<1>3. ASSUME NEW w \in Workers, EnterKnown(w)
      PROVE  HandlerInv'
  BY <1>3 DEF EnterKnown, Matches, MayLock, Goto, Calls, ledgerVars
<1>4. ASSUME NEW w \in Workers, EnterNew(w)
      PROVE  HandlerInv'
  BY <1>4 DEF EnterNew, MayLock, Goto, Calls, ledgerVars
<1>5. ASSUME NEW w \in Workers, NEW i \in Intents, EnsureConfirmed(w, i)
      PROVE  HandlerInv'
  BY <1>5 DEF EnsureConfirmed, Confirmed, Refuse, Return, Calls, ledgerVars
<1>6. ASSUME NEW w \in Workers, Scan(w)
      PROVE  HandlerInv'
  BY <1>6 DEF Scan, Goto, Calls, ledgerVars
<1>7. ASSUME NEW w \in Workers, NEW ins \in InputSets, Build(w, ins)
      PROVE  HandlerInv'
  <2> DEFINE i == req[w].intent
             rec == [payee |-> req[w].payee,
                     tx |-> [id |-> lastId + 1, ins |-> ins]]
  <2>1. pc[w] = "build" /\ pc[w] \in Calls /\ holder = w
    BY <1>7 DEF Build, Calls
  <2>2. i \in Intents /\ req[w].payee \in Payees
    BY <2>1, HandlerFacts
  <2>3. lastId + 1 \in 1..MaxTx
    BY <1>7, NodeAssumption DEF Build
  <2>4. rec \in Records /\ rec # NoRecord
    BY <2>2, <2>3 DEF Records, Txs
  <2>5. records' = [records EXCEPT ![i] = rec] /\ records'[i] = rec
    BY <1>7, <2>2 DEF Build, Ledgers
  <2>6. pc' = [pc EXCEPT ![w] = "persist"] /\ UNCHANGED <<holder, up, req>>
    BY <1>7 DEF Build, Goto
  <2>7. ASSUME NEW v \in Workers, v # w
        PROVE  pc'[v] = pc[v] /\ pc[v] \notin Calls
    BY <2>1, <2>6, <2>7
  <2>8. pc'[w] = "persist" /\ up' /\ req'[w] \in Requests
    BY <2>1, <2>6
  <2>9. rec.payee = req'[w].payee
    BY <2>6
  <2> QED
    BY <2>1, <2>4, <2>5, <2>6, <2>7, <2>8, <2>9 DEF Calls
<1>8. ASSUME NEW w \in Workers, Vacate(w)
      PROVE  HandlerInv'
  BY <1>8 DEF Vacate, workVars
<1>9. ASSUME NEW w \in Workers, SaveOk(w)
      PROVE  HandlerInv'
  BY <1>9 DEF SaveOk, Goto, Calls
<1>10. ASSUME NEW w \in Workers, SaveFails(w)
      PROVE  HandlerInv'
  BY <1>10 DEF SaveFails, Refuse, Return, Calls
<1>11. ASSUME NEW w \in Workers, Locate(w)
      PROVE  HandlerInv'
  BY <1>11 DEF Locate, Goto, Answer, Return, Calls, ledgerVars
<1>12. ASSUME NEW w \in Workers, Mempool(w)
      PROVE  HandlerInv'
  BY <1>12 DEF Mempool, Goto, Answer, Refuse, Return, Calls, ledgerVars
<1>13. ASSUME NEW w \in Workers, Submit(w)
      PROVE  HandlerInv'
  BY <1>13 DEF Submit, Goto, Calls, ledgerVars
<1>14. ASSUME NEW w \in Workers, RpcFails(w)
      PROVE  HandlerInv'
  BY <1>14 DEF RpcFails, Refuse, Return, RpcCalls, Calls, ledgerVars
<1>15. ASSUME Crash
      PROVE  HandlerInv'
  BY <1>15 DEF Crash, Calls
<1>16. ASSUME Restart
      PROVE  HandlerInv'
  BY <1>16 DEF Restart, workVars, Calls
<1>17. ASSUME NodeStep
      PROVE  HandlerInv'
  BY <1>17 DEF NodeStep, ledgerVars, workVars
<1>18. ASSUME UNCHANGED vars
      PROVE  HandlerInv'
  BY <1>18 DEF vars
<1> QED
  BY <1>1, <1>2, <1>3, <1>4, <1>5, <1>6, <1>7, <1>8, <1>9, <1>10, <1>11, <1>12,
     <1>13, <1>14, <1>15, <1>16, <1>17, <1>18
  DEF Next, Handle

(* So do the types of all variables. *)
LEMMA TypeStep == Typing /\ [Next]_vars => TypeOK'
<1> SUFFICES ASSUME Typing, [Next]_vars
             PROVE  TypeOK'
  OBVIOUS
<1> USE AgentAssumption, NodeAssumption DEF Typing, TypeOK
<1>1. ASSUME NEW w \in Workers, NEW r \in Requests, Receive(w, r)
      PROVE  TypeOK'
  BY <1>1 DEF Receive, Goto, nodeVars, ledgerVars, historyVars
<1>2. ASSUME NEW w \in Workers, EnterRefused(w)
      PROVE  TypeOK'
  BY <1>2 DEF EnterRefused, Matches, Refuse, Return, nodeVars, ledgerVars
<1>3. ASSUME NEW w \in Workers, EnterKnown(w)
      PROVE  TypeOK'
  BY <1>3 DEF EnterKnown, Matches, Goto, Calls, nodeVars, ledgerVars, historyVars
<1>4. ASSUME NEW w \in Workers, EnterNew(w)
      PROVE  TypeOK'
  BY <1>4
  DEF EnterNew, Goto, Calls, Recorded, nodeVars, ledgerVars, historyVars
<1>5. ASSUME NEW w \in Workers, NEW i \in Intents, EnsureConfirmed(w, i)
      PROVE  TypeOK'
  BY <1>5, ZenonT(30) DEF EnsureConfirmed, Confirmed, Refuse, Return, nodeVars, ledgerVars
<1>6. ASSUME NEW w \in Workers, Scan(w)
      PROVE  TypeOK'
  <2>1. \A n \in Nat : Outputs \ SpentBy(n) \in SUBSET Outputs
    OBVIOUS
  <2>2. view' \in [Workers -> SUBSET Outputs]
    BY <1>6 DEF Scan
  <2>3. mishaps' \in [Mishap -> Nat]
    BY <1>6, SMTT(30) DEF Scan, Suffer, Mishap
  <2>4. pc' \in [Workers -> Calls \cup {"idle", "waiting"}]
    BY <1>6 DEF Scan, Goto, Calls
  <2> QED
    BY <1>6, <2>2, <2>3, <2>4 DEF Scan, nodeVars, ledgerVars
<1>7. ASSUME NEW w \in Workers, NEW ins \in InputSets, Build(w, ins)
      PROVE  TypeOK'
  <2>1. req[w].intent \in Intents /\ req[w].payee \in Payees
    BY <1>7, HandlerFacts DEF Build
  <2>2. lastId' = lastId + 1 /\ lastId + 1 \in 1..MaxTx
    BY <1>7 DEF Build
  <2>3. records' \in Ledgers
    BY <1>7, <2>1, <2>2, RecordedLedger DEF Build
  <2>4. pc' \in [Workers -> Calls \cup {"idle", "waiting"}]
    BY <1>7 DEF Build, Goto, Calls
  <2> QED
    BY <1>7, <2>2, <2>3, <2>4 DEF Build, nodeVars, historyVars
<1>8. ASSUME NEW w \in Workers, Vacate(w)
      PROVE  TypeOK'
  BY <1>8 DEF Vacate, Ledgers, EmptyLedger, nodeVars, workVars, historyVars
<1>9. ASSUME NEW w \in Workers, SaveOk(w)
      PROVE  TypeOK'
  BY <1>9 DEF SaveOk, Goto, Calls, nodeVars, historyVars
<1>10. ASSUME NEW w \in Workers, SaveFails(w)
      PROVE  TypeOK'
  <2>1. durable' \in Ledgers
    BY <1>10 DEF SaveFails, Ledgers, EmptyLedger
  <2>2. mishaps' \in [Mishap -> Nat]
    BY <1>10 DEF SaveFails, Suffer, Mishap
  <2>3. pc' \in [Workers -> Calls \cup {"idle", "waiting"}]
    BY <1>10 DEF SaveFails, Refuse, Return
  <2> QED
    BY <1>10, <2>1, <2>2, <2>3 DEF SaveFails, Refuse, Return, nodeVars
<1>11. ASSUME NEW w \in Workers, Locate(w)
      PROVE  TypeOK'
  <2>1. /\ req[w].intent \in Intents /\ req[w].payee \in Payees
        /\ TxOf(w).id \in 1..MaxTx
    BY <1>11, HandlerFacts DEF Locate, Calls
  <2>2. answered' \subseteq [intent : Intents, payee : Payees, id : 1..MaxTx]
    BY <1>11, <2>1 DEF Locate, Answer
  <2> QED
    BY <1>11, <2>2
    DEF Locate, Goto, Answer, Return, Calls, nodeVars, ledgerVars
<1>12. ASSUME NEW w \in Workers, Mempool(w)
      PROVE  TypeOK'
  <2>1. /\ req[w].intent \in Intents /\ req[w].payee \in Payees
        /\ TxOf(w).id \in 1..MaxTx
    BY <1>12, HandlerFacts DEF Mempool, Calls
  <2>2. answered' \subseteq [intent : Intents, payee : Payees, id : 1..MaxTx]
    BY <1>12, <2>1 DEF Mempool, Answer, Refuse
  <2>3. /\ pc' \in [Workers -> Calls \cup {"idle", "waiting"}]
        /\ req' \in [Workers -> Requests \cup {NoRequest}]
        /\ todo' \in [Workers -> SUBSET Intents]
        /\ view' \in [Workers -> SUBSET Outputs]
        /\ refused' \in [Workers -> BOOLEAN]
        /\ holder' \in Workers \cup {NoWorker}
    BY <1>12 DEF Mempool, Goto, Answer, Refuse, Return, Calls
  <2> QED
    BY <1>12, <2>2, <2>3 DEF Mempool, nodeVars, ledgerVars
<1>13. ASSUME NEW w \in Workers, Submit(w)
      PROVE  TypeOK'
  <2>1. req[w].intent \in Intents /\ TxOf(w) \in Txs /\ TxOf(w).id \in 1..MaxTx
    BY <1>13, HandlerFacts DEF Submit, Calls
  <2>2. sent' \subseteq [intent : Intents, id : 1..MaxTx]
    BY <1>13, <2>1 DEF Submit
  <2>3. chain' = chain /\ pool' \subseteq Txs
    BY <1>13, <2>1 DEF Submit, Admit, nodeVars
  <2>4. pc' \in [Workers -> Calls \cup {"idle", "waiting"}]
    BY <1>13 DEF Submit, Goto, Calls
  <2>5. refused' \in [Workers -> BOOLEAN]
    BY <1>13 DEF Submit
  <2> QED
    BY <1>13, <2>2, <2>3, <2>4, <2>5 DEF Submit, ledgerVars
<1>14. ASSUME NEW w \in Workers, RpcFails(w)
      PROVE  TypeOK'
  BY <1>14 DEF RpcFails, Refuse, Return, nodeVars, ledgerVars
<1>15. ASSUME Crash
      PROVE  TypeOK'
  <2>1. mishaps' \in [Mishap -> Nat]
    BY <1>15 DEF Crash, Suffer, Mishap
  <2> QED
    BY <1>15, <2>1 DEF Crash, Ledgers, EmptyLedger, nodeVars
<1>16. ASSUME Restart
      PROVE  TypeOK'
  BY <1>16 DEF Restart, nodeVars, workVars, historyVars
<1>17. ASSUME NodeStep
      PROVE  TypeOK'
  <2>1. mishaps' \in [Mishap -> Nat]
    BY <1>17 DEF NodeStep, Suffer, Mishap
  <2>2. CASE \E t \in pool : Mine(t) \/ Evict(t)
    <3>1. PICK t \in pool : Mine(t) \/ Evict(t)
      BY <2>2
    <3>2. t \in Txs /\ pool' \subseteq Txs
      BY <3>1 DEF Mine, Evict
    <3>3. chain \in Seq(Txs) /\ Append(chain, t) \in Seq(Txs)
      BY <3>2
    <3>4. chain' = Append(chain, t) \/ chain' = chain
      BY <3>1 DEF Mine, Evict
    <3> QED
      BY <1>17, <2>1, <3>4, <3>2, <3>3 DEF NodeStep, ledgerVars, workVars
  <2>3. CASE Reorg
    <3>1. chain # <<>> /\ chain[Len(chain)] \in Txs /\ Len(chain) - 1 \in 0..Len(chain)
      BY <2>3 DEF Reorg
    <3>2. chain' \in Seq(Txs)
      BY <2>3, <3>1 DEF Reorg
    <3>3. pool' \subseteq Txs
      BY <2>3, <3>1 DEF Reorg
    <3> QED
      BY <1>17, <2>1, <3>2, <3>3 DEF NodeStep, ledgerVars, workVars
  <2> QED
    BY <1>17, <2>2, <2>3 DEF NodeStep
<1>18. ASSUME UNCHANGED vars
      PROVE  TypeOK'
  BY <1>18 DEF vars
<1> QED
  BY <1>1, <1>2, <1>3, <1>4, <1>5, <1>6, <1>7, <1>8, <1>9, <1>10, <1>11, <1>12,
     <1>13, <1>14, <1>15, <1>16, <1>17, <1>18
  DEF Next, Handle

(* Types and handler positions hold from the start and for ever. *)
LEMMA TypingInvariant == Spec => []Typing
<1>1. Init => Typing
  BY AgentAssumption, NodeAssumption
  DEF Init, NodeInit, Typing, TypeOK, HandlerInv, Ledgers, EmptyLedger,
      Mishap, Calls
<1>2. Typing /\ [Next]_vars => Typing'
  BY HandlerStep, TypeStep DEF Typing
<1>3. QED
  BY <1>1, <1>2, PTL DEF Spec

(* Every reachable state of the agent is well typed, and a worker is       *)
(* inside the handler only with the mutex, on a record that matches its    *)
(* request.                                                                *)
THEOREM TypeCorrect == Spec => [](TypeOK /\ HandlerInv)
BY TypingInvariant DEF Typing
-----------------------------------------------------------------------------
(* The durable ledger and what the agent knows of it. *)
LEMMA LedgerStep == Typing /\ LedgerInv /\ [Next]_vars => LedgerInv'
<1> SUFFICES ASSUME Typing, LedgerInv, [Next]_vars
             PROVE  LedgerInv'
  OBVIOUS
<1>a. mishaps \in [Mishap -> Nat] /\ HandlerInv
  BY DEF Typing, TypeOK
<1>b. pc \in [Workers -> Calls \cup {"idle", "waiting"}]
  BY DEF Typing, TypeOK
<1> USE <1>a, <1>b DEF LedgerInv, HandlerInv, Calls, Keeps, EmptyLedger
<1>1. ASSUME NEW w \in Workers, NEW r \in Requests, Receive(w, r)
      PROVE  LedgerInv'
  BY <1>1 DEF Receive, Goto, nodeVars, ledgerVars, historyVars
<1>2. ASSUME NEW w \in Workers, EnterRefused(w)
      PROVE  LedgerInv'
  BY <1>2 DEF EnterRefused, Matches, Refuse, Return, nodeVars, ledgerVars, MayLock
<1>3. ASSUME NEW w \in Workers, EnterKnown(w)
      PROVE  LedgerInv'
  BY <1>3 DEF EnterKnown, Matches, Goto, nodeVars, ledgerVars, historyVars, MayLock
<1>4. ASSUME NEW w \in Workers, EnterNew(w)
      PROVE  LedgerInv'
  BY <1>4
  DEF EnterNew, Goto, Recorded, nodeVars, ledgerVars, historyVars, MayLock
<1>5. ASSUME NEW w \in Workers, NEW i \in Intents, EnsureConfirmed(w, i)
      PROVE  LedgerInv'
  BY <1>5 DEF EnsureConfirmed, Confirmed, Refuse, Return, nodeVars, ledgerVars
<1>6. ASSUME NEW w \in Workers, Scan(w)
      PROVE  LedgerInv'
  BY <1>6 DEF Scan, Suffer, Goto, Mishap, nodeVars, ledgerVars
<1>7. ASSUME NEW w \in Workers, NEW ins \in InputSets, Build(w, ins)
      PROVE  LedgerInv'
  BY <1>7 DEF Build, Goto, Requests, nodeVars, historyVars
<1>8. ASSUME NEW w \in Workers, Vacate(w)
      PROVE  LedgerInv'
  BY <1>8 DEF Vacate, Ledgers, nodeVars, workVars, historyVars
<1>9. ASSUME NEW w \in Workers, SaveOk(w)
      PROVE  LedgerInv'
  BY <1>9 DEF SaveOk, Goto, nodeVars, historyVars
<1>10. ASSUME NEW w \in Workers, SaveFails(w)
      PROVE  LedgerInv'
  BY <1>10 DEF SaveFails, Suffer, Refuse, Return, Ledgers, Mishap, nodeVars
<1>11. ASSUME NEW w \in Workers, Locate(w)
      PROVE  LedgerInv'
  BY <1>11 DEF Locate, Goto, Answer, Return, TxOf, nodeVars, ledgerVars
<1>12. ASSUME NEW w \in Workers, Mempool(w)
      PROVE  LedgerInv'
  BY <1>12
  DEF Mempool, Goto, Answer, Refuse, Return, TxOf, nodeVars, ledgerVars
<1>13. ASSUME NEW w \in Workers, Submit(w)
      PROVE  LedgerInv'
  BY <1>13 DEF Submit, Goto, Admit, TxOf, nodeVars, ledgerVars
<1>14. ASSUME NEW w \in Workers, RpcFails(w)
      PROVE  LedgerInv'
  BY <1>14 DEF RpcFails, Refuse, Return, RpcCalls, ledgerVars
<1>15. ASSUME Crash
      PROVE  LedgerInv'
  BY <1>15 DEF Crash, Suffer, Ledgers, Mishap, nodeVars
<1>16. ASSUME Restart
      PROVE  LedgerInv'
  BY <1>16 DEF Restart, nodeVars, workVars, historyVars
<1>17. ASSUME NodeStep
      PROVE  LedgerInv'
  BY <1>17
  DEF NodeStep, Mine, Evict, Reorg, Suffer, Mishap, ledgerVars, workVars
<1>18. ASSUME UNCHANGED vars
      PROVE  LedgerInv'
  BY <1>18 DEF vars
<1> QED
  BY <1>1, <1>2, <1>3, <1>4, <1>5, <1>6, <1>7, <1>8, <1>9, <1>10, <1>11, <1>12,
     <1>13, <1>14, <1>15, <1>16, <1>17, <1>18
  DEF Next, Handle

(* Mishaps are only ever counted up, so a step out of trouble is none. *)
LEMMA MishapsGrow ==
  ASSUME TypeOK, [Next]_vars
  PROVE  /\ \A m \in Mishap : mishaps'[m] >= mishaps[m]
         /\ Undisturbed' => Undisturbed
<1>1. mishaps \in [Mishap -> Nat]
  BY DEF TypeOK
<1>2. \A m \in Mishap : Suffer(m) =>
        \A k \in Mishap : mishaps'[k] >= mishaps[k]
  BY <1>1 DEF Suffer
<1>3. mishaps' = mishaps \/ \E m \in Mishap : Suffer(m)
  BY DEF Next, Handle, Receive, EnterRefused, EnterKnown, Matches, EnterNew,
         EnsureConfirmed, Scan, Build, Vacate, SaveOk, SaveFails, Locate,
         Mempool, Submit, RpcFails, Crash, Restart, NodeStep, historyVars,
         vars, Mishap
<1>4. \A m \in Mishap : mishaps'[m] >= mishaps[m]
  BY <1>1, <1>2, <1>3
<1>5. /\ mishaps'["gapCrash"] >= mishaps["gapCrash"]
      /\ mishaps'["crash"] >= mishaps["crash"]
      /\ mishaps'["saveFault"] >= mishaps["saveFault"]
      /\ mishaps["gapCrash"] \in Nat /\ mishaps["crash"] \in Nat
      /\ mishaps["saveFault"] \in Nat
  BY <1>1, <1>4 DEF Mishap
<1>6. ASSUME Undisturbed' PROVE Undisturbed
  <2> DEFINE g == mishaps["gapCrash"]  gg == mishaps'["gapCrash"]
             c == mishaps["crash"]     cc == mishaps'["crash"]
             f == mishaps["saveFault"] ff == mishaps'["saveFault"]
  <2>1. gg = 0 /\ (ff = 0 \/ cc = 0)
    BY <1>6 DEF Undisturbed
  <2>2. g = 0 /\ (f = 0 \/ c = 0)
    BY <1>5, <2>1
  <2> QED
    BY <2>2 DEF Undisturbed
<1> QED
  BY <1>4, <1>6

(* A step that leaves the ledgers and the histories alone loses nothing. *)
LEMMA KnowledgeStable ==
  ASSUME TypeOK, KnowledgeInv, [Next]_vars,
         UNCHANGED <<records, saved, up, sent, answered>>
  PROVE  KnowledgeInv'
<1>1. Undisturbed' => Undisturbed
  BY MishapsGrow
<1>2. mishaps'["saveFault"] = 0 => mishaps["saveFault"] = 0
  <2>1. "saveFault" \in Mishap /\ mishaps \in [Mishap -> Nat]
    BY DEF TypeOK, Mishap
  <2>2. mishaps'["saveFault"] >= mishaps["saveFault"] /\ mishaps["saveFault"] \in Nat
    BY <2>1, MishapsGrow
  <2> QED
    BY <2>2
<1> QED
  BY <1>1, <1>2 DEF KnowledgeInv, Known, Has
(* A worker past the save works on a record which, as long as no save      *)
(* failed, is the one a restart would load and the one saved last.         *)
LEMMA SavedRecord ==
  ASSUME Typing, LedgerInv, NEW w \in Workers,
         pc[w] \in Calls \ {"ensure", "build", "persist"}
  PROVE  /\ up /\ req[w].intent \in Intents
         /\ Has(records, req[w].intent, TxOf(w).id)
         /\ mishaps["saveFault"] = 0 => saved = records /\ durable = records
<1>1. pc[w] # "idle" /\ pc[w] \in Calls \ {"ensure", "build"}
  BY DEF Calls
<1>2. /\ up /\ holder = w
      /\ records[req[w].intent] # NoRecord
  BY <1>1 DEF Typing, HandlerInv
<1>3. req[w].intent \in Intents
  BY <1>1, HandlerFacts
<1>4. \A v \in Workers : pc[v] # "persist"
  BY <1>2 DEF Typing, HandlerInv, Calls
<1>5. ASSUME mishaps["saveFault"] = 0
      PROVE  saved = records /\ durable = records
  <2>1. records = durable
    BY <1>2, <1>4, <1>5 DEF LedgerInv
  <2>2. durable # EmptyLedger
    BY <1>2, <1>3, <2>1 DEF EmptyLedger
  <2> QED
    BY <2>1, <2>2 DEF LedgerInv
<1> QED
  BY <1>2, <1>3, <1>5 DEF Has, TxOf

(* What was broadcast or answered stays known. *)
LEMMA KnowledgeStep ==
  ASSUME Typing, LedgerInv, KnowledgeInv, [Next]_vars
  PROVE  KnowledgeInv'
<1> USE DEF Typing
<1>a. Undisturbed' => Undisturbed
  BY MishapsGrow
<1>b. /\ sent \subseteq [intent : Intents, id : 1..MaxTx]
      /\ answered \subseteq [intent : Intents, payee : Payees, id : 1..MaxTx]
  BY DEF TypeOK
<1>1. ASSUME UNCHANGED <<records, saved, up, sent, answered>>
      PROVE  KnowledgeInv'
  BY <1>1, KnowledgeStable
<1>2. ASSUME NEW w \in Workers, NEW ins \in InputSets, Build(w, ins)
      PROVE  KnowledgeInv'
  <2>1. /\ records[req[w].intent] = NoRecord
        /\ records' = [records EXCEPT ![req[w].intent] =
                        [payee |-> req[w].payee,
                         tx |-> [id |-> lastId + 1, ins |-> ins]]]
        /\ UNCHANGED <<saved, up, sent, answered, mishaps>>
    BY <1>2 DEF Build, HandlerInv, historyVars
  <2>2. up
    BY <1>2 DEF Build, HandlerInv
  <2>3. \A i \in Intents : records[i] # NoRecord => records'[i] = records[i]
    BY <2>1 DEF TypeOK, Ledgers
  <2> QED
    BY <1>b, <2>1, <2>2, <2>3 DEF KnowledgeInv, Known, Has, Undisturbed
<1>3. ASSUME NEW w \in Workers, SaveOk(w)
      PROVE  KnowledgeInv'
  <2>1. up /\ saved' = records /\ UNCHANGED <<records, up, sent, answered, mishaps>>
    BY <1>3 DEF SaveOk, HandlerInv, historyVars
  <2> QED
    BY <2>1 DEF KnowledgeInv, Known, Has, Undisturbed
<1>4. ASSUME NEW w \in Workers, Answer(w), UNCHANGED <<records, saved, up, sent, mishaps>>,
             pc[w] \in Calls \ {"ensure", "build", "persist"}
      PROVE  KnowledgeInv'
  <2>1. CASE req[w].kind = "submit"
    <3> DEFINE a == [intent |-> req[w].intent, payee |-> req[w].payee,
                     id |-> TxOf(w).id]
    <3>1. answered' = answered \cup {a}
      BY <1>4, <2>1 DEF Answer
    <3>2. /\ up /\ Has(records, a.intent, a.id)
          /\ mishaps["saveFault"] = 0 => saved = records
      BY <1>4, SavedRecord
    <3>3. records[a.intent].payee = a.payee
      BY <1>4, <2>1 DEF HandlerInv
    <3> QED
      BY <1>4, <3>1, <3>2, <3>3 DEF KnowledgeInv, Known, Has, Undisturbed
  <2>2. CASE req[w].kind # "submit"
    BY <1>1, <1>4, <2>2 DEF Answer
  <2> QED
    BY <2>1, <2>2
<1>5. ASSUME NEW w \in Workers, Locate(w)
      PROVE  KnowledgeInv'
  <2>1. pc[w] \in Calls \ {"ensure", "build", "persist"}
    BY <1>5 DEF Locate, Calls
  <2> QED
    BY <1>1, <1>4, <1>5, <2>1 DEF Locate, ledgerVars
<1>6. ASSUME NEW w \in Workers, Mempool(w)
      PROVE  KnowledgeInv'
  <2>1. pc[w] \in Calls \ {"ensure", "build", "persist"}
    BY <1>6 DEF Mempool, Calls
  <2> QED
    BY <1>1, <1>4, <1>6, <2>1 DEF Mempool, Refuse, ledgerVars
<1>7. ASSUME NEW w \in Workers, Submit(w)
      PROVE  KnowledgeInv'
  <2>1. /\ sent' = sent \cup {[intent |-> req[w].intent, id |-> TxOf(w).id]}
        /\ UNCHANGED <<records, saved, up, answered, mishaps>>
    BY <1>7 DEF Submit, ledgerVars
  <2>2. pc[w] \in Calls \ {"ensure", "build", "persist"}
    BY <1>7 DEF Submit, Calls
  <2>3. /\ Has(records, req[w].intent, TxOf(w).id)
        /\ mishaps["saveFault"] = 0 => saved = records
    BY <2>2, SavedRecord
  <2> QED
    BY <2>1, <2>3 DEF KnowledgeInv, Known, Has, Undisturbed
<1>8. ASSUME Crash
      PROVE  KnowledgeInv'
  <2>1. ~up' /\ UNCHANGED <<saved, sent, answered>>
    BY <1>8 DEF Crash
  <2>2. mishaps'["saveFault"] = mishaps["saveFault"]
    BY <1>8 DEF Crash, Suffer, TypeOK, Mishap
  <2> QED
    BY <1>a, <2>1, <2>2 DEF KnowledgeInv, Known, Has
<1>9. ASSUME Restart
      PROVE  KnowledgeInv'
  <2>1. /\ ~up /\ up' /\ records' = durable
        /\ UNCHANGED <<saved, sent, answered, mishaps>>
    BY <1>9 DEF Restart, historyVars
  <2>2. ASSUME Undisturbed
        PROVE  mishaps["saveFault"] = 0 /\ Keeps(saved, durable)
    <3>1. mishaps["gapCrash"] = 0 /\ mishaps["gapCrash"] \in Nat /\ mishaps["crash"] \in Nat
      BY <2>2 DEF Undisturbed, TypeOK, Mishap
    <3>2. mishaps["crash"] > 0
      BY <2>1, <3>1 DEF LedgerInv
    <3> QED
      BY <2>1, <2>2, <3>1, <3>2 DEF LedgerInv, Undisturbed
  <2> QED
    BY <1>b, <2>1, <2>2 DEF KnowledgeInv, Known, Has, Keeps, Undisturbed
<1>10. CASE UNCHANGED vars
  BY <1>1, <1>10 DEF vars
<1>11. ASSUME NEW w \in Workers, NEW r \in Requests, Receive(w, r)
       PROVE  KnowledgeInv'
  BY <1>1, <1>11 DEF Receive, ledgerVars, historyVars
<1>12. ASSUME NEW w \in Workers, EnterRefused(w) \/ EnterKnown(w) \/ EnterNew(w)
       PROVE  KnowledgeInv'
  BY <1>1, <1>12
  DEF EnterRefused, EnterKnown, Matches, EnterNew, Refuse, ledgerVars, historyVars
<1>13. ASSUME NEW w \in Workers, NEW i \in Intents, EnsureConfirmed(w, i)
       PROVE  KnowledgeInv'
  BY <1>1, <1>13 DEF EnsureConfirmed, Confirmed, Refuse, ledgerVars
<1>14. ASSUME NEW w \in Workers, Scan(w) \/ Vacate(w)
       PROVE  KnowledgeInv'
  BY <1>1, <1>14 DEF Scan, Vacate, ledgerVars, historyVars
<1>15. ASSUME NEW w \in Workers, SaveFails(w) \/ RpcFails(w)
       PROVE  KnowledgeInv'
  BY <1>1, <1>15 DEF SaveFails, RpcFails, Refuse, ledgerVars
<1>16. ASSUME NodeStep
       PROVE  KnowledgeInv'
  BY <1>1, <1>16 DEF NodeStep, ledgerVars
<1> QED
  BY <1>2, <1>3, <1>5, <1>6, <1>7, <1>8, <1>9, <1>10, <1>11, <1>12, <1>13,
     <1>14, <1>15, <1>16 DEF Next, Handle

(* The part of the inductive invariant that concerns the ledger. *)
SafeInv == Typing /\ LedgerInv /\ KnowledgeInv

(* The parts that concern records and broadcasts, in every reachable       *)
(* state.                                                                  *)
LEMMA SafeInvariant == Spec => []SafeInv
<1>1. Init => LedgerInv /\ KnowledgeInv
  BY DEF Init, LedgerInv, KnowledgeInv, Keeps
<1>2. Typing /\ Typing' /\ LedgerInv /\ KnowledgeInv /\ [Next]_vars
        => LedgerInv' /\ KnowledgeInv'
  BY LedgerStep, KnowledgeStep
<1>3. QED
  BY <1>1, <1>2, TypingInvariant, PTL DEF Spec, SafeInv

(* One broadcast transaction per intent, for any number of intents,        *)
(* workers, crashes, retries and node failures: submit and persist_state   *)
(* under the agent's mutex.                                                *)
THEOREM OneTransaction == Spec => []OneTransactionPerIntent
<1>1. SafeInv => OneTransactionPerIntent
  <2> SUFFICES ASSUME SafeInv, Undisturbed, NEW s \in sent, NEW t \in sent,
                      s.intent = t.intent
               PROVE  s.id = t.id
    BY DEF OneTransactionPerIntent
  <2>1. Known(s.intent, s.id) /\ Known(t.intent, t.id)
    BY DEF SafeInv, KnowledgeInv
  <2>2. up \/ mishaps["saveFault"] = 0
    BY DEF SafeInv, LedgerInv, Undisturbed, Typing, TypeOK, Mishap
  <2> QED
    BY <2>1, <2>2 DEF Known, Has
<1>2. QED
  BY <1>1, SafeInvariant, PTL

(* All successful answers for an intent agree, under the same conditions. *)
THEOREM AnswersAreStable == Spec => []AnswersAgree
<1>1. SafeInv => AnswersAgree
  <2> SUFFICES ASSUME SafeInv, Undisturbed,
                      NEW a \in answered, NEW b \in answered,
                      a.intent = b.intent
               PROVE  a.id = b.id /\ a.payee = b.payee
    BY DEF AnswersAgree
  <2>1. /\ Known(a.intent, a.id) /\ Known(b.intent, b.id)
        /\ up => /\ records[a.intent].payee = a.payee
                 /\ records[b.intent].payee = b.payee
        /\ mishaps["saveFault"] = 0 => /\ saved[a.intent].payee = a.payee
                                       /\ saved[b.intent].payee = b.payee
    BY DEF SafeInv, KnowledgeInv
  <2>2. up \/ mishaps["saveFault"] = 0
    BY DEF SafeInv, LedgerInv, Undisturbed, Typing, TypeOK, Mishap
  <2> QED
    BY <2>1, <2>2 DEF Known, Has
<1>2. QED
  BY <1>1, SafeInvariant, PTL

(* As long as no save failed, the agent hands to the node only what a      *)
(* restart would load.                                                     *)
THEOREM BroadcastIsSaved == Spec => []BroadcastOnlySaved
<1>1. SafeInv => BroadcastOnlySaved
  <2> SUFFICES ASSUME SafeInv, mishaps["saveFault"] = 0,
                      NEW w \in Workers, pc[w] = "submit"
               PROVE  Keeps(records, durable)
    BY DEF BroadcastOnlySaved
  <2>1. durable = records
    BY SavedRecord DEF SafeInv, Calls
  <2> QED
    BY <2>1 DEF Keeps
<1>2. QED
  BY <1>1, SafeInvariant, PTL
-----------------------------------------------------------------------------
(* While no block is undone a confirmed transaction stays confirmed, and its  *)
(* inputs are among the spent ones.                                        *)
LEMMA ConfirmedIsSpent ==
  ASSUME chain \in Seq(Txs), NEW t, InChain(t)
  PROVE  t.ins \subseteq SpentBy(Len(chain))
<1>1. PICK k \in DOMAIN chain : chain[k] = t
  BY DEF InChain
<1>2. k \in 1..Len(chain)
  BY <1>1
<1> QED
  BY <1>1, <1>2 DEF SpentBy

(* While the view is full, what is in the chain stays in it.               *)
LEMMA ChainGrows ==
  ASSUME TypeOK, [Next]_vars, FullView'
  PROVE  /\ FullView
         /\ \A t : InChain(t) => InChain(t)'
<1>1. FullView
  BY MishapsGrow DEF FullView, TypeOK, Mishap
<1>2. chain' = chain \/ \E t \in pool : chain' = Append(chain, t)
  <2>1. ASSUME NodeStep PROVE chain' = chain \/ \E t \in pool : chain' = Append(chain, t)
    <3>1. ~Suffer("reorg")
      BY DEF FullView, Suffer, TypeOK, Mishap
    <3> QED
      BY <2>1, <3>1 DEF NodeStep, Mine, Evict
  <2> QED
    BY <2>1 DEF Next, Handle, Receive, EnterRefused, EnterKnown, Matches, EnterNew,
         EnsureConfirmed, Scan, Build, Vacate, SaveOk, SaveFails, Locate,
         Mempool, Submit, Admit, RpcFails, Crash, Restart, nodeVars, vars
<1>3. ASSUME NEW t, InChain(t)
      PROVE  InChain(t)'
  <2>1. PICK k \in DOMAIN chain : chain[k] = t
    BY <1>3 DEF InChain
  <2>2. chain \in Seq(Txs) /\ pool \subseteq Txs
    BY DEF TypeOK
  <2>3. k \in DOMAIN chain' /\ chain'[k] = t
    BY <1>2, <2>1, <2>2
  <2> QED
    BY <2>3 DEF InChain
<1> QED
  BY <1>1, <1>3

(* Input selections stay apart. *)
LEMMA SelectionStep ==
  ASSUME Typing, LedgerInv, SelectionInv, [Next]_vars
  PROVE  SelectionInv'
<1> SUFFICES ASSUME FullView'
             PROVE  SelectionInv'
  BY DEF SelectionInv
<1> USE DEF Typing
<1>a. FullView /\ \A t : InChain(t) => InChain(t)'
  BY ChainGrows
<1>b. /\ pc \in [Workers -> Calls \cup {"idle", "waiting"}]
      /\ todo \in [Workers -> SUBSET Intents]
      /\ view \in [Workers -> SUBSET Outputs]
  BY DEF TypeOK
<1>c. /\ Disjoint(records) /\ Disjoint(saved)
      /\ \A w \in Workers :
           /\ pc[w] = "ensure" =>
                \A i \in Recorded \ todo[w] : InChain(records[i].tx)
           /\ pc[w] = "build" =>
                \A i \in Recorded : view[w] \cap records[i].tx.ins = {}
  BY <1>a DEF SelectionInv
(* A step that touches no ledger and takes no worker to "ensure" or        *)
(* "build" keeps everything.                                               *)
<1>1. ASSUME UNCHANGED <<records, saved>>,
             \A w \in Workers : pc'[w] \in {"ensure", "build"} =>
               pc'[w] = pc[w] /\ todo'[w] = todo[w] /\ view'[w] = view[w]
      PROVE  SelectionInv'
  BY <1>1, <1>a, <1>c DEF SelectionInv, Disjoint, Recorded
<1>2. ASSUME NEW w \in Workers, EnterNew(w)
      PROVE  SelectionInv'
  BY <1>2, <1>a, <1>b, <1>c
  DEF EnterNew, Goto, SelectionInv, Disjoint, Recorded, ledgerVars
<1>3. ASSUME NEW w \in Workers, NEW i \in Intents, EnsureConfirmed(w, i)
      PROVE  SelectionInv'
  <2>1. CASE InChain(records[i].tx)
    BY <1>3, <2>1, <1>a, <1>b, <1>c
    DEF EnsureConfirmed, Confirmed, SelectionInv, Disjoint, Recorded, ledgerVars
  <2>2. CASE ~InChain(records[i].tx)
    BY <1>3, <2>2, <1>1, <1>b DEF EnsureConfirmed, Confirmed, Refuse, Return, ledgerVars
  <2> QED
    BY <2>1, <2>2
<1>4. ASSUME NEW w \in Workers, Scan(w)
      PROVE  SelectionInv'
  <2>1. ~Suffer("shortScan")
    BY DEF FullView, Suffer, TypeOK, Mishap
  <2>2. /\ pc[w] = "ensure" /\ todo[w] = {}
        /\ pc' = [pc EXCEPT ![w] = "build"]
        /\ view' = [view EXCEPT ![w] = Outputs \ SpentBy(Len(chain))]
        /\ UNCHANGED <<records, saved, todo>>
    BY <1>4, <2>1 DEF Scan, Goto, ledgerVars
  <2>3. \A i \in Recorded : view'[w] \cap records[i].tx.ins = {}
    <3> SUFFICES ASSUME NEW i \in Recorded
                 PROVE  view'[w] \cap records[i].tx.ins = {}
      OBVIOUS
    <3>1. InChain(records[i].tx)
      BY <1>c, <2>2
    <3>2. records[i].tx.ins \subseteq SpentBy(Len(chain))
      BY <3>1, ConfirmedIsSpent DEF TypeOK
    <3> QED
      BY <2>2, <3>2, <1>b
  <2> QED
    BY <2>2, <2>3, <1>a, <1>b, <1>c DEF SelectionInv, Disjoint, Recorded
<1>5. ASSUME NEW w \in Workers, NEW ins \in InputSets, Build(w, ins)
      PROVE  SelectionInv'
  <2> DEFINE i == req[w].intent
             rec == [payee |-> req[w].payee,
                     tx |-> [id |-> lastId + 1, ins |-> ins]]
  <2>1. /\ pc[w] = "build" /\ ins \subseteq view[w]
        /\ records' = [records EXCEPT ![i] = rec]
        /\ pc' = [pc EXCEPT ![w] = "persist"]
        /\ UNCHANGED <<saved, todo, view>>
    BY <1>5 DEF Build, Goto
  <2>2. i \in Intents /\ holder = w
    BY <2>1, HandlerFacts DEF HandlerInv, Calls
  <2>3. \A v \in Workers : pc'[v] \notin {"ensure", "build"}
    BY <2>1, <2>2, <1>b DEF HandlerInv, Calls
  <2>4. \A j \in Recorded : rec.tx.ins \cap records[j].tx.ins = {}
    BY <1>c, <2>1
  <2>5. /\ records'[i] = rec
        /\ \A j \in Intents \ {i} : records'[j] = records[j]
    BY <2>1, <2>2 DEF TypeOK, Ledgers
  <2>6. Disjoint(records)'
    <3> SUFFICES ASSUME NEW j \in Intents, NEW k \in Intents, j # k,
                        records'[j] # NoRecord, records'[k] # NoRecord
                 PROVE  records'[j].tx.ins \cap records'[k].tx.ins = {}
      BY DEF Disjoint
    <3>1. CASE j = i
      BY <3>1, <2>4, <2>5 DEF Recorded
    <3>2. CASE k = i
      BY <3>2, <2>4, <2>5 DEF Recorded
    <3>3. CASE j # i /\ k # i
      BY <3>3, <2>5, <1>c DEF Disjoint
    <3> QED
      BY <3>1, <3>2, <3>3
  <2>7. Disjoint(saved)'
    BY <1>c, <2>1 DEF Disjoint
  <2> QED
    BY <2>3, <2>6, <2>7 DEF SelectionInv
<1>6. ASSUME NEW w \in Workers, SaveOk(w)
      PROVE  SelectionInv'
  BY <1>6, <1>a, <1>b, <1>c
  DEF SaveOk, Goto, SelectionInv, Disjoint, Recorded
<1>7. ASSUME Crash
      PROVE  SelectionInv'
  BY <1>7, <1>c DEF Crash, SelectionInv, Disjoint, EmptyLedger
<1>8. ASSUME Restart
      PROVE  SelectionInv'
  <2>1. /\ records' = durable /\ UNCHANGED <<saved, pc>>
        /\ \A w \in Workers : pc[w] = "idle"
    BY <1>8 DEF Restart, HandlerInv, workVars
  <2>2. Disjoint(durable)
    BY <1>c DEF LedgerInv, Disjoint, EmptyLedger
  <2> QED
    BY <1>c, <2>1, <2>2 DEF SelectionInv, Disjoint
<1>9. ASSUME NEW w \in Workers, NEW r \in Requests, Receive(w, r)
      PROVE  SelectionInv'
  BY <1>1, <1>9, <1>b DEF Receive, Goto, ledgerVars
<1>10. ASSUME NEW w \in Workers,
              EnterRefused(w) \/ SaveFails(w) \/ RpcFails(w)
       PROVE  SelectionInv'
  BY <1>1, <1>10, <1>b
  DEF EnterRefused, Matches, SaveFails, RpcFails, Refuse, Return, ledgerVars
<1>11. ASSUME NEW w \in Workers, EnterKnown(w) \/ Submit(w)
       PROVE  SelectionInv'
  BY <1>1, <1>11, <1>b DEF EnterKnown, Matches, Submit, Goto, ledgerVars
<1>12. ASSUME NEW w \in Workers, Locate(w) \/ Mempool(w)
       PROVE  SelectionInv'
  BY <1>1, <1>12, <1>b
  DEF Locate, Mempool, Goto, Answer, Refuse, Return, ledgerVars
<1>13. ASSUME NEW w \in Workers, Vacate(w)
       PROVE  SelectionInv'
  BY <1>1, <1>13 DEF Vacate, workVars
<1>14. ASSUME NodeStep
       PROVE  SelectionInv'
  BY <1>1, <1>14 DEF NodeStep, workVars, ledgerVars
<1>15. CASE UNCHANGED vars
  BY <1>1, <1>15 DEF vars
<1> QED
  BY <1>2, <1>3, <1>4, <1>5, <1>6, <1>7, <1>8, <1>9, <1>10, <1>11, <1>12,
     <1>13, <1>14, <1>15 DEF Next, Handle

(* The whole inductive invariant: what the runs check as one invariant of  *)
(* a small instance holds of every instance.                               *)
THEOREM InductiveInvariant == Spec => []AgentInv
<1>1. Init => SelectionInv
  BY DEF Init, SelectionInv, Disjoint, EmptyLedger, Recorded
<1>2. SafeInv /\ SelectionInv /\ [Next]_vars => SelectionInv'
  BY SelectionStep DEF SafeInv
<1>3. SafeInv /\ SelectionInv => AgentInv
  BY DEF SafeInv, Typing, AgentInv
<1>4. QED
  BY <1>1, <1>2, <1>3, SafeInvariant, PTL DEF Spec

(* Two recorded payouts never spend the same output, as long as no block   *)
(* is undone and no scan is cut short: ensure_no_unconfirmed_intent before *)
(* the scan is enough, whatever crashes and failed saves come between.     *)
THEOREM InputsStayDisjoint == Spec => []DisjointInputs
<1>1. AgentInv => DisjointInputs
  BY DEF AgentInv, SelectionInv, DisjointInputs
<1>2. QED
  BY <1>1, InductiveInvariant, PTL
-----------------------------------------------------------------------------
(* A call that leaves the ledgers alone and starts and ends no save does   *)
(* nothing the ledger's contract speaks of.                                *)
LEMMA NoLedgerStep ==
  ASSUME UNCHANGED <<records, durable, saved, up>>,
         \A w \in Workers : pc'[w] = "persist" <=> pc[w] = "persist"
  PROVE  UNCHANGED Ledger!vars
BY DEF Ledger!vars, LedgerMode

(* While one worker is inside the handler no other worker saves: the       *)
(* ledger is saving exactly if that worker is.                             *)
LEMMA OneSaver ==
  ASSUME Typing, NEW w \in Workers, pc[w] \in Calls
  PROVE  /\ up
         /\ \A v \in Workers \ {w} : pc[v] # "persist"
         /\ LedgerMode = IF pc[w] = "persist" THEN "saving" ELSE "ready"
<1>1. up /\ holder = w
  BY DEF Typing, HandlerInv, Calls
<1>2. \A v \in Workers \ {w} : pc[v] # "persist"
  BY <1>1 DEF Typing, HandlerInv, Calls
<1> QED
  BY <1>1, <1>2 DEF LedgerMode

(* Every step of the agent is a step of the ledger's contract or leaves    *)
(* the ledger alone.                                                       *)
LEMMA AgentStep ==
  ASSUME Typing, [Next]_vars
  PROVE  Ledger!Next \/ UNCHANGED Ledger!vars
<1>a. pc \in [Workers -> Calls \cup {"idle", "waiting"}]
  BY DEF Typing, TypeOK
<1>1. ASSUME NEW w \in Workers, NEW ins \in InputSets, Build(w, ins)
      PROVE  Ledger!Next
  <2> DEFINE i == req[w].intent
             rec == [payee |-> req[w].payee,
                     tx |-> [id |-> lastId + 1, ins |-> ins]]
  <2>1. /\ pc[w] = "build" /\ pc[w] \in Calls
        /\ records' = [records EXCEPT ![i] = rec]
        /\ pc'[w] = "persist"
        /\ UNCHANGED <<durable, saved, up>>
    BY <1>1, <1>a DEF Build, Goto, Calls
  <2>2. up /\ LedgerMode = "ready" /\ LedgerMode' = "saving"
    BY <2>1, OneSaver DEF LedgerMode
  <2>3. i \in Intents /\ req[w].payee \in Payees /\ records[i] = NoRecord
    BY <2>1, HandlerFacts DEF Typing, HandlerInv
  <2>4. lastId + 1 \in 1..MaxTx
    BY <1>1, NodeAssumption DEF Build, Typing, TypeOK
  <2>5. rec \in Records
    BY <2>3, <2>4 DEF Records, Txs
  <2>6. Ledger!Insert(i, rec)
    BY <2>1, <2>2, <2>3 DEF Ledger!Insert
  <2> QED
    BY <2>3, <2>5, <2>6 DEF Ledger!Next
<1>2. ASSUME NEW w \in Workers, Vacate(w)
      PROVE  Ledger!Next
  <2>1. /\ LedgerMode = "saving"
        /\ durable' = EmptyLedger
        /\ UNCHANGED <<records, saved, up, pc>>
    BY <1>2, OneSaver DEF Vacate, workVars, Calls
  <2>2. LedgerMode' = LedgerMode
    BY <2>1 DEF LedgerMode
  <2> QED
    BY <2>1, <2>2
    DEF Ledger!Next, Ledger!Vacate, Ledger!EmptyLedger, EmptyLedger
<1>3. ASSUME NEW w \in Workers, SaveOk(w)
      PROVE  Ledger!Next
  <2>1. /\ LedgerMode = "saving" /\ up
        /\ pc' = [pc EXCEPT ![w] = "locate"]
        /\ durable' = records /\ saved' = records
        /\ UNCHANGED <<records, up>>
    BY <1>3, OneSaver DEF SaveOk, Goto, Calls
  <2>2. LedgerMode' = "ready"
    BY <1>3, <1>a, <2>1, OneSaver DEF SaveOk, LedgerMode, Calls
  <2> QED
    BY <2>1, <2>2 DEF Ledger!Next, Ledger!SaveOk
<1>4. ASSUME NEW w \in Workers, SaveFails(w)
      PROVE  Ledger!Next
  <2>1. /\ LedgerMode = "saving" /\ up
        /\ pc' = [pc EXCEPT ![w] = "idle"]
        /\ durable' \in {saved, EmptyLedger}
        /\ UNCHANGED <<records, saved, up>>
    BY <1>4, OneSaver DEF SaveFails, Refuse, Return, Calls
  <2>2. LedgerMode' = "ready"
    BY <1>4, <1>a, <2>1, OneSaver DEF SaveFails, LedgerMode, Calls
  <2> QED
    BY <2>1, <2>2
    DEF Ledger!Next, Ledger!SaveFails, Ledger!EmptyLedger, EmptyLedger
<1>5. ASSUME Crash
      PROVE  Ledger!Next
  <2>1. /\ up /\ ~up' /\ records' = EmptyLedger
        /\ UNCHANGED <<durable, saved>>
    BY <1>5 DEF Crash
  <2>2. LedgerMode # "down" /\ LedgerMode' = "down"
    BY <2>1 DEF LedgerMode
  <2> QED
    BY <2>1, <2>2
    DEF Ledger!Next, Ledger!Crash, Ledger!EmptyLedger, EmptyLedger
<1>6. ASSUME Restart
      PROVE  Ledger!Next
  <2>1. /\ ~up /\ up' /\ records' = durable
        /\ UNCHANGED <<durable, saved, pc>>
    BY <1>6 DEF Restart, workVars
  <2>2. \A w \in Workers : pc'[w] # "persist"
    BY <2>1 DEF Typing, HandlerInv
  <2>3. LedgerMode = "down" /\ LedgerMode' = "ready"
    BY <2>1, <2>2 DEF LedgerMode
  <2> QED
    BY <2>1, <2>3 DEF Ledger!Next, Ledger!Recover
<1>7. ASSUME NEW w \in Workers, NEW r \in Requests, Receive(w, r)
      PROVE  UNCHANGED Ledger!vars
  BY <1>7, <1>a, NoLedgerStep DEF Receive, Goto, ledgerVars
<1>8. ASSUME NEW w \in Workers,
             EnterRefused(w) \/ EnterKnown(w) \/ EnterNew(w)
      PROVE  UNCHANGED Ledger!vars
  BY <1>8, <1>a, NoLedgerStep
  DEF EnterRefused, EnterKnown, EnterNew, MayLock, Refuse, Return, Goto,
      ledgerVars
<1>9. ASSUME NEW w \in Workers, NEW i \in Intents, EnsureConfirmed(w, i)
      PROVE  UNCHANGED Ledger!vars
  BY <1>9, <1>a, NoLedgerStep DEF EnsureConfirmed, Refuse, Return, ledgerVars
<1>10. ASSUME NEW w \in Workers, Scan(w)
       PROVE  UNCHANGED Ledger!vars
  BY <1>10, <1>a, NoLedgerStep DEF Scan, Goto, ledgerVars
<1>11. ASSUME NEW w \in Workers, Locate(w) \/ Mempool(w)
       PROVE  UNCHANGED Ledger!vars
  BY <1>11, <1>a, NoLedgerStep
  DEF Locate, Mempool, Goto, Answer, Refuse, Return, ledgerVars
<1>12. ASSUME NEW w \in Workers, Submit(w) \/ RpcFails(w)
       PROVE  UNCHANGED Ledger!vars
  BY <1>12, <1>a, NoLedgerStep
  DEF Submit, RpcFails, RpcCalls, Goto, Refuse, Return, ledgerVars
<1>13. ASSUME NodeStep
       PROVE  UNCHANGED Ledger!vars
  BY <1>13, NoLedgerStep DEF NodeStep, workVars, ledgerVars
<1>14. CASE UNCHANGED vars
  BY <1>14, NoLedgerStep DEF vars
<1> QED
  BY <1>1, <1>2, <1>3, <1>4, <1>5, <1>6, <1>7, <1>8, <1>9, <1>10, <1>11,
     <1>12, <1>13, <1>14 DEF Next, Handle

(* The agent keeps to the ledger's contract: whatever its workers, the     *)
(* node and the failures do, it inserts a record only while no save runs,  *)
(* and only for an intent that has none.                                   *)
THEOREM AgentRefinesLedger == Spec => AgentUsesLedger
<1>1. Init => Ledger!Init
  BY DEF Init, Ledger!Init, Ledger!EmptyLedger, EmptyLedger, LedgerMode
<1>2. Typing /\ [Next]_vars => [Ledger!Next]_(Ledger!vars)
  BY AgentStep
<1>3. QED
  BY <1>1, <1>2, TypingInvariant, PTL DEF Spec, AgentUsesLedger, Ledger!Spec
=============================================================================
