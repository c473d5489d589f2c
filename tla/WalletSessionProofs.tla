------------------------ MODULE WalletSessionProofs -------------------------
(***************************************************************************)
(* Theorems about WalletSession, for any number of calls in flight, any    *)
(* wallets and any outputs.  What a wallet owns is shown for every user,   *)
(* whatever overlaps (OwnInv); that no recorded transfer is lost is shown  *)
(* for one who has waited so far (PatientInv), as a history that is loaded *)
(* late may replace a longer one.                                          *)
(***************************************************************************)
EXTENDS WalletSession, TLAPS

Kinds == {"none", "unlock", "refresh", "send", "switch", "restore"}

(* Which calls await what, and what they then have to hold. *)
Fits(c) ==
  /\ call[c].at = "idle" => call[c].kind = "none" /\ call[c].got = {}
  /\ call[c].at \in {"decrypt", "history"} => call[c].kind = "unlock"
  /\ call[c].at = "cache" => call[c].kind \in {"unlock", "refresh"}
  /\ call[c].at \in {"status", "scan", "store"} =>
       call[c].kind \in {"unlock", "refresh", "send"}
  /\ call[c].at \in {"balance", "outputs", "submit", "accepted", "drop",
                     "dropped"} => call[c].kind = "send"
  /\ call[c].at \in {"submit", "accepted", "drop", "dropped"} =>
       call[c].tx \in Outputs
  /\ call[c].at = "switch" => call[c].kind = "switch" /\ call[c].key \in listed
  /\ call[c].at = "restore" => call[c].kind = "restore" /\ call[c].key \in Wallets

CallsFit == TypeOK /\ \A c \in Calls : Fits(c)

(* What a call in flight holds is the active wallet's, or the call, or one *)
(* it depends on, was overtaken: the awaits that matter for the cache, for *)
(* what is shown, and for the transfers.                                   *)
ToCache == {"decrypt", "scan", "drop"}
ToScreen == {"decrypt", "cache", "scan", "store", "drop", "dropped"}
ToHistory == {"decrypt", "history", "submit", "accepted", "drop", "dropped"}

Carries(c) ==
  /\ call[c].at = "decrypt" =>
       call[c].key = active \/ <<"decrypt", call[c].key>> \in overtaken
  /\ ~Late(ToCache) /\ call[c].at \in {"scan", "drop"} =>
       call[c].got \subseteq Own(active)
  /\ ~Late(ToScreen) /\ call[c].at \in {"cache", "scan", "store", "drop", "dropped"} =>
       call[c].got \subseteq Own(active)
  /\ ~Late(ToHistory) /\ call[c].at = "submit" => call[c].key = active
  /\ ~Late(ToHistory) /\ call[c].at \in {"accepted", "drop", "dropped"} =>
       call[c].tx \in Own(active)
  /\ ~Late(ToHistory) /\ ~mixed /\ call[c].at = "history" =>
       call[c].got \subseteq Own(active)

(* The three properties, and what the calls in flight carry. *)
OwnState == KeysOfActiveWallet /\ CachesStayOwn /\ OwnTransfers

OwnInv == OwnState /\ \A c \in Calls : Carries(c)

(* A call that changes the wallet is the only one in flight. *)
Undisturbed == \A c, d \in InFlight : ChangesWallet(c) => c = d

(* A call in flight runs while the wallet it began with is active, with    *)
(* its keys in memory.                                                     *)
Holds(c) ==
  /\ call[c].at = "decrypt" => call[c].key = active
  /\ call[c].at = "restore" => call[c].key \notin listed
  /\ call[c].at = "switch" => screen = "unlock"
  /\ call[c].at \notin {"idle", "decrypt", "switch", "restore"} => seed = active
  /\ call[c].at = "history" => call[c].got = history[active]

(* The history of the active wallet is in memory, unless an unlock is      *)
(* about to load it; a wallet that is not listed has none.                 *)
Loading(c) == call[c].kind = "unlock" /\ call[c].at \notin {"idle", "decrypt"}

HistoryInMemory ==
  /\ \A w \in Wallets \ listed : history[w] = {}
  /\ \/ seed = NoWallet \/ history[active] \subseteq transfers
     \/ \E c \in Calls : Loading(c)

(* The session of a user who has waited so far. *)
SessionHeld ==
  /\ overtaken = {} /\ HistoryInMemory
  /\ screen = "home" => seed = active

PatientInv == Undisturbed /\ SessionHeld /\ \A c \in Calls : Holds(c)

Waits == overlaps = 0 => PatientInv
-----------------------------------------------------------------------------
(* What a step does to the call that takes it, and to the others: of them  *)
(* at most `here' changes.                                                 *)
Keeps(d) ==
  /\ call'[d].kind = call[d].kind /\ call'[d].at = call[d].at
  /\ call'[d].key = call[d].key /\ call'[d].got = call[d].got
  /\ call'[d].tx = call[d].tx

Others(c) == \A d \in Calls \ {c} : Keeps(d)

(* What the begin of a call does to the calls, and to no other.            *)
LEMMA Begins ==
  ASSUME TypeOK, NEW c \in Calls, NEW k \in Kinds, NEW a \in Points,
         NEW w \in Wallets \cup {NoWallet}, NEW read \in SUBSET Outputs,
         Begin(c, k, a, w, read)
  PROVE  /\ call[c].at = "idle" /\ call' \in [Calls -> CallStates]
         /\ call'[c].kind = k /\ call'[c].at = a /\ call'[c].key = w
         /\ call'[c].got = read
         /\ Others(c)
<1> DEFINE yes == TRUE
           m == [Idle EXCEPT !.kind = k]
           n == [m EXCEPT !.at = a]
           p == [n EXCEPT !.key = w]
           q == [p EXCEPT !.got = read]
           new == [q EXCEPT !.here = yes]
<1>1. /\ call[c].at = "idle" /\ call' = [call EXCEPT ![c] = new]
      /\ yes \in BOOLEAN
  BY DEF Begin
<1> HIDE DEF yes
<1>2. Idle \in CallStates
  BY DEF Idle, CallStates, Points
<1>3. m \in CallStates /\ m.kind = k
  BY <1>2 DEF CallStates, Kinds
<1> HIDE DEF m
<1>4. n \in CallStates /\ n.kind = k /\ n.at = a
  BY <1>3 DEF CallStates
<1> HIDE DEF n
<1>5. p \in CallStates /\ p.kind = k /\ p.at = a /\ p.key = w
  BY <1>4 DEF CallStates
<1> HIDE DEF p
<1>6. /\ q \in CallStates /\ q.kind = k /\ q.at = a /\ q.key = w
      /\ q.got = read
  BY <1>5 DEF CallStates
<1> HIDE DEF q
<1>7. /\ new \in CallStates /\ new.kind = k /\ new.at = a /\ new.key = w
      /\ new.got = read
  BY <1>1, <1>6 DEF CallStates
<1> HIDE DEF new
<1> QED
  BY <1>1, <1>7 DEF TypeOK, Others, Keeps

(* What a call that awaits its next reply does to the calls, and to no     *)
(* other.                                                                  *)
LEMMA Awaits ==
  ASSUME TypeOK, NEW c \in Calls, NEW a \in Points,
         NEW read \in SUBSET Outputs, Await(c, a, read)
  PROVE  /\ call' \in [Calls -> CallStates]
         /\ call'[c].kind = call[c].kind /\ call'[c].at = a
         /\ call'[c].key = call[c].key /\ call'[c].got = read
         /\ call'[c].tx = call[c].tx
         /\ Others(c)
<1> DEFINE f == [call EXCEPT ![c].at = a]
           g == [f EXCEPT ![c].got = read]
<1>1. call' = g
  BY DEF Await
<1>2. /\ f \in [Calls -> CallStates]
      /\ f[c] = [kind |-> call[c].kind, at |-> a, key |-> call[c].key,
                 got |-> call[c].got, tx |-> call[c].tx, here |-> call[c].here]
      /\ \A d \in Calls \ {c} : f[d] = call[d]
  BY DEF TypeOK, CallStates
<1> HIDE DEF f
<1>3. /\ g \in [Calls -> CallStates]
      /\ g[c] = [kind |-> call[c].kind, at |-> a, key |-> call[c].key,
                 got |-> read, tx |-> call[c].tx, here |-> call[c].here]
      /\ \A d \in Calls \ {c} : g[d] = call[d]
  BY <1>2 DEF CallStates
<1> HIDE DEF g
<1> QED
  BY <1>1, <1>3 DEF Others, Keeps

(* What a call that returns does to the calls, and to no other.            *)
LEMMA Returns ==
  ASSUME TypeOK, NEW c \in Calls, Return(c)
  PROVE  /\ call' \in [Calls -> CallStates]
         /\ call'[c].kind = "none" /\ call'[c].at = "idle"
         /\ call'[c].got = {}
         /\ Others(c)
<1>1. /\ Idle \in CallStates /\ Idle.kind = "none" /\ Idle.at = "idle"
      /\ Idle.got = {}
  BY DEF Idle, CallStates, Points
<1> QED
  BY <1>1 DEF Return, TypeOK, Others, Keeps

(* The screens are gone, and then one call is set anew. *)
LEMMA Unmounts ==
  ASSUME TypeOK, NEW c \in Calls, NEW r \in CallStates,
         call' = [Unmounted EXCEPT ![c] = r]
  PROVE  /\ call' \in [Calls -> CallStates]
         /\ call'[c] = r
         /\ Others(c)
<1> DEFINE no == FALSE
<1>1. no \in BOOLEAN /\ Unmounted = [d \in Calls |-> [call[d] EXCEPT !.here = no]]
  BY DEF Unmounted
<1> HIDE DEF no
<1>2. ASSUME NEW d \in Calls
      PROVE  /\ Unmounted[d] \in CallStates
             /\ Unmounted[d].kind = call[d].kind /\ Unmounted[d].at = call[d].at
             /\ Unmounted[d].key = call[d].key /\ Unmounted[d].got = call[d].got
             /\ Unmounted[d].tx = call[d].tx
  BY <1>1 DEF TypeOK, CallStates
<1>3. Unmounted \in [Calls -> CallStates]
  BY <1>1, <1>2
<1> QED
  BY <1>2, <1>3 DEF Others, Keeps

(* What may follow a scan. *)
LEMMA AfterScanCases ==
  ASSUME NEW c, AfterScan(c, TRUE) \/ AfterScan(c, FALSE)
  PROVE  \/ call[c].kind = "unlock" /\ Await(c, "history", history[active])
         \/ /\ call[c].kind = "send" /\ seed # NoWallet
            /\ Await(c, "balance", cached[active])
         \/ call[c].kind # "unlock" /\ Return(c)
BY DEF AfterScan
-----------------------------------------------------------------------------
(* The parts of CallsFit that are not about calls. *)
RestOK ==
  /\ screen \in {"unlock", "home"}
  /\ listed \subseteq Wallets /\ active \in listed
  /\ seed \in Wallets \cup {NoWallet}
  /\ shown \subseteq Outputs /\ transfers \subseteq Outputs
  /\ cached \in [Wallets -> SUBSET Outputs]
  /\ history \in [Wallets -> SUBSET Outputs]
  /\ mined \subseteq Outputs /\ spent \subseteq mined /\ pool \subseteq mined
  /\ overlaps \in 0..MaxOverlaps /\ later \in 0..MaxLater
  /\ overtaken \subseteq Points \X (Wallets \cup {NoWallet})
  /\ mixed \in BOOLEAN

(* The calls stay in their places if the one that took a step does. *)
LEMMA CallsStep ==
  ASSUME CallsFit, RestOK', call' \in [Calls -> CallStates],
         NEW c \in Calls, Others(c), Fits(c)', listed \subseteq listed'
  PROVE  CallsFit'
<1>1. TypeOK'
  BY DEF RestOK, TypeOK
<1>2. ASSUME NEW d \in Calls \ {c}
      PROVE  Fits(d)'
  <2>1. Keeps(d) /\ Fits(d)
    BY DEF Others, CallsFit
  <2> QED
    BY <2>1 DEF Keeps, Fits
<1> QED
  BY <1>1, <1>2 DEF CallsFit

(* A call that is no longer alone was not one that changes the wallet. *)
LEMMA StillUndisturbed ==
  ASSUME CallsFit, Undisturbed, NEW c \in Calls, Others(c),
         call[c].at # "idle",
         call'[c].at = "idle" \/ call'[c].kind = call[c].kind
  PROVE  Undisturbed'
<1> SUFFICES ASSUME NEW d \in InFlight', NEW e \in InFlight', ChangesWallet(d)'
             PROVE  d = e
  BY DEF Undisturbed
<1>1. d \in InFlight /\ e \in InFlight
  BY DEF InFlight, Others, Keeps
<1>2. ChangesWallet(d)
  BY DEF ChangesWallet, Others, Keeps, InFlight
<1> QED
  BY <1>1, <1>2 DEF Undisturbed

(* A call goes on, or ends, within the session it began in. *)
LEMMA GoesOn ==
  ASSUME CallsFit, PatientInv, NEW c \in Calls, Others(c),
         call[c].at # "idle",
         call'[c].at = "idle" \/ call'[c].kind = call[c].kind,
         UNCHANGED <<listed, active, seed, history, overtaken>>,
         Holds(c)',
         screen' = screen \/ (screen' = "home" /\ seed = active /\ ChangesWallet(c)),
         \/ /\ transfers' = transfers
            /\ Loading(c) => Loading(c)'
         \/ seed = active /\ history[active] \subseteq transfers'
  PROVE  PatientInv'
<1>1. Undisturbed'
  BY StillUndisturbed DEF PatientInv
<1>2. ASSUME NEW d \in Calls \ {c}
      PROVE  Holds(d)'
  <2>1. Keeps(d) /\ Holds(d)
    BY DEF Others, PatientInv
  <2>2. call[d].at = "switch" => screen' = screen
    <3>1. SUFFICES ASSUME call[d].at = "switch", ChangesWallet(c)
                   PROVE  FALSE
      OBVIOUS
    <3> QED
      BY <3>1 DEF PatientInv, Undisturbed, InFlight
  <2> QED
    BY <2>1, <2>2 DEF Keeps, Holds
<1>3. SessionHeld'
  <2>1. HistoryInMemory'
    <3>1. ASSUME NEW d \in Calls, Loading(d), Loading(c) => Loading(c)'
          PROVE  Loading(d)'
      BY <3>1 DEF Others, Keeps, Loading
    <3> QED
      BY <3>1 DEF PatientInv, SessionHeld, HistoryInMemory
  <2> QED
    BY <2>1 DEF PatientInv, SessionHeld
<1> QED
  BY <1>1, <1>2, <1>3 DEF PatientInv

(* A call begins: alone, if it is to change the wallet, and beside no call *)
(* that does.                                                              *)
LEMMA Starts ==
  ASSUME CallsFit, PatientInv, NEW c \in Calls, Others(c),
         call[c].at = "idle",
         UNCHANGED <<listed, session, storage, overtaken>>,
         \A d \in InFlight : ~ChangesWallet(d),
         ChangesWallet(c)' => InFlight = {},
         Holds(c)', screen' \in {screen, "unlock"}
  PROVE  PatientInv'
<1> USE DEF session, storage
<1>1. Undisturbed'
  <2> SUFFICES ASSUME NEW d \in InFlight', NEW e \in InFlight', ChangesWallet(d)'
               PROVE  d = e
    BY DEF Undisturbed
  <2>1. d # c => d \in InFlight /\ ChangesWallet(d)
    BY DEF InFlight, Others, Keeps, ChangesWallet
  <2>2. e # c => e \in InFlight
    BY DEF InFlight, Others, Keeps
  <2> QED
    BY <2>1, <2>2
<1>2. ASSUME NEW d \in Calls \ {c}
      PROVE  Holds(d)'
  <2>1. Keeps(d) /\ Holds(d) /\ Fits(d)
    BY DEF Others, PatientInv, CallsFit
  <2>2. call[d].at # "switch"
    BY <2>1 DEF Fits, InFlight, ChangesWallet
  <2> QED
    BY <2>1, <2>2 DEF Keeps, Holds
<1>3. SessionHeld'
  <2>1. ASSUME NEW d \in Calls, Loading(d)
        PROVE  Loading(d)'
    BY <2>1 DEF Others, Keeps, Loading
  <2>2. HistoryInMemory'
    BY <2>1 DEF PatientInv, SessionHeld, HistoryInMemory
  <2> QED
    BY <2>2 DEF PatientInv, SessionHeld
<1> QED
  BY <1>1, <1>2, <1>3 DEF PatientInv

(* Nothing is in flight after the step: what is left is the session. *)
LEMMA AllIdle ==
  ASSUME CallsFit', SessionHeld', \A d \in Calls : call'[d].at = "idle"
  PROVE  PatientInv'
<1>1. Undisturbed'
  BY DEF Undisturbed, InFlight
<1>2. \A d \in Calls : Holds(d)'
  BY DEF CallsFit, Fits, Holds
<1> QED
  BY <1>1, <1>2 DEF PatientInv

(* The other calls go on carrying what they carried while the same wallet  *)
(* stays active.                                                           *)
LEMMA OwnStep ==
  ASSUME OwnInv, NEW c \in Calls, Others(c), Carries(c)', OwnState',
         UNCHANGED <<active, overtaken, mixed>>
  PROVE  OwnInv'
<1>1. ASSUME NEW d \in Calls \ {c}
      PROVE  Carries(d)'
  <2>1. Keeps(d) /\ Carries(d)
    BY DEF Others, OwnInv
  <2> QED
    BY <2>1 DEF Keeps, Carries, Late, Own
<1> QED
  BY <1>1 DEF OwnInv

(* The state is the same, but perhaps for what is shown. *)
LEMMA OwnStateKept ==
  ASSUME OwnState,
         UNCHANGED <<active, seed, transfers, storage, overtaken, mixed>>,
         shown' = shown \/ (~Late(ToScreen) => shown' \subseteq Own(active))
  PROVE  OwnState'
BY DEF OwnState, KeysOfActiveWallet, CachesStayOwn, OwnTransfers, Late, Own,
       SelectsOwnedOutputs, storage, ToScreen

(* The keys are the active wallet's unless an unlock was overtaken. *)
LEMMA OwnKeys ==
  ASSUME OwnState, ~Late({"decrypt"})
  PROVE  seed \in {NoWallet, active}
BY DEF OwnState, KeysOfActiveWallet, Late

(* Fewer awaits matter to the cache than to the screen. *)
LEMMA LateAwaits ==
  /\ Late({"decrypt"}) => Late(ToCache) /\ Late(ToScreen) /\ Late(ToHistory)
  /\ Late(ToCache) => Late(ToScreen)
BY DEF Late, ToCache, ToScreen, ToHistory
-----------------------------------------------------------------------------
(* What is shown of every step. *)
Kept == CallsFit' /\ (Waits => Waits') /\ (OwnInv => OwnInv')

(* The cache is not written, or with outputs of the active wallet.  *)
LEMMA CacheOwn ==
  ASSUME TypeOK, SelectsOwnedOutputs, NEW own \in SUBSET Own(active),
         cached' = cached \/ cached' = [cached EXCEPT ![active] = own]
  PROVE  SelectsOwnedOutputs' /\ cached' \in [Wallets -> SUBSET Outputs]
BY DEF TypeOK, SelectsOwnedOutputs, Own

(* The cache of the active wallet holds its own outputs. *)
LEMMA ActiveCacheOwn ==
  ASSUME CallsFit, OwnState, ~Late(ToCache)
  PROVE  cached[active] \subseteq Own(active)
BY DEF OwnState, CachesStayOwn, SelectsOwnedOutputs, CallsFit, TypeOK, ToCache

(* A call returns and leaves the session as it was. *)
LEMMA EndStep ==
  ASSUME CallsFit, NEW c \in Calls, call[c].at # "idle", ~Loading(c), Return(c),
         UNCHANGED <<screen, listed, session, storage, chain, past>>
  PROVE  Kept
<1> USE DEF session, storage, chain, past
<1>1. /\ call' \in [Calls -> CallStates]
      /\ call'[c].kind = "none" /\ call'[c].at = "idle" /\ call'[c].got = {}
      /\ Others(c)
  BY Returns DEF CallsFit
<1>2. RestOK'
  BY DEF CallsFit, TypeOK, RestOK
<1>3. Fits(c)'
  BY <1>1 DEF Fits
<1>4. CallsFit'
  BY <1>1, <1>2, <1>3, CallsStep
<1>5. ASSUME PatientInv
      PROVE  PatientInv'
  <2>1. Holds(c)'
    BY <1>1 DEF Holds
  <2> QED
    BY <1>1, <1>5, <2>1, GoesOn
<1>6. ASSUME OwnInv
      PROVE  OwnInv'
  <2>1. Carries(c)'
    BY <1>1 DEF Carries
  <2>2. OwnState'
    BY <1>6, OwnStateKept DEF OwnInv
  <2> QED
    BY <1>1, <1>6, <2>1, <2>2, OwnStep
<1> QED
  BY <1>4, <1>5, <1>6 DEF Kept, Waits

(* A scan has returned or failed. *)
LEMMA AfterScanStep ==
  ASSUME CallsFit, NEW c \in Calls,
         call[c].at \in {"cache", "status", "scan", "store"},
         AfterScan(c, TRUE) \/ AfterScan(c, FALSE),
         UNCHANGED <<screen, listed, active, seed, transfers, storage, chain,
                     past>>,
         \/ shown' = shown
         \/ call[c].at \in {"cache", "store"} /\ shown' = call[c].got
  PROVE  Kept
<1> USE DEF storage, chain, past
<1>1. call[c].kind \in {"unlock", "refresh", "send"}
  BY DEF CallsFit, Fits
<1>2. call[c].got \subseteq Outputs /\ history[active] \subseteq Outputs
      /\ cached[active] \subseteq Outputs
  BY DEF CallsFit, TypeOK, CallStates
<1>3. RestOK'
  BY <1>2 DEF CallsFit, TypeOK, RestOK
<1>4. /\ call' \in [Calls -> CallStates] /\ Others(c)
      /\ \/ /\ call[c].kind = "unlock" /\ call'[c].kind = "unlock"
            /\ call'[c].at = "history" /\ call'[c].got = history[active]
         \/ /\ call[c].kind = "send" /\ call'[c].kind = "send"
            /\ call'[c].at = "balance" /\ call'[c].got = cached[active]
         \/ /\ call[c].kind # "unlock" /\ call'[c].kind = "none"
            /\ call'[c].at = "idle" /\ call'[c].got = {}
  <2>1. CASE call[c].kind = "unlock" /\ Await(c, "history", history[active])
    BY <1>2, <2>1, Awaits DEF CallsFit, Points
  <2>2. CASE call[c].kind = "send" /\ Await(c, "balance", cached[active])
    BY <1>2, <2>2, Awaits DEF CallsFit, Points
  <2>3. CASE call[c].kind # "unlock" /\ Return(c)
    BY <2>3, Returns DEF CallsFit
  <2> QED
    BY <2>1, <2>2, <2>3, AfterScanCases
<1>5. Fits(c)'
  BY <1>4 DEF Fits
<1>6. CallsFit'
  BY <1>3, <1>4, <1>5, CallsStep
<1>7. ASSUME PatientInv
      PROVE  PatientInv'
  <2>1. seed = active
    BY <1>7 DEF PatientInv, Holds
  <2>2. Holds(c)'
    BY <1>4, <2>1 DEF Holds
  <2>3. Loading(c) => Loading(c)'
    BY <1>4 DEF Loading
  <2>4. call'[c].at = "idle" \/ call'[c].kind = call[c].kind
    BY <1>4
  <2> QED
    BY <1>4, <1>7, <2>1, <2>2, <2>3, <2>4, GoesOn
<1>8. ASSUME OwnInv
      PROVE  OwnInv'
  <2>1. ~Late(ToHistory) /\ ~mixed => history[active] \subseteq Own(active)
    BY <1>8 DEF OwnInv, OwnState, OwnTransfers, ToHistory, CallsFit, TypeOK
  <2>2. Carries(c)'
    BY <1>4, <2>1 DEF Carries, Late, Own
  <2>3. shown' = shown \/ (~Late(ToScreen) => shown' \subseteq Own(active))
    BY <1>8 DEF OwnInv, Carries
  <2>4. OwnState'
    BY <1>8, <2>3, OwnStateKept DEF OwnInv
  <2> QED
    BY <1>4, <1>8, <2>2, <2>4, OwnStep
<1> QED
  BY <1>6, <1>7, <1>8 DEF Kept, Waits

(* A call goes on to its next await; all that it changes of the session is *)
(* what is shown and the cache.                                            *)
LEMMA AwaitStep ==
  ASSUME CallsFit, NEW c \in Calls, call[c].at # "idle",
         call' \in [Calls -> CallStates], Others(c),
         call'[c].kind = call[c].kind,
         Fits(c)', RestOK', Loading(c) => Loading(c)',
         UNCHANGED <<screen, listed, active, seed, transfers, history, past>>,
         PatientInv => Holds(c)',
         OwnInv => Carries(c)' /\ OwnState'
  PROVE  Kept
<1>1. CallsFit'
  BY CallsStep
<1>2. PatientInv => PatientInv'
  BY GoesOn DEF past
<1>3. OwnInv => OwnInv'
  BY OwnStep DEF past
<1> QED
  BY <1>1, <1>2, <1>3 DEF Kept, Waits, past

(* A call begins. *)
LEMMA StartStep ==
  ASSUME CallsFit, NEW c \in Calls, call[c].at = "idle",
         call' \in [Calls -> CallStates], Others(c), Fits(c)', RestOK',
         UNCHANGED <<listed, session, storage, overtaken, mixed>>,
         screen' \in {screen, "unlock"},
         \/ MayChangeWallet
         \/ MayUseWallet /\ ~ChangesWallet(c)',
         PatientInv => Holds(c)',
         OwnInv => Carries(c)'
  PROVE  Kept
<1>1. CallsFit'
  BY CallsStep DEF session, storage
<1>2. ASSUME Waits, overlaps' = 0
      PROVE  PatientInv'
  <2>1. overlaps \in Nat
    BY SessionAssumption DEF CallsFit, TypeOK
  <2>2. /\ overlaps = 0
        /\ \A d \in InFlight : ~ChangesWallet(d)
        /\ ChangesWallet(c)' => InFlight = {}
    BY <1>2, <2>1 DEF MayChangeWallet, MayUseWallet, Apart
  <2> QED
    BY <1>2, <2>2, Starts DEF Waits
<1>3. ASSUME OwnInv
      PROVE  OwnInv'
  <2>1. OwnState'
    BY <1>3, OwnStateKept DEF OwnInv, session
  <2> QED
    BY <1>3, <2>1, OwnStep DEF session
<1> QED
  BY <1>1, <1>2, <1>3 DEF Kept, Waits

(* The bounds are kept by the calls that begin. *)
LEMMA ApartTypes ==
  ASSUME TypeOK, MayChangeWallet \/ MayUseWallet
  PROVE  overlaps' \in 0..MaxOverlaps /\ later' \in 0..MaxLater
<1>1. overlaps' \in 0..MaxOverlaps
  BY SessionAssumption DEF TypeOK, MayChangeWallet, MayUseWallet, Apart
<1>2. later' \in 0..MaxLater
  BY SessionAssumption DEF TypeOK, MayChangeWallet, MayUseWallet
<1> QED
  BY <1>1, <1>2
-----------------------------------------------------------------------------
(* Calls begin.                                                            *)
LEMMA BeginSteps ==
  ASSUME CallsFit, NEW c \in Calls
  PROVE  /\ UnlockStart(c) \/ RefreshStart(c) \/ SendStart(c) => Kept
         /\ \A w \in Wallets : SwitchStart(c, w) \/ RestoreStart(c, w) => Kept
<1> USE DEF session, storage, chain
<1>1. TypeOK /\ active \in Wallets /\ cached[active] \in SUBSET Outputs
  BY DEF CallsFit, TypeOK
<1>2. ASSUME UnlockStart(c)
      PROVE  Kept
  <2>1. Begin(c, "unlock", "decrypt", active, {})
    BY <1>2 DEF UnlockStart
  <2>2. /\ call[c].at = "idle" /\ call' \in [Calls -> CallStates] /\ Others(c)
        /\ call'[c].kind = "unlock" /\ call'[c].at = "decrypt"
        /\ call'[c].key = active /\ call'[c].got = {}
    BY <1>1, <2>1, Begins DEF Kinds, Points
  <2>3. RestOK' /\ Fits(c)' /\ Holds(c)' /\ Carries(c)'
    BY <1>1, <1>2, <2>2, ApartTypes
       DEF UnlockStart, TypeOK, RestOK, Fits, Holds, Carries
  <2> QED
    BY <1>2, <2>2, <2>3, StartStep DEF UnlockStart
<1>3. ASSUME RefreshStart(c)
      PROVE  Kept
  <2>1. Begin(c, "refresh", "cache", NoWallet, cached[active])
    BY <1>3 DEF RefreshStart
  <2>2. /\ call[c].at = "idle" /\ call' \in [Calls -> CallStates] /\ Others(c)
        /\ call'[c].kind = "refresh" /\ call'[c].at = "cache"
        /\ call'[c].got = cached[active]
    BY <1>1, <2>1, Begins DEF Kinds, Points
  <2>3. RestOK' /\ Fits(c)'
    BY <1>1, <1>3, <2>2, ApartTypes, SMTT(30)
       DEF RefreshStart, TypeOK, RestOK, Fits
  <2>4. PatientInv => Holds(c)'
    BY <1>1, <1>3, <2>2 DEF PatientInv, SessionHeld, Holds, RefreshStart
  <2>6. ASSUME OwnInv
        PROVE  Carries(c)'
    <3>1. ~Late(ToScreen) => cached[active] \subseteq Own(active)
      BY <2>6, LateAwaits, ActiveCacheOwn DEF OwnInv
    <3> QED
      BY <1>3, <2>2, <3>1 DEF RefreshStart, Carries, Late, Own
  <2>5. ~ChangesWallet(c)'
    BY <2>2 DEF ChangesWallet
  <2> QED
    BY <1>3, <2>2, <2>3, <2>4, <2>5, <2>6, StartStep DEF RefreshStart
<1>4. ASSUME SendStart(c)
      PROVE  Kept
  <2> DEFINE none == {}
  <2>0. /\ "send" \in Kinds /\ "status" \in Points /\ none \in SUBSET Outputs
        /\ NoWallet \in Wallets \cup {NoWallet}
    BY DEF Kinds, Points
  <2>1. Begin(c, "send", "status", NoWallet, none) /\ none = {}
    BY <1>4 DEF SendStart
  <2> HIDE DEF none
  <2>2. /\ call[c].at = "idle" /\ call' \in [Calls -> CallStates] /\ Others(c)
        /\ call'[c].kind = "send" /\ call'[c].at = "status"
        /\ call'[c].got = {}
    BY <1>1, <2>0, <2>1, Begins
  <2>3. RestOK' /\ Fits(c)'
    BY <1>1, <1>4, <2>2, ApartTypes DEF SendStart, TypeOK, RestOK, Fits
  <2>4. /\ PatientInv => Holds(c)'
        /\ Carries(c)'
    BY <1>1, <1>4, <2>2 DEF PatientInv, SessionHeld, Holds, Carries, SendStart
  <2>5. ~ChangesWallet(c)'
    BY <2>2 DEF ChangesWallet
  <2> QED
    BY <1>4, <2>2, <2>3, <2>4, <2>5, StartStep DEF SendStart
<1>5. ASSUME NEW w \in Wallets, SwitchStart(c, w)
      PROVE  Kept
  <2> DEFINE m == [Idle EXCEPT !.kind = "switch"]
             n == [m EXCEPT !.at = "switch"]
             r == [n EXCEPT !.key = w]
  <2>1. call' = [Unmounted EXCEPT ![c] = r]
    BY <1>5 DEF SwitchStart
  <2>2. Idle \in CallStates /\ Idle.got = {}
    BY DEF Idle, CallStates, Points
  <2>3. m \in CallStates /\ m.kind = "switch" /\ m.got = {}
    BY <2>2 DEF CallStates
  <2> HIDE DEF m
  <2>4. n \in CallStates /\ n.kind = "switch" /\ n.at = "switch" /\ n.got = {}
    BY <2>3 DEF CallStates, Points
  <2> HIDE DEF n
  <2>5. /\ r \in CallStates /\ r.kind = "switch" /\ r.at = "switch"
        /\ r.key = w /\ r.got = {}
    BY <2>4 DEF CallStates
  <2> HIDE DEF r
  <2>6. call' \in [Calls -> CallStates] /\ call'[c] = r /\ Others(c)
    BY <1>1, <2>1, <2>5, Unmounts
  <2>7. /\ UNCHANGED <<listed, session, storage, chain, overtaken, mixed>>
        /\ screen' = "unlock" /\ MayChangeWallet
    BY <1>5 DEF SwitchStart
  <2>8. RestOK'
    BY <1>1, <2>7, ApartTypes DEF TypeOK, RestOK
  <2>9. Fits(c)'
    BY <1>5, <2>5, <2>6, <2>7 DEF SwitchStart, Fits
  <2>10. Holds(c)' /\ Carries(c)'
    BY <2>5, <2>6, <2>7 DEF Holds, Carries
  <2> QED
    BY <1>5, <2>6, <2>7, <2>8, <2>9, <2>10, StartStep DEF SwitchStart
<1>6. ASSUME NEW w \in Wallets, RestoreStart(c, w)
      PROVE  Kept
  <2>1. Begin(c, "restore", "restore", w, {})
    BY <1>6 DEF RestoreStart
  <2>2. /\ call[c].at = "idle" /\ call' \in [Calls -> CallStates] /\ Others(c)
        /\ call'[c].kind = "restore" /\ call'[c].at = "restore"
        /\ call'[c].key = w /\ call'[c].got = {}
    BY <1>1, <2>1, Begins DEF Kinds, Points
  <2>3. RestOK' /\ Fits(c)' /\ Holds(c)' /\ Carries(c)'
    BY <1>1, <1>6, <2>2, ApartTypes
       DEF RestoreStart, TypeOK, RestOK, Fits, Holds, Carries
  <2> QED
    BY <1>6, <2>2, <2>3, StartStep DEF RestoreStart
<1> QED
  BY <1>2, <1>3, <1>4, <1>5, <1>6

(* The calls that scan: refreshAll, unlock, and a send's first half. *)
LEMMA ScanSteps ==
  ASSUME CallsFit, NEW c \in Calls
  PROVE  /\ CacheLoaded(c) \/ TipRead(c) \/ ScanFails(c) => Kept
         /\ ScanReturned(c) \/ ScanStored(c) => Kept
<1> USE DEF session, storage, chain, past
<1>1. /\ TypeOK /\ Fits(c) /\ active \in Wallets
      /\ call[c].got \in SUBSET Outputs
  BY DEF CallsFit, TypeOK, CallStates
<1>2. ASSUME CacheLoaded(c)
      PROVE  Kept
  <2>1. CASE seed = NoWallet
    <3>1. AfterScan(c, FALSE)
      BY <1>2, <2>1 DEF CacheLoaded
    <3> QED
      BY <1>2, <3>1, AfterScanStep DEF CacheLoaded
  <2>2. CASE seed # NoWallet
    <3>1. Await(c, "status", {}) /\ call[c].at = "cache"
      BY <1>2, <2>2 DEF CacheLoaded
    <3>2. /\ call' \in [Calls -> CallStates] /\ Others(c)
          /\ call'[c].kind = call[c].kind /\ call'[c].at = "status"
          /\ call'[c].got = {}
      BY <1>1, <3>1, Awaits DEF Points
    <3>3. RestOK' /\ Fits(c)'
      BY <1>1, <1>2, <3>1, <3>2 DEF CacheLoaded, TypeOK, RestOK, Fits
    <3>4. Loading(c) => Loading(c)'
      BY <3>2 DEF Loading
    <3>5. PatientInv => Holds(c)'
      BY <1>2, <3>1, <3>2 DEF CacheLoaded, PatientInv, Holds
    <3>6. ASSUME OwnInv
          PROVE  Carries(c)' /\ OwnState'
      <4>1. ~Late(ToScreen) => shown' \subseteq Own(active)
        BY <1>2, <3>1, <3>5, <3>6 DEF CacheLoaded, OwnInv, Carries
      <4>2. OwnState'
        BY <1>2, <3>6, <4>1, OwnStateKept DEF CacheLoaded, OwnInv
      <4> QED
        BY <3>2, <4>2 DEF Carries
    <3> QED
      BY <1>2, <3>1, <3>2, <3>3, <3>4, <3>5, <3>6, AwaitStep DEF CacheLoaded
  <2> QED
    BY <2>1, <2>2
<1>3. ASSUME TipRead(c)
      PROVE  Kept
  <2> DEFINE found == {o \in mined \ spent : Owner[o] = seed}
             f == [call EXCEPT ![c].at = "scan"]
             g == [f EXCEPT ![c].key = seed]
             h == [g EXCEPT ![c].got = found]
  <2>1. /\ call[c].at = "status" /\ call' = h
        /\ UNCHANGED <<screen, listed, session, storage, chain, past>>
    BY <1>3 DEF TipRead
  <2>2. found \in SUBSET Outputs /\ (seed = active => found \subseteq Own(active))
    BY <1>1 DEF TypeOK, Own
  <2> HIDE DEF found
  <2>a. seed \in Wallets \cup {NoWallet}
    BY <1>1 DEF TypeOK
  <2>3. /\ f \in [Calls -> CallStates] /\ f[c].kind = call[c].kind
        /\ f[c].at = "scan" /\ \A d \in Calls \ {c} : f[d] = call[d]
    BY <1>1 DEF TypeOK, CallStates, Points
  <2> HIDE DEF f
  <2>4. /\ g \in [Calls -> CallStates] /\ g[c].kind = call[c].kind
        /\ g[c].at = "scan" /\ \A d \in Calls \ {c} : g[d] = call[d]
    BY <2>a, <2>3 DEF CallStates
  <2> HIDE DEF g
  <2>5. /\ h \in [Calls -> CallStates] /\ h[c].kind = call[c].kind
        /\ h[c].at = "scan" /\ h[c].got = found
        /\ \A d \in Calls \ {c} : h[d] = call[d]
    BY <2>2, <2>4 DEF CallStates
  <2> HIDE DEF h
  <2>6. Others(c)
    BY <2>1, <2>5 DEF Others, Keeps
  <2>7. RestOK' /\ Fits(c)'
    BY <1>1, <2>1, <2>5 DEF TypeOK, RestOK, Fits
  <2>8. Loading(c) => Loading(c)'
    BY <2>1, <2>5 DEF Loading
  <2>9. PatientInv => Holds(c)'
    BY <2>1, <2>5 DEF PatientInv, Holds
  <2>10. ASSUME OwnInv
         PROVE  Carries(c)' /\ OwnState'
    <3>1. ~Late({"decrypt"}) => seed = active
      BY <1>3, <2>10, OwnKeys DEF TipRead, OwnInv
    <3>2. Carries(c)'
      BY <2>1, <2>2, <2>5, <3>1, LateAwaits DEF Carries, Late, Own
    <3> QED
      BY <2>1, <2>10, <3>2, OwnStateKept DEF OwnInv
  <2> QED
    BY <2>1, <2>5, <2>6, <2>7, <2>8, <2>9, <2>10, AwaitStep
<1>4. ASSUME ScanFails(c)
      PROVE  Kept
  BY <1>4, AfterScanStep DEF ScanFails
<1>5. ASSUME ScanReturned(c)
      PROVE  Kept
  <2>1. Await(c, "store", call[c].got) /\ call[c].at = "scan"
    BY <1>5 DEF ScanReturned
  <2>2. /\ call' \in [Calls -> CallStates] /\ Others(c)
        /\ call'[c].kind = call[c].kind /\ call'[c].at = "store"
        /\ call'[c].got = call[c].got
    BY <1>1, <2>1, Awaits DEF Points
  <2>3. RestOK' /\ Fits(c)'
    BY <1>1, <1>5, <2>1, <2>2 DEF ScanReturned, TypeOK, RestOK, Fits
  <2>4. Loading(c) => Loading(c)'
    BY <2>2 DEF Loading
  <2>5. PatientInv => Holds(c)'
    BY <1>5, <2>1, <2>2 DEF ScanReturned, PatientInv, Holds
  <2>6. ASSUME OwnInv
        PROVE  Carries(c)' /\ OwnState'
    <3>1. CachesStayOwn'
      BY <1>1, <1>5, <2>1, <2>6, CacheOwn
         DEF ScanReturned, OwnInv, OwnState, CachesStayOwn, Carries, Late, ToCache
    <3>2. OwnState'
      BY <1>5, <2>6, <3>1
         DEF ScanReturned, OwnInv, OwnState, KeysOfActiveWallet, OwnTransfers,
             Late, Own
    <3>3. Carries(c)'
      BY <1>5, <2>1, <2>2, <2>6 DEF ScanReturned, OwnInv, Carries, Late, Own
    <3> QED
      BY <3>2, <3>3
  <2> QED
    BY <1>5, <2>1, <2>2, <2>3, <2>4, <2>5, <2>6, AwaitStep DEF ScanReturned
<1>6. ASSUME ScanStored(c)
      PROVE  Kept
  BY <1>6, AfterScanStep DEF ScanStored
<1> QED
  BY <1>2, <1>3, <1>4, <1>5, <1>6

(* The end of an unlock, and the calls of a send. *)
LEMMA UnlockSteps ==
  ASSUME CallsFit, NEW c \in Calls
  PROVE  Decrypted(c) \/ WrongPassword(c) \/ HistoryLoaded(c) => Kept
<1> USE DEF session, storage, chain, past
<1>1. /\ TypeOK /\ Fits(c) /\ active \in Wallets
      /\ call[c].got \in SUBSET Outputs /\ cached[active] \in SUBSET Outputs
      /\ call[c].key \in Wallets \cup {NoWallet}
      /\ \A d \in Calls : call[d].at = "idle" => call[d].got = {}
  BY DEF CallsFit, TypeOK, CallStates, Fits
<1>2. ASSUME Decrypted(c)
      PROVE  Kept
  <2>1. Await(c, "cache", cached[active]) /\ call[c].at = "decrypt"
    BY <1>2 DEF Decrypted
  <2>2. /\ call' \in [Calls -> CallStates] /\ Others(c)
        /\ call'[c].kind = call[c].kind /\ call'[c].at = "cache"
        /\ call'[c].got = cached[active]
    BY <1>1, <2>1, Awaits DEF Points
  <2>3. RestOK' /\ Fits(c)'
    BY <1>1, <1>2, <2>1, <2>2 DEF Decrypted, TypeOK, RestOK, Fits
  <2>4. CallsFit'
    BY <1>2, <2>2, <2>3, CallsStep DEF Decrypted
  <2>5. ASSUME PatientInv
        PROVE  PatientInv'
    <3>1. seed' = active /\ UNCHANGED <<active, listed>> /\ active # NoWallet
      BY <1>1, <1>2, <2>1, <2>5, SessionAssumption
         DEF Decrypted, PatientInv, Holds
    <3>2. \A d \in Calls \ {c} : call[d].at = "idle"
      BY <1>1, <2>1, <2>5
         DEF PatientInv, Undisturbed, InFlight, ChangesWallet, Fits
    <3>3. \A d \in Calls \ {c} : call'[d].at = "idle" /\ call'[d].got = {}
      BY <1>1, <2>2, <3>2 DEF Others, Keeps
    <3>4. Undisturbed'
      BY <3>3 DEF Undisturbed, InFlight
    <3>5. Holds(c)'
      BY <2>2, <3>1 DEF Holds
    <3>6. \A d \in Calls \ {c} : Holds(d)'
      BY <3>3 DEF Holds
    <3>7. Loading(c)'
      BY <1>1, <2>1, <2>2 DEF Fits, Loading
    <3>8. HistoryInMemory'
      BY <1>2, <2>5, <3>7 DEF Decrypted, PatientInv, SessionHeld, HistoryInMemory
    <3>9. SessionHeld'
      BY <1>2, <2>5, <3>1, <3>8 DEF Decrypted, PatientInv, SessionHeld
    <3> QED
      BY <3>4, <3>5, <3>6, <3>9 DEF PatientInv
  <2>6. ASSUME OwnInv
        PROVE  OwnInv'
    <3>1. KeysOfActiveWallet'
      BY <1>2, <2>1, <2>6 DEF Decrypted, OwnInv, Carries, KeysOfActiveWallet
    <3>2. OwnState'
      BY <1>2, <2>6, <3>1
         DEF Decrypted, OwnInv, OwnState, CachesStayOwn, SelectsOwnedOutputs,
             OwnTransfers, Late, Own
    <3>3. ~Late(ToScreen) => cached[active] \subseteq Own(active)
      BY <2>6, LateAwaits, ActiveCacheOwn DEF OwnInv
    <3>4. Carries(c)'
      BY <1>2, <2>2, <3>3 DEF Decrypted, Carries, Late, Own
    <3> QED
      BY <1>2, <2>2, <2>6, <3>2, <3>4, OwnStep DEF Decrypted
  <2> QED
    BY <1>2, <2>4, <2>5, <2>6 DEF Decrypted, Kept, Waits
<1>3. ASSUME WrongPassword(c)
      PROVE  Kept
  BY <1>3, EndStep DEF WrongPassword, Loading
<1>4. ASSUME HistoryLoaded(c)
      PROVE  Kept
  <2>1. call[c].at = "history" /\ call[c].kind = "unlock" /\ Return(c)
    BY <1>1, <1>4 DEF HistoryLoaded, Fits
  <2>2. /\ call' \in [Calls -> CallStates] /\ Others(c)
        /\ call'[c].kind = "none" /\ call'[c].at = "idle" /\ call'[c].got = {}
    BY <1>1, <2>1, Returns
  <2>3. RestOK' /\ Fits(c)'
    BY <1>1, <1>4, <2>2 DEF HistoryLoaded, TypeOK, RestOK, Fits
  <2>4. CallsFit'
    BY <1>4, <2>2, <2>3, CallsStep DEF HistoryLoaded
  <2>5. ASSUME PatientInv
        PROVE  PatientInv'
    <3>1. seed = active /\ call[c].got = history[active]
      BY <2>1, <2>5 DEF PatientInv, Holds
    <3>2. Holds(c)'
      BY <2>2 DEF Holds
    <3>3. history[active] \subseteq transfers'
      BY <1>4, <3>1 DEF HistoryLoaded
    <3>4. ChangesWallet(c)
      BY <2>1 DEF ChangesWallet
    <3>5. /\ UNCHANGED <<listed, active, seed, history, overtaken>>
          /\ screen' = screen \/ screen' = "home"
      BY <1>4 DEF HistoryLoaded
    <3> QED
      BY <2>1, <2>2, <2>5, <3>1, <3>2, <3>3, <3>4, <3>5, GoesOn
  <2>6. ASSUME OwnInv
        PROVE  OwnInv'
    <3>1. OwnTransfers'
      <4>1. ~mixed /\ ~Late(ToHistory) => transfers' \subseteq Own(active)
        BY <1>4, <2>1, <2>6
           DEF HistoryLoaded, OwnInv, OwnState, OwnTransfers, Carries, ToHistory
      <4> QED
        BY <1>4, <2>6, <4>1
           DEF HistoryLoaded, OwnInv, OwnState, OwnTransfers, ToHistory, Late, Own
    <3>2. OwnState'
      BY <1>4, <2>6, <3>1
         DEF HistoryLoaded, OwnInv, OwnState, KeysOfActiveWallet, CachesStayOwn,
             SelectsOwnedOutputs, Late, Own
    <3>3. Carries(c)'
      BY <2>2 DEF Carries
    <3> QED
      BY <1>4, <2>2, <2>6, <3>2, <3>3, OwnStep DEF HistoryLoaded
  <2> QED
    BY <1>4, <2>4, <2>5, <2>6 DEF HistoryLoaded, Kept, Waits
<1> QED
  BY <1>2, <1>3, <1>4

(* The steps of a send that end none of the invariant's parts.             *)
LEMMA SendSteps ==
  ASSUME CallsFit, NEW c \in Calls
  PROVE  /\ BalanceRead(c) \/ OutputsRead(c) \/ SendFails(c) => Kept
         /\ NodeAccepts(c) \/ SpentRead(c) \/ SpentDropped(c) => Kept
<1> USE DEF session, storage, chain, past
<1>1. /\ TypeOK /\ Fits(c) /\ active \in Wallets
      /\ call[c].got \in SUBSET Outputs /\ cached[active] \in SUBSET Outputs
  BY DEF CallsFit, TypeOK, CallStates
<1>2. /\ PatientInv => Holds(c)
      /\ OwnInv => /\ Carries(c) /\ OwnState
                   /\ ~Late(ToCache) => cached[active] \subseteq Own(active)
  BY ActiveCacheOwn DEF PatientInv, OwnInv
<1>3. ASSUME BalanceRead(c) \/ SpentRead(c)
      PROVE  Kept
  <2>1. PICK a \in {"outputs", "drop"} :
          /\ Await(c, a, cached[active])
          /\ call[c].at = IF a = "drop" THEN "accepted" ELSE "balance"
          /\ UNCHANGED <<screen, listed, session, storage, chain, past>>
    BY <1>3 DEF BalanceRead, SpentRead
  <2>2. /\ call' \in [Calls -> CallStates] /\ Others(c)
        /\ call'[c].kind = call[c].kind /\ call'[c].at = a
        /\ call'[c].got = cached[active] /\ call'[c].tx = call[c].tx
    BY <1>1, <2>1, Awaits DEF Points
  <2>3. RestOK' /\ Fits(c)'
    BY <1>1, <2>1, <2>2 DEF TypeOK, RestOK, Fits
  <2>4. Loading(c) => Loading(c)'
    BY <1>1, <2>1 DEF Fits, Loading
  <2>5. PatientInv => Holds(c)'
    BY <1>2, <2>1, <2>2 DEF Holds
  <2>6. ASSUME OwnInv
        PROVE  Carries(c)' /\ OwnState'
    <3>1. Carries(c)'
      BY <1>2, <2>1, <2>2, <2>6, LateAwaits DEF Carries, Late, Own
    <3> QED
      BY <1>2, <2>1, <2>6, <3>1, OwnStateKept
  <2> QED
    BY <2>1, <2>2, <2>3, <2>4, <2>5, <2>6, AwaitStep
<1>4. ASSUME OutputsRead(c)
      PROVE  Kept
  <2>1. PICK o \in call[c].got :
          call' = [call EXCEPT ![c].at = "submit", ![c].key = seed,
                               ![c].tx = o, ![c].got = {}]
    BY <1>4 DEF OutputsRead
  <2> DEFINE none == {}
             f == [call EXCEPT ![c].at = "submit"]
             g == [f EXCEPT ![c].key = seed]
             h == [g EXCEPT ![c].tx = o]
             k == [h EXCEPT ![c].got = none]
  <2>2. call' = k /\ none \in SUBSET Outputs /\ none = {}
    BY <2>1
  <2> HIDE DEF none
  <2>3. seed \in Wallets \cup {NoWallet} /\ o \in Outputs
    BY <1>1 DEF TypeOK
  <2>4. /\ f \in [Calls -> CallStates] /\ f[c].kind = call[c].kind
        /\ f[c].at = "submit" /\ \A d \in Calls \ {c} : f[d] = call[d]
    BY <1>1 DEF TypeOK, CallStates, Points
  <2> HIDE DEF f
  <2>5. /\ g \in [Calls -> CallStates] /\ g[c].kind = call[c].kind
        /\ g[c].at = "submit" /\ g[c].key = seed /\ \A d \in Calls \ {c} : g[d] = call[d]
    BY <2>3, <2>4 DEF CallStates
  <2> HIDE DEF g
  <2>6. /\ h \in [Calls -> CallStates] /\ h[c].kind = call[c].kind
        /\ h[c].at = "submit" /\ h[c].tx = o /\ h[c].key = seed
        /\ \A d \in Calls \ {c} : h[d] = call[d]
    BY <2>3, <2>5 DEF CallStates
  <2> HIDE DEF h
  <2>7. /\ k \in [Calls -> CallStates] /\ k[c].kind = call[c].kind
        /\ k[c].at = "submit" /\ k[c].tx = o /\ k[c].got = {}
        /\ k[c].key = seed
        /\ \A d \in Calls \ {c} : k[d] = call[d]
    BY <2>2, <2>6 DEF CallStates
  <2> HIDE DEF k
  <2>8. /\ UNCHANGED <<screen, listed, session, storage, chain, past>>
        /\ call[c].at = "outputs" /\ Others(c)
    BY <1>4, <2>2, <2>7 DEF OutputsRead, Others, Keeps
  <2>9. RestOK' /\ Fits(c)'
    BY <1>1, <2>2, <2>3, <2>7, <2>8 DEF TypeOK, RestOK, Fits
  <2>10. Loading(c) => Loading(c)'
    BY <2>2, <2>7, <2>8 DEF Loading
  <2>11. PatientInv => Holds(c)'
    BY <1>2, <2>2, <2>7, <2>8 DEF Holds
  <2>12. ASSUME OwnInv
         PROVE  Carries(c)' /\ OwnState'
    <3>1. ~Late({"decrypt"}) => seed = active
      BY <1>2, <1>4, <2>12, OwnKeys DEF OutputsRead
    <3>2. Carries(c)'
      BY <2>2, <2>7, <2>8, <3>1, LateAwaits DEF Carries, Late, Own
    <3> QED
      BY <1>2, <2>8, <2>12, <3>2, OwnStateKept
  <2> QED
    BY <2>2, <2>7, <2>8, <2>9, <2>10, <2>11, <2>12, AwaitStep
<1>5. ASSUME SendFails(c)
      PROVE  Kept
  BY <1>1, <1>5, EndStep DEF SendFails, Loading, Fits
<1>6. ASSUME NodeAccepts(c)
      PROVE  Kept
  <2> DEFINE none == {}
  <2>1. Await(c, "accepted", none) /\ call[c].at = "submit"
        /\ none \in SUBSET Outputs /\ none = {}
    BY <1>6 DEF NodeAccepts
  <2> HIDE DEF none
  <2>2. /\ call' \in [Calls -> CallStates] /\ Others(c)
        /\ call'[c].kind = call[c].kind /\ call'[c].at = "accepted"
        /\ call'[c].got = {} /\ call'[c].tx = call[c].tx
    BY <1>1, <2>1, Awaits DEF Points
  <2>3. RestOK' /\ Fits(c)'
    BY <1>1, <1>6, <2>1, <2>2 DEF NodeAccepts, TypeOK, RestOK, Fits
  <2>4. Loading(c) => Loading(c)'
    BY <1>1, <2>1 DEF Fits, Loading
  <2>5. PatientInv => Holds(c)'
    BY <1>2, <1>6, <2>1, <2>2 DEF NodeAccepts, Holds
  <2>6. ASSUME OwnInv
        PROVE  Carries(c)' /\ OwnState'
    <3>1. Carries(c)'
      BY <1>1, <1>2, <1>6, <2>1, <2>2, <2>6
         DEF NodeAccepts, Carries, Late, Own, Fits
    <3> QED
      BY <1>2, <1>6, <2>6, <3>1, OwnStateKept DEF NodeAccepts
  <2> QED
    BY <1>6, <2>1, <2>2, <2>3, <2>4, <2>5, <2>6, AwaitStep DEF NodeAccepts
<1>7. ASSUME SpentDropped(c)
      PROVE  Kept
  <2> DEFINE remaining == call[c].got \ {call[c].tx}
  <2>1. /\ Await(c, "dropped", remaining) /\ call[c].at = "drop"
        /\ cached' = [cached EXCEPT ![active] = remaining]
        /\ UNCHANGED <<screen, listed, session, history, chain, past>>
    BY <1>7 DEF SpentDropped
  <2>2. remaining \in SUBSET Outputs
    BY <1>1
  <2>3. OwnInv => /\ ~Late(ToCache) => remaining \subseteq Own(active)
                  /\ ~Late(ToScreen) => remaining \subseteq Own(active)
    BY <1>2, <2>1 DEF Carries
  <2> HIDE DEF remaining
  <2>4. /\ call' \in [Calls -> CallStates] /\ Others(c)
        /\ call'[c].kind = call[c].kind /\ call'[c].at = "dropped"
        /\ call'[c].got = remaining /\ call'[c].tx = call[c].tx
    BY <1>1, <2>1, <2>2, Awaits DEF Points
  <2>5. RestOK' /\ Fits(c)'
    BY <1>1, <2>1, <2>2, <2>4 DEF TypeOK, RestOK, Fits
  <2>6. Loading(c) => Loading(c)'
    BY <1>1, <2>1 DEF Fits, Loading
  <2>7. PatientInv => Holds(c)'
    BY <1>2, <2>1, <2>4 DEF Holds
  <2>8. ASSUME OwnInv
        PROVE  Carries(c)' /\ OwnState'
    <3>1. CachesStayOwn'
      BY <1>1, <1>2, <2>1, <2>3, <2>8, CacheOwn
         DEF OwnState, CachesStayOwn, Late, ToCache
    <3>2. OwnState'
      BY <1>2, <2>1, <2>8, <3>1
         DEF OwnState, KeysOfActiveWallet, OwnTransfers, Late, Own
    <3>3. Carries(c)'
      BY <1>2, <2>1, <2>3, <2>4, <2>8 DEF Carries, Late, Own
    <3> QED
      BY <3>2, <3>3
  <2> QED
    BY <2>1, <2>4, <2>5, <2>6, <2>7, <2>8, AwaitStep
<1> QED
  BY <1>3, <1>4, <1>5, <1>6, <1>7

(* The record of a send: the one write of the history.  The transfers in   *)
(* memory are the active wallet's whole history, so nothing is lost.       *)
LEMMA RecordStep ==
  ASSUME CallsFit, NEW c \in Calls, SendReturned(c)
  PROVE  /\ Kept
         /\ PatientInv => \A w \in Wallets : history[w] \subseteq history'[w]
<1> USE DEF session, storage, chain, past
<1>1. /\ TypeOK /\ Fits(c) /\ active \in Wallets /\ active \in listed
      /\ call[c].got \in SUBSET Outputs
      /\ call[c].at \in {"drop", "dropped"} /\ call[c].kind = "send"
      /\ call[c].tx \in Outputs
  BY DEF CallsFit, TypeOK, CallStates, SendReturned, Fits
<1>2. /\ UNCHANGED <<screen, listed, active, seed, cached, chain, past>>
      /\ \/ shown' = shown
         \/ call[c].at = "dropped" /\ shown' = call[c].got
      /\ \/ /\ transfers' = transfers \cup {call[c].tx}
            /\ history' = [history EXCEPT ![active] = transfers']
         \/ UNCHANGED <<transfers, history>>
  BY DEF SendReturned, Record
<1>3. /\ call' \in [Calls -> CallStates] /\ Others(c)
      /\ call'[c].kind = "none" /\ call'[c].at = "idle" /\ call'[c].got = {}
  BY <1>1, Returns DEF SendReturned
<1>4. transfers' \in SUBSET Outputs /\ history' \in [Wallets -> SUBSET Outputs]
  BY <1>1, <1>2 DEF TypeOK
<1>5. RestOK' /\ Fits(c)'
  BY <1>1, <1>2, <1>3, <1>4 DEF TypeOK, RestOK, Fits
<1>6. CallsFit'
  BY <1>2, <1>3, <1>5, CallsStep
<1>7. ASSUME PatientInv
      PROVE  /\ PatientInv'
             /\ \A w \in Wallets : history[w] \subseteq history'[w]
  <2>1. seed = active /\ active # NoWallet
    BY <1>1, <1>7, SessionAssumption DEF PatientInv, Holds
  <2>2. Undisturbed'
    BY <1>1, <1>3, <1>7, StillUndisturbed DEF PatientInv
  <2>3. \A d \in Calls : call[d].kind # "unlock"
    <3> SUFFICES ASSUME NEW d \in Calls, call[d].kind = "unlock"
                 PROVE  FALSE
      OBVIOUS
    <3>1. Fits(d)
      BY DEF CallsFit
    <3>2. d \in InFlight /\ c \in InFlight /\ ChangesWallet(d) /\ d # c
      BY <1>1, <3>1 DEF InFlight, ChangesWallet, Fits
    <3> QED
      BY <1>7, <3>2 DEF PatientInv, Undisturbed
  <2>4. ASSUME NEW d \in Calls \ {c}
        PROVE  Holds(d)'
    <3>1. Keeps(d) /\ Holds(d) /\ Fits(d) /\ call[d].at # "history"
      BY <1>3, <1>7, <2>3 DEF Others, PatientInv, CallsFit, Fits
    <3> QED
      BY <1>2, <3>1 DEF Keeps, Holds
  <2>5. Holds(c)'
    BY <1>3 DEF Holds
  <2>6. history[active] \subseteq transfers
    BY <1>7, <2>1, <2>3 DEF PatientInv, SessionHeld, HistoryInMemory, Loading
  <2>7. HistoryInMemory'
    <3>1. \A w \in Wallets \ listed : history'[w] = {}
      BY <1>1, <1>2, <1>7 DEF PatientInv, SessionHeld, HistoryInMemory, TypeOK
    <3>2. history'[active] \subseteq transfers'
      BY <1>1, <1>2, <2>6 DEF TypeOK
    <3> QED
      BY <1>2, <3>1, <3>2 DEF HistoryInMemory
  <2>8. SessionHeld'
    BY <1>2, <1>7, <2>7 DEF PatientInv, SessionHeld
  <2>9. \A w \in Wallets : history[w] \subseteq history'[w]
    BY <1>1, <1>2, <2>6 DEF TypeOK
  <2> QED
    BY <2>2, <2>4, <2>5, <2>8, <2>9 DEF PatientInv
<1>8. ASSUME OwnInv
      PROVE  OwnInv'
  <2>1. /\ ~Late(ToScreen) => shown' = shown \/ shown' \subseteq Own(active)
        /\ ~Late(ToHistory) => call[c].tx \in Own(active)
    BY <1>1, <1>2, <1>8 DEF OwnInv, Carries
  <2>2. ~mixed /\ ~Late(ToHistory) => transfers' \subseteq Own(active)
    BY <1>2, <1>8, <2>1 DEF OwnInv, OwnState, OwnTransfers, ToHistory
  <2>3. ~mixed /\ ~Late(ToHistory) =>
          \A w \in Wallets : history'[w] \subseteq Own(w)
    BY <1>1, <1>2, <1>8, <2>2
       DEF OwnInv, OwnState, OwnTransfers, ToHistory, TypeOK
  <2>4. ~mixed /\ ~Late(ToScreen) => shown' \subseteq Own(active)
    BY <1>8, <2>1 DEF OwnInv, OwnState, OwnTransfers, ToScreen
  <2>5. OwnTransfers'
    BY <1>2, <2>2, <2>3, <2>4 DEF OwnTransfers, ToScreen, ToHistory, Late, Own
  <2>6. OwnState'
    BY <1>2, <1>8, <2>5
       DEF OwnInv, OwnState, KeysOfActiveWallet, CachesStayOwn,
           SelectsOwnedOutputs, Late, Own
  <2>7. Carries(c)'
    BY <1>3 DEF Carries
  <2> QED
    BY <1>2, <1>3, <1>8, <2>6, <2>7, OwnStep
<1> QED
  BY <1>2, <1>6, <1>7, <1>8 DEF Kept, Waits

(* A change of the active wallet overtakes every other call in flight.     *)
LEMMA Overtaken ==
  ASSUME CallsFit, NEW c \in Calls, Overtakes(c), Others(c),
         call'[c].at = "idle"
  PROVE  /\ overtaken \subseteq overtaken'
         /\ overtaken' \subseteq Points \X (Wallets \cup {NoWallet})
         /\ \A d \in Calls : Carries(d)'
<1>1. overtaken \subseteq overtaken'
  BY DEF Overtakes
<1>2. overtaken' \subseteq Points \X (Wallets \cup {NoWallet})
  <2>1. \A d \in Calls : call[d].at \in Points /\ call[d].key \in Wallets \cup {NoWallet}
    BY DEF CallsFit, TypeOK, CallStates
  <2> QED
    BY <2>1 DEF CallsFit, TypeOK, Overtakes, InFlight
<1>3. Carries(c)'
  BY DEF Carries
<1>4. ASSUME NEW d \in Calls \ {c}
      PROVE  Carries(d)'
  <2>1. CASE call[d].at = "idle"
    BY <2>1 DEF Others, Keeps, Carries
  <2>2. CASE call[d].at # "idle"
    <3>1. <<call[d].at, call[d].key>> \in overtaken'
      BY <2>2 DEF Overtakes, InFlight
    <3>2. call'[d].at = call[d].at /\ call'[d].key = call[d].key
      BY DEF Others, Keeps
    <3>3. \A P : call[d].at \in P => \E e \in overtaken' : e[1] \in P
      BY <3>1
    <3>4. \A P : call[d].at \in P => Late(P)'
      BY <3>3 DEF Late
    <3> QED
      BY <3>1, <3>2, <3>4 DEF Carries, ToCache, ToScreen, ToHistory
  <2> QED
    BY <2>1, <2>2
<1> QED
  BY <1>1, <1>2, <1>3, <1>4

(* Lock, and the end of a switch and of a restore.  A patient user has     *)
(* nothing else in flight.                                                 *)
LEMMA WalletSteps ==
  ASSUME CallsFit
  PROVE  /\ Lock => Kept
         /\ \A c \in Calls : SwitchDone(c) \/ RestoreDone(c) => Kept
<1> USE DEF session, storage, chain, past
<1>1. /\ TypeOK /\ active \in Wallets
      /\ \A d \in Calls : Fits(d) /\ call[d] \in CallStates
  BY DEF CallsFit, TypeOK
<1>2. ASSUME Lock
      PROVE  Kept
  <2>1. /\ UNCHANGED <<listed, active, storage, chain, overtaken, mixed>>
        /\ MayChangeWallet /\ seed' = NoWallet /\ shown' = {} /\ transfers' = {}
        /\ screen' = "unlock" /\ call' = Unmounted
    BY <1>2 DEF Lock, Forget
  <2>2. ASSUME NEW d \in Calls
        PROVE  Keeps(d) /\ call'[d] \in CallStates
    <3>1. call' = [Unmounted EXCEPT ![d] = Unmounted[d]]
      BY <2>1 DEF Unmounted
    <3> DEFINE no == FALSE
    <3>2. Unmounted[d] = [call[d] EXCEPT !.here = no] /\ no \in BOOLEAN
      BY DEF Unmounted
    <3>3. call'[d] = Unmounted[d]
      BY <2>1
    <3> HIDE DEF no
    <3> QED
      BY <1>1, <3>2, <3>3 DEF CallStates, Keeps
  <2>3. call' \in [Calls -> CallStates]
    BY <2>1, <2>2 DEF Unmounted
  <2>4. TypeOK'
    BY <1>1, <2>1, <2>3, ApartTypes DEF TypeOK
  <2>5. \A d \in Calls : Fits(d)'
    BY <1>1, <2>1, <2>2 DEF Fits, Keeps
  <2>6. ASSUME Waits, overlaps' = 0
        PROVE  PatientInv'
    <3>0. overlaps \in Nat
      BY <1>1, SessionAssumption DEF TypeOK
    <3>1. PatientInv /\ InFlight = {}
      BY <2>1, <2>6, <3>0 DEF MayChangeWallet, Apart, Waits
    <3>2. \A d \in Calls : call'[d].at = "idle"
      BY <2>2, <3>1 DEF InFlight, Keeps
    <3>3. SessionHeld'
      BY <2>1, <3>1 DEF PatientInv, SessionHeld, HistoryInMemory
    <3> QED
      BY <2>4, <2>5, <3>2, <3>3, AllIdle DEF CallsFit
  <2>7. ASSUME OwnInv
        PROVE  OwnInv'
    <3>1. OwnState'
      BY <2>1, <2>7
         DEF OwnInv, OwnState, KeysOfActiveWallet, CachesStayOwn,
             SelectsOwnedOutputs, OwnTransfers, Late, Own
    <3>2. \A d \in Calls : Carries(d)'
      BY <2>1, <2>2, <2>7 DEF OwnInv, Keeps, Carries, Late, Own
    <3> QED
      BY <3>1, <3>2 DEF OwnInv
  <2> QED
    BY <2>4, <2>5, <2>6, <2>7 DEF Kept, Waits, CallsFit
<1>3. ASSUME NEW c \in Calls, call[c].at \in {"switch", "restore"}, PatientInv,
             Others(c), call'[c].at = "idle"
      PROVE  /\ \A d \in Calls : call'[d].at = "idle"
             /\ InFlight \ {c} = {}
  <2>1. c \in InFlight /\ ChangesWallet(c)
    BY <1>1, <1>3 DEF InFlight, ChangesWallet, Fits
  <2>2. \A d \in Calls \ {c} : call[d].at = "idle"
    BY <1>3, <2>1 DEF PatientInv, Undisturbed, InFlight
  <2> QED
    BY <1>3, <2>2 DEF Others, Keeps, InFlight
<1>4. ASSUME NEW c \in Calls, SwitchDone(c)
      PROVE  Kept
  <2>1. /\ call[c].at = "switch" /\ Return(c)
        /\ active' = call[c].key
        /\ seed' = NoWallet /\ shown' = {} /\ transfers' = {}
        /\ Overtakes(c)
        /\ UNCHANGED <<screen, listed, storage, chain, overlaps, later, mixed>>
    BY <1>4 DEF SwitchDone, Forget
  <2>2. /\ call' \in [Calls -> CallStates] /\ Others(c)
        /\ call'[c].kind = "none" /\ call'[c].at = "idle" /\ call'[c].got = {}
    BY <1>1, <2>1, Returns
  <2>3. call[c].key \in listed
    BY <1>1, <2>1 DEF Fits
  <2>4. RestOK' /\ Fits(c)'
    BY <1>1, <2>1, <2>2, <2>3, Overtaken DEF TypeOK, RestOK, Fits
  <2>5. CallsFit'
    BY <2>1, <2>2, <2>4, CallsStep
  <2>6. ASSUME PatientInv
        PROVE  PatientInv'
    <3>1. screen = "unlock"
      BY <2>1, <2>6 DEF PatientInv, Holds
    <3>2. overtaken' = {}
      BY <1>3, <2>1, <2>2, <2>6 DEF Overtakes, PatientInv, SessionHeld
    <3>3. SessionHeld'
      BY <2>1, <2>6, <3>1, <3>2 DEF PatientInv, SessionHeld, HistoryInMemory
    <3> QED
      BY <1>3, <2>1, <2>2, <2>5, <2>6, <3>3, AllIdle
  <2>7. ASSUME OwnInv
        PROVE  OwnInv'
    <3>1. \A P : Late(P) => Late(P)'
      BY <2>1, <2>2, Overtaken DEF Late
    <3>2. OwnState'
      BY <2>1, <2>7, <3>1
         DEF OwnInv, OwnState, KeysOfActiveWallet, CachesStayOwn,
             SelectsOwnedOutputs, OwnTransfers, Own
    <3> QED
      BY <2>1, <2>2, <3>2, Overtaken DEF OwnInv
  <2> QED
    BY <2>1, <2>5, <2>6, <2>7 DEF Kept, Waits
<1>5. ASSUME NEW c \in Calls, RestoreDone(c)
      PROVE  Kept
  <2>1. /\ call[c].at = "restore"
        /\ listed' = listed \cup {call[c].key}
        /\ active' = call[c].key /\ seed' = call[c].key
        /\ screen' = screen \/ screen' = "home"
        /\ call' = [Unmounted EXCEPT ![c] = Idle] \/ Return(c)
        /\ Overtakes(c)
        /\ mixed' = (mixed \/ shown \cup transfers # {})
        /\ UNCHANGED <<shown, transfers, storage, chain, overlaps, later>>
    BY <1>5 DEF RestoreDone
  <2>2. /\ Idle \in CallStates /\ Idle.kind = "none" /\ Idle.at = "idle"
        /\ Idle.got = {}
    BY DEF Idle, CallStates, Points
  <2>3. /\ call' \in [Calls -> CallStates] /\ Others(c)
        /\ call'[c].kind = "none" /\ call'[c].at = "idle" /\ call'[c].got = {}
    <3>1. CASE call' = [Unmounted EXCEPT ![c] = Idle]
      BY <1>1, <2>2, <3>1, Unmounts
    <3>2. CASE Return(c)
      BY <1>1, <3>2, Returns
    <3> QED
      BY <2>1, <3>1, <3>2
  <2>4. call[c].key \in Wallets
    BY <1>1, <2>1 DEF Fits
  <2>5. RestOK' /\ Fits(c)'
    <3>1. mixed' \in BOOLEAN
      BY <2>1
    <3>2. RestOK'
      BY <1>1, <2>1, <2>3, <2>4, <3>1, Overtaken DEF TypeOK, RestOK
    <3> QED
      BY <2>3, <3>2 DEF Fits
  <2>6. CallsFit'
    BY <2>1, <2>3, <2>5, CallsStep
  <2>7. ASSUME PatientInv
        PROVE  PatientInv'
    <3>1. call[c].key \notin listed
      BY <2>1, <2>7 DEF PatientInv, Holds
    <3>2. history[call[c].key] = {}
      BY <2>4, <2>7, <3>1 DEF PatientInv, SessionHeld, HistoryInMemory
    <3>3. HistoryInMemory'
      BY <2>1, <2>7, <3>2 DEF PatientInv, SessionHeld, HistoryInMemory
    <3>4. overtaken' = {}
      BY <1>3, <2>1, <2>3, <2>7 DEF Overtakes, PatientInv, SessionHeld
    <3>5. SessionHeld'
      BY <2>1, <3>3, <3>4 DEF SessionHeld
    <3> QED
      BY <1>3, <2>1, <2>3, <2>6, <2>7, <3>5, AllIdle
  <2>8. ASSUME OwnInv
        PROVE  OwnInv'
    <3>1. \A P : Late(P) => Late(P)'
      BY <2>1, <2>3, Overtaken DEF Late
    <3>2. KeysOfActiveWallet' /\ CachesStayOwn'
      BY <2>1, <2>8, <3>1
         DEF OwnInv, OwnState, KeysOfActiveWallet, CachesStayOwn,
             SelectsOwnedOutputs, Own
    <3>3. OwnTransfers'
      BY <2>1, <2>8, <3>1 DEF OwnInv, OwnState, OwnTransfers, Own
    <3> QED
      BY <2>1, <2>3, <3>2, <3>3, Overtaken DEF OwnInv, OwnState
  <2> QED
    BY <2>1, <2>6, <2>7, <2>8 DEF Kept, Waits
<1> QED
  BY <1>2, <1>4, <1>5

(* Steps that leave the session alone. *)
LEMMA OutsideSteps ==
  ASSUME CallsFit
  PROVE  /\ \A c \in Calls : LeaveScreen(c) \/ RestoreFails(c) => Kept
         /\ \A o \in Outputs : Receive(o) \/ Spend(o) \/ Evict(o) => Kept
         /\ UNCHANGED vars => Kept
<1> USE DEF session, storage, chain, past
<1>1. ASSUME NEW c \in Calls, LeaveScreen(c)
      PROVE  Kept
  <2>1. TypeOK /\ Fits(c) /\ call[c] \in CallStates
    BY DEF CallsFit, TypeOK
  <2> DEFINE no == FALSE
             r == [call[c] EXCEPT !.here = no]
  <2>2. /\ call' = [call EXCEPT ![c] = r] /\ no \in BOOLEAN
        /\ call[c].kind \in {"send", "restore"}
        /\ UNCHANGED <<screen, listed, session, storage, chain, past>>
    BY <1>1 DEF LeaveScreen
  <2> HIDE DEF no
  <2>3. /\ r \in CallStates /\ r.kind = call[c].kind /\ r.at = call[c].at
        /\ r.key = call[c].key /\ r.got = call[c].got /\ r.tx = call[c].tx
    BY <2>1, <2>2 DEF CallStates
  <2> HIDE DEF r
  <2>4. call' \in [Calls -> CallStates] /\ Keeps(c) /\ Others(c)
    BY <2>1, <2>2, <2>3 DEF TypeOK, Others, Keeps
  <2>5. RestOK' /\ Fits(c)'
    BY <2>1, <2>2, <2>4 DEF TypeOK, RestOK, Fits, Keeps
  <2>6. call[c].at # "idle"
    BY <2>1, <2>2 DEF Fits
  <2>7. PatientInv => Holds(c)'
    BY <2>2, <2>4 DEF PatientInv, Holds, Keeps
  <2>8. ASSUME OwnInv
        PROVE  Carries(c)' /\ OwnState'
    <3>1. Carries(c)'
      BY <2>2, <2>4, <2>8 DEF OwnInv, Carries, Keeps, Late, Own
    <3> QED
      BY <2>2, <2>8, <3>1, OwnStateKept DEF OwnInv
  <2> QED
    BY <2>2, <2>4, <2>5, <2>6, <2>7, <2>8, AwaitStep DEF Keeps, Loading
<1>2. ASSUME NEW c \in Calls, RestoreFails(c)
      PROVE  Kept
  BY <1>2, EndStep DEF RestoreFails, Loading, CallsFit, Fits
<1>3. ASSUME UNCHANGED <<screen, listed, session, storage, call, past>>,
             mined' \subseteq Outputs, spent' \subseteq mined', pool' \subseteq mined'
      PROVE  Kept
  <2>1. CallsFit'
    BY <1>3 DEF CallsFit, TypeOK, Fits
  <2>2. PatientInv => PatientInv'
    BY <1>3 DEF PatientInv, Undisturbed, InFlight, ChangesWallet, Holds,
                SessionHeld, HistoryInMemory, Loading
  <2>3. ASSUME OwnInv
        PROVE  OwnInv'
    <3>1. OwnState'
      BY <1>3, <2>3, OwnStateKept DEF OwnInv
    <3>2. \A d \in Calls : Carries(d)'
      BY <1>3, <2>3 DEF OwnInv, Carries, Late, Own
    <3> QED
      BY <3>1, <3>2 DEF OwnInv
  <2> QED
    BY <1>3, <2>1, <2>2, <2>3 DEF Kept, Waits
<1>4. mined \subseteq Outputs /\ spent \subseteq mined /\ pool \subseteq mined
  BY DEF CallsFit, TypeOK
<1>5. ASSUME NEW o \in Outputs, Receive(o) \/ Spend(o) \/ Evict(o)
      PROVE  Kept
  BY <1>3, <1>4, <1>5 DEF Receive, Spend, Evict
<1>6. ASSUME UNCHANGED vars
      PROVE  Kept
  BY <1>3, <1>4, <1>6 DEF vars
<1> QED
  BY <1>1, <1>2, <1>5, <1>6
-----------------------------------------------------------------------------
LEMMA SessionStep == CallsFit /\ [Next]_vars => Kept
BY BeginSteps, ScanSteps, UnlockSteps, SendSteps, RecordStep, WalletSteps,
   OutsideSteps DEF Next

(* A service that has just started holds no keys and shows nothing.        *)
LEMMA SessionInit == Init => CallsFit /\ PatientInv /\ OwnInv
<1> SUFFICES ASSUME Init
             PROVE  CallsFit /\ PatientInv /\ OwnInv
  OBVIOUS
<1> USE DEF Init
<1>1. /\ Idle \in CallStates /\ Idle.kind = "none" /\ Idle.at = "idle"
      /\ Idle.got = {}
  BY DEF Idle, CallStates, Points
<1>2. /\ call \in [Calls -> CallStates]
      /\ \A c \in Calls : call[c] = Idle
  BY <1>1
<1>3. TypeOK
  <2>1. overlaps \in 0..MaxOverlaps /\ later \in 0..MaxLater
    BY SessionAssumption
  <2>2. overtaken \subseteq Points \X (Wallets \cup {NoWallet})
    OBVIOUS
  <2> QED
    BY <1>2, <2>1, <2>2 DEF TypeOK
<1>4. \A c \in Calls : Fits(c) /\ Holds(c) /\ Carries(c)
  BY <1>1, <1>2 DEF Fits, Holds, Carries
<1>5. Undisturbed
  BY <1>1, <1>2 DEF Undisturbed, InFlight
<1>6. SessionHeld
  <2>1. NoWallet # active /\ screen # "home"
    BY SessionAssumption
  <2> QED
    BY <2>1 DEF SessionHeld, HistoryInMemory
<1>7. OwnState
  BY DEF OwnState, KeysOfActiveWallet, CachesStayOwn, SelectsOwnedOutputs,
         OwnTransfers
<1> QED
  BY <1>3, <1>4, <1>5, <1>6, <1>7 DEF CallsFit, PatientInv, OwnInv

(* The types, and which call awaits what, hold however the user behaves:   *)
(* the active wallet is always one of the list's.                          *)
THEOREM SessionTypeCorrect == Spec => []TypeOK
<1>1. CallsFit /\ [Next]_vars => CallsFit'
  BY SessionStep DEF Kept
<1>2. CallsFit => TypeOK
  BY DEF CallsFit
<1> QED
  BY <1>1, <1>2, SessionInit, PTL DEF Spec

(* However calls overlap, what the session, the storage and the calls in   *)
(* flight hold is the active wallet's, unless a call that carries keys,    *)
(* outputs or a transfer was overtaken by a change of wallet.              *)
THEOREM OwnInvariant == Spec => [](CallsFit /\ OwnInv)
<1>1. CallsFit /\ OwnInv /\ [Next]_vars => CallsFit' /\ OwnInv'
  BY SessionStep DEF Kept
<1> QED
  BY <1>1, SessionInit, PTL DEF Spec

(* Another wallet's outputs get into a cache only by a call overtaken      *)
(* while it decrypted, walked the chain or was about to write the cache    *)
(* back.                                                                   *)
THEOREM CachesAreOwn == Spec => []CachesStayOwn
<1>1. OwnInv => CachesStayOwn
  BY DEF OwnInv, OwnState
<1> QED
  BY <1>1, OwnInvariant, PTL

(* Keys in memory that are not the active wallet's are those of a wallet   *)
(* whose unlock was overtaken, for every user.                             *)
THEOREM KeysAreActive == Spec => []KeysOfActiveWallet
<1>1. OwnInv => KeysOfActiveWallet
  BY DEF OwnInv, OwnState
<1> QED
  BY <1>1, OwnInvariant, PTL

(* What is shown and recorded is the active wallet's, for every user,      *)
(* unless a call was overtaken with it or a restore took it over.          *)
THEOREM TransfersAreOwn == Spec => []OwnTransfers
<1>1. OwnInv => OwnTransfers
  BY DEF OwnInv, OwnState
<1> QED
  BY <1>1, OwnInvariant, PTL

(* For the user who has waited so far, the session is one wallet's from    *)
(* the start of every call to its end, and nothing was overtaken.          *)
THEOREM PatientInvariant == Spec => [](CallsFit /\ Waits)
<1>1. CallsFit /\ Waits /\ [Next]_vars => CallsFit' /\ Waits'
  BY SessionStep DEF Kept
<1>2. PatientInv => Waits
  BY DEF Waits
<1> QED
  BY <1>1, <1>2, SessionInit, PTL DEF Spec

(* The cached set sendTransaction selects from holds the wallet's own      *)
(* outputs, although the wallet is named after the walk, as long as the    *)
(* user waits.                                                             *)
THEOREM PatientSelectsOwned == Spec => [](overlaps = 0 => SelectsOwnedOutputs)
<1>1. Waits /\ OwnInv => (overlaps = 0 => SelectsOwnedOutputs)
  BY DEF Waits, PatientInv, SessionHeld, OwnInv, OwnState, CachesStayOwn, Late
<1> QED
  BY <1>1, OwnInvariant, PatientInvariant, PTL

(* No recorded transfer is ever lost, although recordSentTransfer replaces *)
(* the whole history by the list in memory: that list holds all of it.     *)
THEOREM PatientHistory == Spec => HistoryGrows
<1>1. CallsFit /\ Waits /\ [Next]_vars =>
        [overlaps = 0 => \A w \in Wallets : history[w] \subseteq history'[w]]_vars
  <2> SUFFICES ASSUME CallsFit, PatientInv, [Next]_vars
               PROVE  \A w \in Wallets : history[w] \subseteq history'[w]
    BY DEF Waits
  <2>1. ASSUME NEW c \in Calls, SendReturned(c)
        PROVE  \A w \in Wallets : history[w] \subseteq history'[w]
    BY <2>1, RecordStep
  <2>2. CASE \A c \in Calls : ~SendReturned(c)
    <3>1. history' = history
      BY <2>2, ZenonT(60)
      DEF Next, UnlockStart, Decrypted, WrongPassword, RefreshStart,
           CacheLoaded, TipRead, ScanFails, ScanReturned, ScanStored,
           HistoryLoaded, SendStart, BalanceRead, OutputsRead, SendFails,
           NodeAccepts, SpentRead, SpentDropped, LeaveScreen, SwitchDone,
           RestoreDone, RestoreFails, SwitchStart, RestoreStart, Lock, Receive,
           Spend, Evict, storage, vars
    <3> QED
      BY <3>1
  <2> QED
    BY <2>1, <2>2
<1> QED
  BY <1>1, PatientInvariant, PTL DEF Spec, HistoryGrows
=============================================================================
