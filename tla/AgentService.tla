---------------------------- MODULE AgentService -----------------------------
(***************************************************************************)
(* The payout agent as an HTTP service: Agent::open, AgentService::respond *)
(* on the server's threads, and the handlers' conversation with a node     *)
(* through RpcClient.  health and status are modelled call by call; submit *)
(* ends with the calls of status, and what it does before them is          *)
(* PayoutAgent's.  The server hands over requests and cuts a body that     *)
(* does not arrive in time (external).                                     *)
(***************************************************************************)
EXTENDS RpcClient

CONSTANTS
  Workers,    \* threads of the server
  Requests,   \* what peers send: method, path, token, body
  Configs     \* command lines the agent is started with

VARIABLES
  config,     \* of the running agent
  work        \* per thread: where it is, the request, the response

vars == <<node, stream, config, work>>

Routes == {"health", "submit", "status"}
Points == {"dial", "pin", "info", "location", "tip", "mempool"}
NoRequest ==
  [method |-> "none", path |-> "none", token |-> "none", body |-> "none"]
Idle == [at |-> "idle", req |-> NoRequest, code |-> 0, ok |-> FALSE, heard |-> {}]
-----------------------------------------------------------------------------
(* What parse_args, load_seed, load_token and Agent::open ask for.         *)
Opens(c) ==
  /\ c.loopback /\ c.fee > 0 /\ c.ring >= 2
  /\ c.network \in {"mainnet", "testnet", "devnet"}
  /\ c.seedBytes = 64 /\ c.tokenLength \in 32..256

Init ==
  /\ StreamInit
  /\ config \in {c \in Configs : Opens(c)}
  /\ work = [w \in Workers |-> Idle]

At(w, point) == work[w].at = point

Reply(w, code) ==
  work' = [work EXCEPT ![w].at = "reply", ![w].code = code, ![w].ok = FALSE]
Go(w, point) == work' = [work EXCEPT ![w].at = point]

(* Method, route and the presence of a token are looked at first. *)
Receive(w, r) ==
  /\ At(w, "idle")
  /\ LET Now(at, code) ==
           work' = [work EXCEPT ![w] = [Idle EXCEPT !.at = at, !.req = r, !.code = code]]
     IN  IF r.method # "POST" THEN Now("reply", 405)
         ELSE IF r.path \notin Routes THEN Now("reply", 404)
         ELSE IF r.token = "none" THEN Now("reply", 401)
         ELSE Now("body", 0)
  /\ UNCHANGED <<node, stream, config>>

(* The body is read to its end, its limit or its deadline. *)
ReadBody(w) ==
  /\ At(w, "body")
  /\ IF work[w].req.body = "torn" THEN Reply(w, 400) ELSE Go(w, "lock")
  /\ UNCHANGED <<node, stream, config>>

MayLock == \A w \in Workers : work[w].at \notin Points

(* Mutant: any token will do. *)
AnyToken(r) == r.token # "none"

(* constant_time_eq with the agent's token. *)
Authorised(r) == r.token = "right"

(* decode and check_version; a body that decodes has the fields of its     *)
(* route.                                                                  *)
Understood(r) == r.body = "current"

(* Under the mutex: token, body, version, then the handler, which refuses  *)
(* on its own (validation, an unknown intent) or calls the node.           *)
Lock(w) ==
  /\ At(w, "lock") /\ MayLock
  /\ LET r == work[w].req
     IN  IF ~Authorised(r) THEN Reply(w, 401)
         ELSE IF ~Understood(r) THEN Reply(w, 400)
         ELSE \/ r.path # "health" /\ Reply(w, 200)
              \/ Go(w, "dial")
  /\ UNCHANGED <<node, stream, config>>
-----------------------------------------------------------------------------
Connects(w) ==
  /\ At(w, "dial") /\ Dial
  /\ Go(w, "pin")
  /\ UNCHANGED config

Method(point) == CASE point \in {"pin", "info", "tip"} -> "get_chain_info"
                   [] point = "location" -> "get_tx_location"
                   [] point = "mempool" -> "get_mempool"

(* The call of a point begins once the answer before it was followed. *)
Calls(w) ==
  /\ work[w].at \in Points \ {"dial"}
  /\ Send(Method(work[w].at))
  /\ UNCHANGED <<config, work>>

Reads(w) ==
  /\ work[w].at \in Points /\ ReadPart
  /\ UNCHANGED <<config, work>>

(* Mutant: connect does not look at the identity. *)
PinUnchecked(point, path, reply) ==
  IF reply.body = "error" THEN {"error"} ELSE
  CASE point = "pin" -> {IF path = "health" THEN "info" ELSE "location"}
    [] point = "info" -> {IF Verified(reply.from) THEN "ok" ELSE "error"}
    [] point = "location" -> {IF reply.body = "found" THEN "tip" ELSE "mempool"}
    [] point = "tip" -> {"ok", "error"}
    [] point = "mempool" -> {"ok"}

(* Where the handler goes with a response: connect verifies the identity,  *)
(* health verifies it again (get_chain_status); transaction_status asks    *)
(* for the tip, which may be below the block found, or for the mempool.    *)
After(point, path, reply) ==
  IF reply.body = "error" THEN {"error"} ELSE
  CASE point = "pin" ->
         {IF ~Verified(reply.from) THEN "error"
          ELSE IF path = "health" THEN "info" ELSE "location"}
    [] point = "info" -> {IF Verified(reply.from) THEN "ok" ELSE "error"}
    [] point = "location" -> {IF reply.body = "found" THEN "tip" ELSE "mempool"}
    [] point = "tip" -> {"ok", "error"}
    [] point = "mempool" -> {"ok"}

(* The handler follows the response: to its next call, or to the end of    *)
(* the exchange, where the mutex is released.                              *)
Takes(w) ==
  /\ work[w].at \in Points /\ Arrived
  /\ \E next \in After(work[w].at, work[w].req.path, Head(wire)) :
       LET last == next \notin Points
           heard == work[w].heard \cup {Head(wire).from}
       IN  /\ Take(last)
           /\ work' = [work EXCEPT ![w].heard = heard,
                                   ![w].at = IF last THEN "reply" ELSE next,
                                   ![w].code = IF last THEN 200 ELSE 0,
                                   ![w].ok = (next = "ok")]
  /\ UNCHANGED config

(* Mutant: the handler tries again, under the mutex, until it succeeds. *)
FailsNever(w) ==
  /\ work[w].at \in Points
  /\ Dropped /\ Go(w, "dial")
  /\ UNCHANGED config

(* Mutant: a location that does not come counts as none, the client is kept. *)
Swallows(w) ==
  /\ work[w].at \in Points
  /\ IF At(w, "location") /\ call # NoCall
     THEN /\ call' = NoCall /\ Go(w, "mempool")
          /\ UNCHANGED <<node, conn, nextId, asked, wire, taken>>
     ELSE Dropped /\ Reply(w, 200)
  /\ UNCHANGED config

(* Connecting, writing or reading fails or exceeds its timeout, or the     *)
(* frame is too large: the client is dropped, the agent reports the error. *)
Fails(w) ==
  /\ work[w].at \in Points
  /\ Dropped /\ Reply(w, 200)
  /\ UNCHANGED config

(* The response is written. *)
Responds(w) ==
  /\ At(w, "reply")
  /\ work' = [work EXCEPT ![w] = Idle]
  /\ UNCHANGED <<node, stream, config>>

Handles(w) ==
  Connects(w) \/ Calls(w) \/ Reads(w) \/ Takes(w) \/ Fails(w)

NodeActs == (NodeAnswers \/ NodeSwapped) /\ UNCHANGED <<config, work>>

Next ==
  \/ \E w \in Workers :
       \/ \E r \in Requests : Receive(w, r)
       \/ ReadBody(w) \/ Lock(w) \/ Responds(w)
       \/ Connects(w) \/ Calls(w) \/ Reads(w) \/ Takes(w) \/ Fails(w)
  \/ NodeActs

(* Threads run, and the mutex does not pass over a waiting thread for      *)
(* ever.  Nothing is assumed of the node or of the peers.                  *)
Fairness ==
  \A w \in Workers :
    /\ WF_vars(ReadBody(w)) /\ SF_vars(Lock(w)) /\ WF_vars(Responds(w))
    /\ WF_vars(Handles(w))

Spec == Init /\ [][Next]_vars /\ Fairness
-----------------------------------------------------------------------------
(* Every variable holds a value of its type, and a client exists exactly   *)
(* while a handler converses.                                              *)
TypeOK ==
  /\ claim \in Claims /\ swaps \in 0..MaxSwaps /\ config \in Configs
  /\ conn \in {"closed", "open", "lost"} /\ nextId \in 1..5
  /\ \A w \in Workers :
       /\ work[w].at \in Points \cup {"idle", "body", "lock", "reply"}
       /\ work[w].code \in {0, 200, 400, 401, 404, 405}
  /\ conn # "closed" <=> \E w \in Workers : work[w].at \in Points \ {"dial"}

(* Although no id is ever compared, what a call takes for its response is  *)
(* the node's answer to that very request, however late answers come and   *)
(* whatever calls failed before.                                           *)
AnswersMatch ==
  taken[1].id = taken[2].id /\ taken[1].method = taken[2].method

(* What the agent reports as done or observed it learned from nodes of a   *)
(* pinned chain only, whichever nodes took each other's place between two  *)
(* connections.                                                            *)
LearnedFromPinned ==
  \A w \in Workers :
    At(w, "reply") /\ work[w].ok =>
      work[w].heard # {} /\ \A c \in work[w].heard : Verified(c)

(* 200 is the agent's own verdict: it is given for exactly the requests    *)
(* with the method, a route, the token and a body of this version, and for *)
(* no other request is anything asked of a node.                           *)
VerdictIsTheAgents ==
  \A w \in Workers :
    LET r == work[w].req
        proper == /\ r.method = "POST" /\ r.path \in Routes
                  /\ r.token = "right" /\ r.body = "current"
    IN  /\ work[w].at \in Points => proper
        /\ At(w, "reply") => (work[w].code = 200 <=> proper)

(* Every request is answered in the end, whatever the node does or fails   *)
(* to do: one that goes silent while a handler holds the mutex does not    *)
(* keep the others waiting for ever.                                       *)
EveryRequestAnswered ==
  \A w \in Workers : At(w, "lock") ~> At(w, "idle")
=============================================================================
