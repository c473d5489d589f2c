--------------------------- MODULE MCAgentService ----------------------------
(* Instances of AgentService for TLC. *)
EXTENDS AgentService, TLC

(* A node of a pinned chain, and one of another chain under its name.      *)
SomeClaims ==
  {Honest("devnet"), [Honest("devnet") EXCEPT !.genesis = "other"]}

Proper(path) ==
  [method |-> "POST", path |-> path, token |-> "right", body |-> "current"]

(* A proper request of each route, and one for each way to fail, alone and *)
(* where two checks compete.                                               *)
SomeRequests ==
  LET p == Proper("health")
  IN  {Proper("health"), Proper("status"), Proper("submit"),
       [p EXCEPT !.method = "GET"],
       [p EXCEPT !.path = "other"], [p EXCEPT !.token = "none"],
       [p EXCEPT !.token = "wrong"], [p EXCEPT !.body = "torn"],
       [p EXCEPT !.body = "old"], [p EXCEPT !.token = "wrong", !.body = "old"]}

Fine == [loopback |-> TRUE, fee |-> 1, ring |-> 4, network |-> "devnet",
         seedBytes |-> 64, tokenLength |-> 32]
SomeConfigs == {Fine, [Fine EXCEPT !.fee = 0], [Fine EXCEPT !.ring = 1]}
=============================================================================
