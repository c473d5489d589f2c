------------------------- MODULE AgentServiceProofs -------------------------
(* Theorems about AgentService, for every choice of its constants. *)
EXTENDS AgentService, SequenceTheorems, TLAPS

Methods == {"get_chain_info", "get_tx_location", "get_mempool"}

(* A request and a response on the stream. *)
Asks == [id : Nat, method : Methods]
Frames == [id : Nat, method : Methods,
           body : {"error", "info", "found", "missing", "listed"},
           from : Claims, reads : Nat]

(* What a thread remembers. *)
Works == [at : Points \cup {"idle", "body", "lock", "reply"},
          req : Requests \cup {NoRequest}, code : {0, 200, 400, 401, 404, 405},
          ok : BOOLEAN, heard : SUBSET Claims]

(* The id of the call made at a point of the handler. *)
CallId(point) == CASE point = "pin" -> 1
                   [] point \in {"info", "location"} -> 2
                   [] point \in {"tip", "mempool"} -> 3

Typed ==
  /\ claim \in Claims /\ swaps \in 0..MaxSwaps /\ config \in Configs
  /\ conn \in {"closed", "open", "lost"} /\ nextId \in 1..4
  /\ work \in [Workers -> Works]
  /\ asked \in Seq(Asks) /\ wire \in Seq(Frames)

(* The mutex: one thread at most converses with the node. *)
MutexInv ==
  \A v, w \in Workers :
    work[v].at \in Points /\ work[w].at \in Points => v = w

(* There is no client unless a handler has one. *)
NoClient == /\ conn = "closed" /\ nextId = 1 /\ call = NoCall
            /\ asked = <<>> /\ wire = <<>>

(* Where the conversation of a handler is: the call of its point is still  *)
(* to be made, or it is the one call that is awaited.                      *)
ConversationInv ==
  /\ (\A w \in Workers : work[w].at \notin Points) => NoClient
  /\ \A w \in Workers :
       /\ work[w].at = "dial" => NoClient
       /\ work[w].at \in Points \ {"dial"} =>
            LET id == CallId(work[w].at)
            IN  /\ conn # "closed"
                /\ \/ call = NoCall /\ nextId = id
                   \/ /\ call = [id |-> id, method |-> Method(work[w].at)]
                      /\ nextId = id + 1

(* One request at most is on its way, as a request or as its response, and *)
(* only while the node that was dialled is there.                          *)
StreamInv ==
  /\ Len(asked) + Len(wire) <= 1
  /\ call = NoCall \/ conn # "open" => asked = <<>> /\ wire = <<>>
  /\ asked # <<>> => asked[1] = call
  /\ wire # <<>> => /\ wire[1].id = call.id /\ wire[1].method = call.method
                    /\ wire[1].from = claim

(* A handler past connect has heard from verified nodes only, and from no  *)
(* other node than the one it is connected to.                             *)
HeardInv ==
  \A w \in Workers :
    /\ work[w].at \in {"idle", "body", "lock", "dial", "pin"} =>
         work[w].heard = {}
    /\ work[w].at \in Points \ {"dial", "pin"} =>
         /\ work[w].heard # {} /\ \A c \in work[w].heard : Verified(c)
         /\ conn = "open" => work[w].heard = {claim}

(* What is known of a request on its way to the lock. *)
RoutedInv ==
  \A w \in Workers :
    work[w].at \in {"body", "lock"} =>
      work[w].req.method = "POST" /\ work[w].req.path \in Routes

ServiceInv ==
  /\ Typed /\ MutexInv /\ ConversationInv /\ StreamInv /\ HeardInv /\ RoutedInv
  /\ AnswersMatch /\ LearnedFromPinned /\ VerdictIsTheAgents
-----------------------------------------------------------------------------
(* What a thread remembers after it prepared a response. *)
LEMMA ReplyChange ==
  ASSUME Typed, NEW w \in Workers, NEW code \in {0, 200, 400, 401, 404, 405},
         Reply(w, code)
  PROVE  /\ work' \in [Workers -> Works]
         /\ work'[w].at = "reply" /\ work'[w].req = work[w].req
         /\ work'[w].code = code /\ ~work'[w].ok
         /\ \A v \in Workers \ {w} : work'[v] = work[v]
<1> DEFINE f == [work EXCEPT ![w].at = "reply"]
           g == [f EXCEPT ![w].code = code]
           no == FALSE
           h == [g EXCEPT ![w].ok = no]
<1>1. work' = h
  BY DEF Reply
<1>a. no \in BOOLEAN /\ ~no
  OBVIOUS
<1> HIDE DEF no
<1>2. /\ f \in [Workers -> Works]
      /\ f[w] = [at |-> "reply", req |-> work[w].req, code |-> work[w].code,
                 ok |-> work[w].ok, heard |-> work[w].heard]
      /\ \A v \in Workers \ {w} : f[v] = work[v]
  BY DEF Typed, Works
<1> HIDE DEF f
<1>3. /\ g \in [Workers -> Works]
      /\ g[w] = [at |-> "reply", req |-> work[w].req, code |-> code,
                 ok |-> work[w].ok, heard |-> work[w].heard]
      /\ \A v \in Workers \ {w} : g[v] = f[v]
  BY <1>2 DEF Works
<1> HIDE DEF g
<1>4. /\ h \in [Workers -> Works]
      /\ h[w] = [at |-> "reply", req |-> work[w].req, code |-> code,
                 ok |-> no, heard |-> work[w].heard]
      /\ \A v \in Workers \ {w} : h[v] = g[v]
  BY <1>a, <1>3 DEF Works
<1> HIDE DEF h
<1> QED
  BY <1>a, <1>1, <1>2, <1>3, <1>4

(* What it remembers after it went on to another point. *)
LEMMA GoChange ==
  ASSUME Typed, NEW w \in Workers, NEW point \in Points \cup {"lock"},
         Go(w, point)
  PROVE  /\ work' \in [Workers -> Works]
         /\ work'[w].at = point /\ work'[w].heard = work[w].heard
         /\ work'[w] = [at |-> point, req |-> work[w].req,
                        code |-> work[w].code, ok |-> work[w].ok,
                        heard |-> work[w].heard]
         /\ \A v \in Workers \ {w} : work'[v] = work[v]
BY DEF Typed, Works, Go

(* What it remembers of a request it has just received. *)
LEMMA ReceiveChange ==
  ASSUME Typed, NEW w \in Workers, NEW r \in Requests, Receive(w, r)
  PROVE  /\ work' \in [Workers -> Works]
         /\ work'[w].at \in {"body", "reply"}
         /\ work'[w].at = "body" => r.method = "POST" /\ r.path \in Routes
         /\ work'[w].at = "reply" => /\ work'[w].code \in {401, 404, 405}
                                     /\ \/ r.method # "POST"
                                        \/ r.path \notin Routes
                                        \/ r.token = "none"
         /\ work'[w].req = r /\ ~work'[w].ok /\ work'[w].heard = {}
         /\ \A v \in Workers \ {w} : work'[v] = work[v]
<1> DEFINE New(at, code) == [Idle EXCEPT !.at = at, !.req = r, !.code = code]
<1>1. ASSUME NEW at \in {"body", "reply"}, NEW code \in {0, 401, 404, 405}
      PROVE  /\ New(at, code) \in Works
             /\ New(at, code).at = at /\ New(at, code).req = r
             /\ New(at, code).code = code /\ ~New(at, code).ok
             /\ New(at, code).heard = {}
  <2>1. Idle \in Works /\ ~Idle.ok /\ Idle.heard = {}
    BY DEF Idle, Works
  <2> DEFINE a == [Idle EXCEPT !.at = at]
             b == [a EXCEPT !.req = r]
             c == [b EXCEPT !.code = code]
  <2>2. a \in Works /\ a.at = at /\ ~a.ok /\ a.heard = {}
    BY <2>1 DEF Works
  <2> HIDE DEF a
  <2>3. b \in Works /\ b.at = at /\ b.req = r /\ ~b.ok /\ b.heard = {}
    BY <2>2 DEF Works
  <2> HIDE DEF b
  <2>4. /\ c \in Works /\ c.at = at /\ c.req = r /\ c.code = code
        /\ ~c.ok /\ c.heard = {}
    BY <2>3 DEF Works
  <2> QED
    BY <2>4 DEF a, b
<1> HIDE DEF New
<1>2. CASE r.method # "POST"
  <2>1. work' = [work EXCEPT ![w] = New("reply", 405)]
    BY <1>2 DEF Receive, New
  <2> QED
    BY <1>1, <1>2, <2>1 DEF Typed, Works
<1>3. CASE r.method = "POST" /\ r.path \notin Routes
  <2>1. work' = [work EXCEPT ![w] = New("reply", 404)]
    BY <1>3 DEF Receive, New
  <2> QED
    BY <1>1, <1>3, <2>1 DEF Typed, Works
<1>4. CASE r.method = "POST" /\ r.path \in Routes /\ r.token = "none"
  <2>1. work' = [work EXCEPT ![w] = New("reply", 401)]
    BY <1>4 DEF Receive, New
  <2> QED
    BY <1>1, <1>4, <2>1 DEF Typed, Works
<1>5. CASE r.method = "POST" /\ r.path \in Routes /\ r.token # "none"
  <2>1. work' = [work EXCEPT ![w] = New("body", 0)]
    BY <1>5 DEF Receive, New
  <2> QED
    BY <1>1, <1>5, <2>1 DEF Typed, Works
<1> QED
  BY <1>2, <1>3, <1>4, <1>5

(* Where a response leads, point by point: past connect only if the node   *)
(* that answered is verified, and to a success only from the last calls.   *)
LEMMA Following ==
  ASSUME NEW point \in Points \ {"dial"}, NEW path, NEW reply,
         NEW to \in After(point, path, reply)
  PROVE  /\ to \in (Points \ {"dial", "pin"}) \cup {"ok", "error"}
         /\ point = "pin" /\ to # "error" =>
              Verified(reply.from) /\ to \in {"info", "location"}
         /\ point \in {"info", "tip", "mempool"} => to \in {"ok", "error"}
         /\ point = "location" => to \in {"tip", "mempool", "error"}
<1>1. CASE reply.body = "error"
  BY <1>1 DEF After
<1>2. CASE reply.body # "error" /\ point = "pin"
  BY <1>2 DEF After, Points
<1>3. CASE reply.body # "error" /\ point = "info"
  BY <1>3 DEF After, Points
<1>4. CASE reply.body # "error" /\ point = "location"
  BY <1>4 DEF After, Points
<1>5. CASE reply.body # "error" /\ point = "tip"
  BY <1>5 DEF After, Points
<1>6. CASE reply.body # "error" /\ point = "mempool"
  BY <1>6 DEF After, Points
<1> QED
  BY <1>1, <1>2, <1>3, <1>4, <1>5, <1>6 DEF Points

(* Where a response takes the handler, and what it remembers there. *)
LEMMA TakesChange ==
  ASSUME Typed, ConversationInv, NEW w \in Workers, Takes(w)
  PROVE  \E to \in After(work[w].at, work[w].req.path, Head(wire)) :
           LET last == to \notin Points
           IN  /\ Take(last)
               /\ to \in Points \cup {"ok", "error"}
               /\ work' \in [Workers -> Works]
               /\ work'[w].at = IF last THEN "reply" ELSE to
               /\ work'[w] = [at |-> IF last THEN "reply" ELSE to,
                              req |-> work[w].req,
                              code |-> IF last THEN 200 ELSE 0,
                              ok |-> (to = "ok"),
                              heard |-> work[w].heard \cup {Head(wire).from}]
               /\ \A v \in Workers \ {w} : work'[v] = work[v]
<1>1. PICK to \in After(work[w].at, work[w].req.path, Head(wire)) :
        LET last == to \notin Points
        IN  /\ Take(last)
            /\ work' = [work EXCEPT
                          ![w].heard = work[w].heard \cup {Head(wire).from},
                          ![w].at = IF last THEN "reply" ELSE to,
                          ![w].code = IF last THEN 200 ELSE 0,
                          ![w].ok = (to = "ok")]
  BY DEF Takes
<1>2. work[w].at \in Points \ {"dial"}
  BY DEF Takes, Arrived, ConversationInv, NoClient
<1>3. wire # <<>> /\ Head(wire) \in Frames
  BY DEF Takes, Arrived, Typed
<1>4. Head(wire).from \in Claims
  BY <1>3 DEF Frames
<1>5. to \in Points \cup {"ok", "error"}
  BY <1>2, Following
<1> DEFINE last == to \notin Points
           at == IF last THEN "reply" ELSE to
           code == IF last THEN 200 ELSE 0
           heard == work[w].heard \cup {Head(wire).from}
           f == [work EXCEPT ![w].heard = heard]
           g == [f EXCEPT ![w].at = at]
           h == [g EXCEPT ![w].code = code]
           won == (to = "ok")
           k == [h EXCEPT ![w].ok = won]
<1>6. work' = k
  BY <1>1
<1>7. heard \in SUBSET Claims
  BY <1>4 DEF Typed, Works
<1>8. at \in Points \cup {"reply"} /\ code \in {0, 200}
  OBVIOUS
<1>c. won \in BOOLEAN
  OBVIOUS
<1> HIDE DEF heard, at, code, won
<1>9. /\ f \in [Workers -> Works]
      /\ f[w] = [at |-> work[w].at, req |-> work[w].req, code |-> work[w].code,
                 ok |-> work[w].ok, heard |-> heard]
      /\ \A v \in Workers \ {w} : f[v] = work[v]
  BY <1>7 DEF Typed, Works
<1> HIDE DEF f
<1>10. /\ g \in [Workers -> Works]
       /\ g[w] = [at |-> at, req |-> work[w].req, code |-> work[w].code,
                  ok |-> work[w].ok, heard |-> heard]
       /\ \A v \in Workers \ {w} : g[v] = f[v]
  BY <1>8, <1>9 DEF Works
<1> HIDE DEF g
<1>11. /\ h \in [Workers -> Works]
       /\ h[w] = [at |-> at, req |-> work[w].req, code |-> code,
                  ok |-> work[w].ok, heard |-> heard]
       /\ \A v \in Workers \ {w} : h[v] = g[v]
  BY <1>8, <1>10 DEF Works
<1> HIDE DEF h
<1>12. /\ k \in [Workers -> Works]
       /\ k[w] = [at |-> at, req |-> work[w].req, code |-> code,
                  ok |-> won, heard |-> heard]
       /\ \A v \in Workers \ {w} : k[v] = h[v]
  BY <1>c, <1>11 DEF Works
<1>13. work' \in [Workers -> Works] /\ work'[w] = k[w]
       /\ \A v \in Workers \ {w} : work'[v] = work[v]
  BY <1>6, <1>9, <1>10, <1>11, <1>12
<1> HIDE DEF k
<1>14. k[w].at = at
  BY <1>12
<1>15. /\ Take(last) /\ to \in Points \cup {"ok", "error"}
       /\ work' \in [Workers -> Works]
       /\ work'[w].at = IF last THEN "reply" ELSE to
       /\ work'[w] = [at |-> IF last THEN "reply" ELSE to,
                      req |-> work[w].req,
                      code |-> IF last THEN 200 ELSE 0,
                      ok |-> (to = "ok"),
                      heard |-> work[w].heard \cup {Head(wire).from}]
       /\ \A v \in Workers \ {w} : work'[v] = work[v]
  BY <1>1, <1>5, <1>12, <1>13, <1>14 DEF at, code, heard, won
<1> QED
  BY <1>15

(* The response the node sends to the oldest request. *)
LEMMA AnswerIsFrame ==
  ASSUME Typed, asked # <<>>, NEW body \in Bodies(Head(asked).method),
         NEW reads \in 1..(MaxFrame + 1)
  PROVE  [id |-> Head(asked).id, method |-> Head(asked).method,
          body |-> body, from |-> claim, reads |-> reads] \in Frames
<1>1. Head(asked) \in Asks
  BY DEF Typed
<1>2. body \in {"error", "info", "found", "missing", "listed"}
  BY <1>1 DEF Asks, Methods, Bodies
<1>3. reads \in Nat
  BY RpcAssumption
<1> QED
  BY <1>1, <1>2, <1>3 DEF Asks, Frames, Typed

(* The awaited call of a handler is a request of one of the methods. *)
LEMMA CallIsAsk ==
  ASSUME NEW point \in Points \ {"dial"}
  PROVE  /\ CallId(point) \in 1..3
         /\ Method(point) \in Methods
BY DEF Points, CallId, Method, Methods

(* What ConversationInv says of a handler that is connected. *)
LEMMA AtPoint ==
  ASSUME ConversationInv, NEW w \in Workers, work[w].at \in Points \ {"dial"}
  PROVE  /\ conn # "closed"
         /\ call = NoCall => nextId = CallId(work[w].at)
         /\ call # NoCall => /\ call.id = CallId(work[w].at)
                             /\ call.method = Method(work[w].at)
                             /\ nextId = CallId(work[w].at) + 1
         /\ CallId(work[w].at) \in 1..3 /\ Method(work[w].at) \in Methods
<1> DEFINE id == CallId(work[w].at)
           m == Method(work[w].at)
<1>1. id \in 1..3 /\ m \in Methods
  BY CallIsAsk
<1>2. /\ conn # "closed"
      /\ \/ call = NoCall /\ nextId = id
         \/ call = [id |-> id, method |-> m] /\ nextId = id + 1
  BY DEF ConversationInv
<1> HIDE DEF id, m
<1>3. [id |-> id, method |-> m] # NoCall
  <2>1. [id |-> id, method |-> m].id # NoCall.id
    BY <1>1 DEF NoCall
  <2> QED
    BY <2>1
<1>4. /\ call = NoCall => nextId = id
      /\ call # NoCall => call.id = id /\ call.method = m /\ nextId = id + 1
  BY <1>2, <1>3
<1> QED
  BY <1>1, <1>2, <1>4 DEF id, m

(* Types are preserved: the ids of a connection stay below five, and what  *)
(* is on the stream are requests and responses.                            *)
LEMMA TypedStep ==
  ASSUME Typed, ConversationInv, [Next]_vars
  PROVE  Typed'
<1> USE DEF node, stream
<1>1. ASSUME NEW w \in Workers, NEW r \in Requests, Receive(w, r)
      PROVE  Typed'
  <2>1. work' \in [Workers -> Works]
    BY <1>1, ReceiveChange
  <2>2. UNCHANGED <<node, stream, config>>
    BY <1>1 DEF Receive
  <2> QED
    BY <2>1, <2>2 DEF Typed
<1>2. ASSUME NEW w \in Workers, ReadBody(w)
      PROVE  Typed'
  <2>1. CASE Reply(w, 400)
    <3>1. work' \in [Workers -> Works]
      BY <2>1, ReplyChange
    <3> QED
      BY <1>2, <3>1 DEF ReadBody, Typed
  <2>2. CASE Go(w, "lock")
    BY <1>2, <2>2, GoChange DEF ReadBody, Typed
  <2> QED
    BY <1>2, <2>1, <2>2 DEF ReadBody
<1>3. ASSUME NEW w \in Workers, Lock(w)
      PROVE  Typed'
  <2>1. ASSUME NEW code \in {200, 400, 401}, Reply(w, code)
        PROVE  Typed'
    <3>1. work' \in [Workers -> Works]
      BY <2>1, ReplyChange
    <3> QED
      BY <1>3, <3>1 DEF Lock, Typed
  <2>2. CASE Go(w, "dial")
    BY <1>3, <2>2, GoChange DEF Lock, Typed, Points
  <2> QED
    BY <1>3, <2>1, <2>2 DEF Lock
<1>4. ASSUME NEW w \in Workers, Responds(w)
      PROVE  Typed'
  <2>1. Idle \in Works
    BY DEF Idle, Works
  <2> QED
    BY <1>4, <2>1 DEF Responds, Typed
<1>5. ASSUME NEW w \in Workers, Connects(w)
      PROVE  Typed'
  <2>1. work' \in [Workers -> Works]
    BY <1>5, GoChange DEF Connects, Points
  <2> QED
    BY <1>5, <2>1 DEF Connects, Dial, Typed
<1>6. ASSUME NEW w \in Workers, Calls(w)
      PROVE  Typed'
  <2> DEFINE point == work[w].at
  <2>1. point \in Points \ {"dial"} /\ Send(Method(point))
    BY <1>6 DEF Calls
  <2>2. call = NoCall
    BY <2>1 DEF Send
  <2>3. CallId(point) \in 1..3 /\ Method(point) \in Methods
    BY <2>1, CallIsAsk
  <2>4. nextId = CallId(point)
    BY <2>1, <2>2, AtPoint
  <2>5. nextId' \in 1..4
    BY <2>1, <2>3, <2>4 DEF Send
  <2>6. call' \in Asks
    BY <2>1, <2>3, <2>4 DEF Send, Asks
  <2>7. asked' \in Seq(Asks)
    BY <2>1, <2>6 DEF Send, Typed
  <2> QED
    BY <1>6, <2>1, <2>5, <2>7 DEF Calls, Send, Typed
<1>7. ASSUME NEW w \in Workers, Reads(w)
      PROVE  Typed'
  <2>1. Head(wire) = wire[1] /\ wire[1] \in Frames /\ 1 \in DOMAIN wire
    BY <1>7 DEF Reads, ReadPart, Typed
  <2>2. wire[1].reads - 1 \in Nat
    BY <1>7, <2>1 DEF Reads, ReadPart
  <2>3. [wire[1] EXCEPT !.reads = wire[1].reads - 1] \in Frames
    BY <2>1, <2>2 DEF Frames
  <2>4. wire' = [wire EXCEPT ![1] =
                  [wire[1] EXCEPT !.reads = wire[1].reads - 1]]
    BY <1>7 DEF Reads, ReadPart
  <2>5. wire' \in Seq(Frames)
    BY <2>1, <2>3, <2>4, ExceptSeq DEF Typed
  <2> QED
    BY <1>7, <2>5 DEF Reads, ReadPart, Typed
<1>8. ASSUME NEW w \in Workers, Takes(w)
      PROVE  Typed'
  <2>1. PICK last \in BOOLEAN : Take(last) /\ work' \in [Workers -> Works]
    BY <1>8, TakesChange
  <2>2. wire # <<>>
    BY <2>1 DEF Take, Arrived
  <2>3. wire' \in Seq(Frames) /\ asked' \in Seq(Asks)
    BY <2>1, <2>2 DEF Take, Typed
  <2> QED
    BY <1>8, <2>1, <2>3 DEF Takes, Take, Typed
<1>9. ASSUME NEW w \in Workers, Fails(w)
      PROVE  Typed'
  <2>1. work' \in [Workers -> Works]
    BY <1>9, ReplyChange DEF Fails
  <2> QED
    BY <1>9, <2>1 DEF Fails, Dropped, Typed
<1>10. ASSUME NodeAnswers, UNCHANGED <<config, work>>
       PROVE  Typed'
  <2>1. asked' \in Seq(Asks)
    BY <1>10 DEF NodeAnswers, Typed
  <2>2. wire' \in Seq(Frames)
    BY <1>10, AnswerIsFrame DEF NodeAnswers, Typed
  <2> QED
    BY <1>10, <2>1, <2>2 DEF NodeAnswers, Typed
<1>11. ASSUME NodeSwapped, UNCHANGED <<config, work>>
       PROVE  Typed'
  BY <1>11, RpcAssumption DEF NodeSwapped, Typed
<1>12. CASE UNCHANGED vars
  BY <1>12 DEF vars, Typed
<1> QED
  BY <1>1, <1>2, <1>3, <1>4, <1>5, <1>6, <1>7, <1>8, <1>9, <1>10, <1>11,
     <1>12 DEF Next, NodeActs
-----------------------------------------------------------------------------
(* The conversation with the node: who holds it, where it is, what is on   *)
(* the stream.                                                             *)
TalkInv == MutexInv /\ ConversationInv /\ StreamInv /\ AnswersMatch

(* Threads outside the handler do not disturb the conversation. *)
LEMMA Bystander ==
  ASSUME TalkInv, UNCHANGED <<node, stream>>,
         \A v \in Workers : \/ work'[v].at = work[v].at
                            \/ work'[v].at \notin Points /\ work[v].at \notin Points
  PROVE  TalkInv'
<1> USE DEF node, stream
<1>1. \A v \in Workers : work'[v].at \in Points \/ work[v].at \in Points =>
                           work'[v].at = work[v].at
  OBVIOUS
<1>2. MutexInv'
  BY <1>1 DEF TalkInv, MutexInv
<1>3. ConversationInv'
  <2>1. NoClient' <=> NoClient
    BY DEF NoClient
  <2>2. (\A w \in Workers : work'[w].at \notin Points) => NoClient'
    BY <1>1, <2>1 DEF TalkInv, ConversationInv
  <2>3. \A w \in Workers : work'[w].at = "dial" => NoClient'
    BY <1>1, <2>1 DEF TalkInv, ConversationInv, Points
  <2>4. ASSUME NEW w \in Workers, work'[w].at \in Points \ {"dial"}
        PROVE  LET id == CallId(work'[w].at)
               IN  /\ conn' # "closed"
                   /\ \/ call' = NoCall /\ nextId' = id
                      \/ /\ call' = [id |-> id, method |-> Method(work'[w].at)]
                         /\ nextId' = id + 1
    <3>1. work'[w].at = work[w].at
      BY <1>1, <2>4
    <3> QED
      BY <2>4, <3>1 DEF TalkInv, ConversationInv
  <2> QED
    BY <2>2, <2>3, <2>4 DEF ConversationInv
<1>4. StreamInv' /\ AnswersMatch'
  BY DEF TalkInv, StreamInv, AnswersMatch
<1> QED
  BY <1>2, <1>3, <1>4 DEF TalkInv

(* While a handler holds the conversation no other thread is in it. *)
LEMMA Alone ==
  ASSUME TalkInv, NEW w \in Workers, work[w].at \in Points
  PROVE  \A v \in Workers \ {w} : work[v].at \notin Points
BY DEF TalkInv, MutexInv

(* A conversation is in order after a step of the handler that holds it if *)
(* it is at the handler's point and the stream is in order.                *)
LEMMA Holder ==
  ASSUME TalkInv, NEW w \in Workers, work[w].at \in Points,
         work'[w].at \in Points \ {"dial"},
         \A v \in Workers \ {w} : work'[v] = work[v],
         conn' # "closed",
         \/ call' = NoCall /\ nextId' = CallId(work'[w].at)
         \/ /\ call' = [id |-> CallId(work'[w].at), method |-> Method(work'[w].at)]
            /\ nextId' = CallId(work'[w].at) + 1,
         StreamInv', AnswersMatch'
  PROVE  TalkInv'
<1>1. \A v \in Workers \ {w} : work'[v].at \notin Points
  BY Alone
<1>2. MutexInv'
  BY <1>1 DEF MutexInv
<1>3. ConversationInv'
  BY <1>1 DEF ConversationInv, Points
<1> QED
  BY <1>2, <1>3 DEF TalkInv

(* A conversation that ends leaves no client behind. *)
LEMMA HungUp ==
  ASSUME TalkInv, NEW w \in Workers, work[w].at \in Points,
         work'[w].at \notin Points,
         \A v \in Workers \ {w} : work'[v] = work[v],
         NoClient', AnswersMatch'
  PROVE  TalkInv'
<1>1. \A v \in Workers : work'[v].at \notin Points
  BY Alone
<1>2. MutexInv' /\ ConversationInv'
  BY <1>1 DEF MutexInv, ConversationInv, Points
<1>3. StreamInv'
  BY DEF NoClient, StreamInv
<1> QED
  BY <1>2, <1>3 DEF TalkInv

(* On a stream with a response there is no request left, and the response  *)
(* is the only one; with a request on it there is no response.             *)
LEMMA StreamFacts ==
  ASSUME Typed, StreamInv
  PROVE  /\ wire # <<>> => /\ asked = <<>> /\ Len(wire) = 1 /\ Tail(wire) = <<>>
                           /\ Head(wire) = wire[1] /\ wire[1] \in Frames
                           /\ 1 \in DOMAIN wire
                           /\ call # NoCall /\ conn = "open"
         /\ asked # <<>> => /\ wire = <<>> /\ Len(asked) = 1 /\ Tail(asked) = <<>>
                            /\ Head(asked) = call
                            /\ call # NoCall /\ conn = "open"
<1>1. asked \in Seq(Asks) /\ wire \in Seq(Frames)
  BY DEF Typed
<1>2. /\ wire # <<>> => Len(wire) >= 1 /\ Head(wire) = wire[1]
                        /\ 1 \in DOMAIN wire /\ wire[1] \in Frames
      /\ asked # <<>> => Len(asked) >= 1 /\ Head(asked) = asked[1]
      /\ Len(wire) \in Nat /\ Len(asked) \in Nat
      /\ wire = <<>> => Len(wire) = 0
      /\ asked = <<>> => Len(asked) = 0
  BY <1>1
<1>3. ASSUME NEW S, NEW s \in Seq(S), NEW T, NEW t \in Seq(T),
             s # <<>>, Len(s) + Len(t) <= 1
      PROVE  t = <<>> /\ Len(s) = 1 /\ Tail(s) = <<>>
  <2>1. Len(s) \in Nat \ {0} /\ Len(t) \in Nat
    BY <1>3, EmptySeq, LenProperties
  <2>2. Len(s) = 1 /\ Len(t) = 0
    <3> DEFINE a == Len(s)
               b == Len(t)
    <3>1. a \in Nat /\ a # 0 /\ b \in Nat /\ a + b <= 1
      BY <1>3, <2>1
    <3> HIDE DEF a, b
    <3>2. a = 1 /\ b = 0
      BY <3>1
    <3> QED
      BY <3>2 DEF a, b
  <2>3. Tail(s) \in Seq(S) /\ Len(Tail(s)) = 0
    BY <1>3, <2>2, HeadTailProperties
  <2>4. Tail(s) = <<>>
    BY <2>3, EmptySeq
  <2> QED
    BY <2>2, <2>4, EmptySeq
<1>4. /\ wire # <<>> => asked = <<>> /\ Len(wire) = 1 /\ Tail(wire) = <<>>
      /\ asked # <<>> => wire = <<>> /\ Len(asked) = 1 /\ Tail(asked) = <<>>
  <2>1. Len(asked) + Len(wire) <= 1 /\ Len(wire) + Len(asked) <= 1
    BY <1>2 DEF StreamInv
  <2> QED
    BY <1>1, <1>3, <2>1
<1> QED
  BY <1>2, <1>4 DEF StreamInv

(* A call, a part of a response, a whole response and an answer of the     *)
(* node keep the stream in order.                                          *)
LEMMA SendKeepsOrder ==
  ASSUME Typed, StreamInv, NEW method \in Methods, Send(method),
         conn \in {"open", "lost"}, nextId \in 1..3
  PROVE  StreamInv'
<1>1. call = NoCall /\ asked = <<>> /\ wire = <<>>
  BY DEF Send, StreamInv
<1>2. call' # NoCall
  <2>1. call'.id # NoCall.id
    BY DEF Send, NoCall
  <2> QED
    BY <2>1
<1>3. CASE conn = "open"
  <2>1. asked' = <<call'>> /\ wire' = <<>>
    BY <1>1, <1>3 DEF Send
  <2> QED
    BY <1>2, <1>3, <2>1 DEF Send, StreamInv
<1>4. CASE conn # "open"
  BY <1>1, <1>4 DEF Send, StreamInv
<1> QED
  BY <1>3, <1>4

(* A partial read takes nothing from the stream.                           *)
LEMMA ReadKeepsOrder ==
  ASSUME Typed, StreamInv, ReadPart
  PROVE  StreamInv'
<1>1. wire # <<>>
  BY DEF ReadPart
<1>2. /\ asked = <<>> /\ Len(wire) = 1 /\ 1 \in DOMAIN wire
      /\ wire[1] \in Frames /\ call # NoCall /\ conn = "open"
  BY <1>1, StreamFacts
<1>3. /\ wire' = [wire EXCEPT ![1] = [wire[1] EXCEPT !.reads = wire[1].reads - 1]]
      /\ UNCHANGED <<node, conn, nextId, call, asked, taken>>
  BY DEF ReadPart
<1>4. wire'[1] = [wire[1] EXCEPT !.reads = wire[1].reads - 1] /\ Len(wire') = 1
  BY <1>2, <1>3 DEF Typed
<1>5. /\ wire'[1].id = wire[1].id /\ wire'[1].method = wire[1].method
      /\ wire'[1].from = wire[1].from
  BY <1>2, <1>4 DEF Frames
<1> QED
  BY <1>1, <1>2, <1>3, <1>4, <1>5 DEF StreamInv, node

(* The node answers the request it was sent, and the client has not moved. *)
LEMMA AnswerKeepsOrder ==
  ASSUME Typed, StreamInv, NodeAnswers
  PROVE  StreamInv' /\ UNCHANGED <<node, conn, nextId, call, taken>>
<1>1. PICK body \in Bodies(Head(asked).method), reads \in 1..(MaxFrame + 1) :
        wire' = Append(wire, [id |-> Head(asked).id, method |-> Head(asked).method,
                              body |-> body, from |-> claim, reads |-> reads])
  BY DEF NodeAnswers
<1>2. /\ asked # <<>> /\ asked' = Tail(asked)
      /\ UNCHANGED <<node, conn, nextId, call, taken>>
  BY DEF NodeAnswers
<1>3. /\ wire = <<>> /\ asked' = <<>> /\ Head(asked) = call
      /\ call # NoCall /\ conn = "open"
  BY <1>2, StreamFacts
<1> DEFINE f == [id |-> call.id, method |-> call.method,
                 body |-> body, from |-> claim, reads |-> reads]
<1>4. wire' = <<f>>
  BY <1>1, <1>3
<1>5. f.id = call.id /\ f.method = call.method /\ f.from = claim
  OBVIOUS
<1> HIDE DEF f
<1>6. wire'[1] = f /\ Len(wire') = 1 /\ Len(asked') = 0
  BY <1>3, <1>4
<1> QED
  BY <1>2, <1>3, <1>5, <1>6 DEF StreamInv, node

(* The response taken is the one to the awaited call. *)
LEMMA TakeKeepsOrder ==
  ASSUME Typed, StreamInv, NEW last \in BOOLEAN, Take(last)
  PROVE  /\ StreamInv' /\ AnswersMatch'
         /\ call' = NoCall /\ asked' = <<>> /\ wire' = <<>> /\ UNCHANGED node
         /\ last => conn' = "closed" /\ nextId' = 1
         /\ ~last => UNCHANGED <<conn, nextId>>
         /\ conn = "open" /\ Head(wire).from = claim
<1>1. wire # <<>>
  BY DEF Take, Arrived
<1>2. /\ asked = <<>> /\ Tail(wire) = <<>> /\ Head(wire) = wire[1]
      /\ conn = "open"
  BY <1>1, StreamFacts
<1>3. /\ taken' = <<call, Head(wire)>> /\ call' = NoCall
      /\ asked' = <<>> /\ wire' = <<>> /\ UNCHANGED node
      /\ last => conn' = "closed" /\ nextId' = 1
      /\ ~last => UNCHANGED <<conn, nextId>>
  BY <1>2 DEF Take
<1>4. taken'[1] = call /\ taken'[2] = wire[1]
  BY <1>2, <1>3
<1>5. AnswersMatch'
  BY <1>1, <1>4 DEF AnswersMatch, StreamInv
<1>6. StreamInv'
  BY <1>3 DEF StreamInv
<1> QED
  BY <1>1, <1>2, <1>3, <1>5, <1>6 DEF StreamInv

(* A step of any thread, or of the node, keeps the conversation in order.  *)
LEMMA TalkStep ==
  ASSUME Typed, TalkInv, [Next]_vars
  PROVE  TalkInv'
<1> USE DEF node, stream
<1>1. ASSUME NEW w \in Workers, NEW r \in Requests, Receive(w, r)
      PROVE  TalkInv'
  <2>1. work[w].at \notin Points /\ UNCHANGED <<node, stream>>
    BY <1>1 DEF Receive, At, Points
  <2>2. /\ work'[w].at \notin Points
        /\ \A v \in Workers \ {w} : work'[v] = work[v]
    BY <1>1, ReceiveChange DEF Points
  <2> QED
    BY <2>1, <2>2, Bystander
<1>2. ASSUME NEW w \in Workers, ReadBody(w)
      PROVE  TalkInv'
  <2>1. work[w].at \notin Points /\ UNCHANGED <<node, stream>>
    BY <1>2 DEF ReadBody, At, Points
  <2>2. Reply(w, 400) \/ Go(w, "lock")
    BY <1>2 DEF ReadBody
  <2>3. /\ work'[w].at \in {"reply", "lock"}
        /\ \A v \in Workers \ {w} : work'[v] = work[v]
    <3>1. CASE Reply(w, 400)
      BY <3>1, ReplyChange
    <3>2. CASE Go(w, "lock")
      BY <3>2, GoChange
    <3> QED
      BY <2>2, <3>1, <3>2
  <2> QED
    BY <2>1, <2>3, Bystander DEF Points
<1>3. ASSUME NEW w \in Workers, Lock(w)
      PROVE  TalkInv'
  <2>1. /\ work[w].at \notin Points /\ UNCHANGED <<node, stream>>
        /\ \A v \in Workers : work[v].at \notin Points
    BY <1>3 DEF Lock, At, MayLock, Points
  <2>2. ASSUME NEW code \in {200, 400, 401}, Reply(w, code)
        PROVE  TalkInv'
    <3>1. /\ work'[w].at \notin Points
          /\ \A v \in Workers \ {w} : work'[v] = work[v]
      BY <2>2, ReplyChange DEF Points
    <3> QED
      BY <2>1, <3>1, Bystander
  <2>3. CASE Go(w, "dial")
    <3>1. /\ work'[w].at = "dial"
          /\ \A v \in Workers \ {w} : work'[v] = work[v]
      BY <2>3, GoChange DEF Points
    <3>2. NoClient'
      BY <2>1 DEF TalkInv, ConversationInv, NoClient
    <3>3. MutexInv' /\ ConversationInv'
      BY <2>1, <3>1, <3>2 DEF MutexInv, ConversationInv
    <3>4. StreamInv' /\ AnswersMatch'
      BY <2>1 DEF TalkInv, StreamInv, AnswersMatch
    <3> QED
      BY <3>3, <3>4 DEF TalkInv
  <2> QED
    BY <1>3, <2>2, <2>3 DEF Lock
<1>4. ASSUME NEW w \in Workers, Responds(w)
      PROVE  TalkInv'
  <2>1. /\ work[w].at \notin Points /\ UNCHANGED <<node, stream>>
        /\ work'[w].at \notin Points
        /\ \A v \in Workers \ {w} : work'[v] = work[v]
    BY <1>4 DEF Responds, At, Points, Idle, Typed
  <2> QED
    BY <2>1, Bystander
<1>5. ASSUME NEW w \in Workers, Connects(w)
      PROVE  TalkInv'
  <2>1. work[w].at = "dial" /\ NoClient /\ Dial
    BY <1>5 DEF Connects, At, TalkInv, ConversationInv
  <2>2. /\ work'[w].at = "pin"
        /\ \A v \in Workers \ {w} : work'[v] = work[v]
    BY <1>5, GoChange DEF Connects, Points
  <2>3. conn' = "open" /\ nextId' = 1 /\ call' = NoCall
        /\ asked' = <<>> /\ wire' = <<>> /\ taken' = NothingTaken
    BY <2>1 DEF Dial, NoClient
  <2>4. StreamInv' /\ AnswersMatch'
    BY <2>3 DEF StreamInv, AnswersMatch, NothingTaken
  <2>5. CallId(work'[w].at) = 1
    BY <2>2 DEF CallId
  <2> QED
    BY <2>1, <2>2, <2>3, <2>4, <2>5, Holder DEF Points
<1>6. ASSUME NEW w \in Workers, Calls(w)
      PROVE  TalkInv'
  <2> DEFINE point == work[w].at
             m == Method(point)
  <2>1. /\ point \in Points \ {"dial"} /\ Send(m)
        /\ UNCHANGED <<config, work>>
    BY <1>6 DEF Calls
  <2>2. call = NoCall
    BY <2>1 DEF Send
  <2>3. /\ conn # "closed" /\ nextId = CallId(point)
        /\ CallId(point) \in 1..3 /\ m \in Methods
    BY <2>1, <2>2, AtPoint DEF TalkInv
  <2> HIDE DEF m
  <2>4. StreamInv'
    BY <2>1, <2>3, SendKeepsOrder DEF TalkInv, Typed
  <2>5. /\ call' = [id |-> nextId, method |-> m] /\ nextId' = nextId + 1
        /\ conn' = conn /\ taken' = taken
    BY <2>1 DEF Send
  <2>6. AnswersMatch'
    BY <2>5 DEF TalkInv, AnswersMatch
  <2>7. work' = work
    BY <2>1
  <2>8. /\ call' = [id |-> CallId(work'[w].at), method |-> Method(work'[w].at)]
        /\ nextId' = CallId(work'[w].at) + 1
    BY <2>3, <2>5, <2>7 DEF m
  <2> QED
    BY <2>1, <2>3, <2>4, <2>5, <2>6, <2>7, <2>8, Holder
<1>7. ASSUME NEW w \in Workers, Reads(w)
      PROVE  TalkInv'
  <2>1. ReadPart /\ UNCHANGED work
    BY <1>7 DEF Reads
  <2>2. StreamInv'
    BY <2>1, ReadKeepsOrder DEF TalkInv
  <2>3. UNCHANGED <<conn, nextId, call, taken>> /\ call # NoCall
    BY <2>1 DEF ReadPart
  <2>4. ConversationInv'
    <3>1. ~NoClient /\ ~NoClient'
      BY <2>3 DEF NoClient
    <3> QED
      BY <2>1, <2>3, <3>1 DEF TalkInv, ConversationInv
  <2> QED
    BY <2>1, <2>2, <2>3, <2>4 DEF TalkInv, MutexInv, AnswersMatch
<1>8. ASSUME NEW w \in Workers, Takes(w)
      PROVE  TalkInv'
  <2>1. work[w].at \in Points \ {"dial"} /\ call # NoCall
    BY <1>8 DEF Takes, Arrived, TalkInv, ConversationInv, NoClient
  <2>a. ConversationInv
    BY DEF TalkInv
  <2>2. PICK to \in After(work[w].at, work[w].req.path, Head(wire)) :
          LET last == to \notin Points
          IN  /\ Take(last)
              /\ work'[w].at = IF last THEN "reply" ELSE to
              /\ \A v \in Workers \ {w} : work'[v] = work[v]
    <3> HIDE DEF node, stream
    <3> QED
      BY <1>8, <2>a, TakesChange
  <2> DEFINE last == to \notin Points
  <2>3. last \in BOOLEAN /\ Take(last)
    BY <2>2
  <2>4. /\ conn # "closed" /\ nextId = CallId(work[w].at) + 1
    BY <2>1, AtPoint DEF TalkInv
  <2>5. CASE last
    <3>1. NoClient' /\ AnswersMatch'
      <4> HIDE DEF last
      <4> QED
        BY <2>3, <2>5, TakeKeepsOrder DEF TalkInv, NoClient
    <3>2. work'[w].at \notin Points
      BY <2>2, <2>5 DEF Points
    <3> QED
      BY <2>1, <2>2, <3>1, <3>2, HungUp
  <2>6. CASE ~last
    <3>1. /\ work'[w].at = to /\ to \in Points \ {"dial", "pin"}
          /\ CallId(to) = CallId(work[w].at) + 1
      BY <2>1, <2>2, <2>6, Following DEF Points, CallId
    <3>2. /\ StreamInv' /\ AnswersMatch' /\ call' = NoCall
          /\ UNCHANGED <<conn, nextId>>
      <4> HIDE DEF last
      <4> QED
        BY <2>3, <2>6, TakeKeepsOrder DEF TalkInv
    <3> QED
      BY <2>1, <2>2, <2>4, <3>1, <3>2, Holder
  <2> QED
    BY <2>5, <2>6
<1>9. ASSUME NEW w \in Workers, Fails(w)
      PROVE  TalkInv'
  <2>1. work[w].at \in Points /\ Dropped /\ Reply(w, 200)
    BY <1>9 DEF Fails
  <2>2. /\ work'[w].at \notin Points
        /\ \A v \in Workers \ {w} : work'[v] = work[v]
    BY <2>1, ReplyChange DEF Points
  <2>3. NoClient' /\ AnswersMatch'
    BY <2>1 DEF Dropped, NoClient, TalkInv, AnswersMatch
  <2> QED
    BY <2>1, <2>2, <2>3, HungUp
<1>10. ASSUME NodeAnswers, UNCHANGED <<config, work>>
       PROVE  TalkInv'
  <2>1. StreamInv' /\ UNCHANGED <<node, conn, nextId, call, taken>>
    BY <1>10, AnswerKeepsOrder DEF TalkInv
  <2>2. ~NoClient
    BY <1>10 DEF NodeAnswers, NoClient
  <2>3. ConversationInv'
    BY <1>10, <2>1, <2>2 DEF TalkInv, ConversationInv
  <2> QED
    BY <1>10, <2>1, <2>3 DEF TalkInv, MutexInv, AnswersMatch
<1>11. ASSUME NodeSwapped, UNCHANGED <<config, work>>
       PROVE  TalkInv'
  <2>1. /\ asked' = <<>> /\ wire' = <<>> /\ UNCHANGED <<nextId, call, taken>>
        /\ conn' = IF conn = "closed" THEN "closed" ELSE "lost"
    BY <1>11 DEF NodeSwapped
  <2>2. StreamInv'
    BY <2>1 DEF StreamInv
  <2>3. NoClient => NoClient'
    BY <2>1 DEF NoClient
  <2>4. ConversationInv'
    BY <1>11, <2>1, <2>3 DEF TalkInv, ConversationInv
  <2> QED
    BY <1>11, <2>1, <2>2, <2>4 DEF TalkInv, MutexInv, AnswersMatch
<1>12. CASE UNCHANGED vars
  <2>1. UNCHANGED <<node, stream, work>>
    BY <1>12 DEF vars
  <2> QED
    BY <2>1, Bystander
<1> QED
  BY <1>1, <1>2, <1>3, <1>4, <1>5, <1>6, <1>7, <1>8, <1>9, <1>10, <1>11,
     <1>12 DEF Next, NodeActs
-----------------------------------------------------------------------------
(* What HeardInv and LearnedFromPinned say of one thread. *)
HeardOf(w) ==
  /\ work[w].at \in {"idle", "body", "lock", "dial", "pin"} =>
       work[w].heard = {}
  /\ work[w].at \in Points \ {"dial", "pin"} =>
       /\ work[w].heard # {} /\ \A c \in work[w].heard : Verified(c)
       /\ conn = "open" => work[w].heard = {claim}
  /\ work[w].at = "reply" /\ work[w].ok =>
       work[w].heard # {} /\ \A c \in work[w].heard : Verified(c)

(* Another thread, or the node, takes a step: what a thread has heard      *)
(* stays right, unless it converses and is connected to another node.      *)
LEMMA HeardStays ==
  ASSUME NEW w \in Workers, HeardOf(w), work'[w] = work[w],
         work[w].at \in Points => (conn' = conn /\ claim' = claim) \/ conn' # "open"
  PROVE  HeardOf(w)'
BY DEF HeardOf

(* A step leaves every thread with what it heard from pinned nodes. *)
LEMMA HeardStep ==
  ASSUME Typed, TalkInv, \A w \in Workers : HeardOf(w), [Next]_vars
  PROVE  \A w \in Workers : HeardOf(w)'
<1>1. ASSUME NEW w \in Workers, NEW r \in Requests, Receive(w, r)
      PROVE  \A v \in Workers : HeardOf(v)'
  <2>1. UNCHANGED <<conn, claim>>
    BY <1>1 DEF Receive, node, stream
  <2>2. /\ work'[w].at \in {"body", "reply"} /\ ~work'[w].ok
        /\ work'[w].heard = {}
        /\ \A v \in Workers \ {w} : work'[v] = work[v]
    BY <1>1, ReceiveChange
  <2>3. HeardOf(w)'
    BY <2>2 DEF HeardOf, Points
  <2> QED
    BY <2>1, <2>2, <2>3, HeardStays
<1>2. ASSUME NEW w \in Workers, NEW code \in {200, 400, 401}, Reply(w, code),
             \/ UNCHANGED <<conn, claim>>
             \/ work[w].at \in Points
      PROVE  \A v \in Workers : HeardOf(v)'
  <2>1. /\ work'[w].at = "reply" /\ ~work'[w].ok
        /\ \A v \in Workers \ {w} : work'[v] = work[v]
    BY <1>2, ReplyChange
  <2>2. HeardOf(w)'
    BY <2>1 DEF HeardOf, Points
  <2> QED
    BY <1>2, <2>1, <2>2, HeardStays, Alone
<1>3. ASSUME NEW w \in Workers, NEW to \in {"lock", "dial", "pin"}, Go(w, to),
             work[w].at \in {"body", "lock", "dial"},
             \/ UNCHANGED <<conn, claim>>
             \/ work[w].at \in Points
      PROVE  \A v \in Workers : HeardOf(v)'
  <2>0. to \in Points \cup {"lock"}
    BY DEF Points
  <2>1. /\ work'[w].at = to /\ work'[w].heard = work[w].heard
        /\ \A v \in Workers \ {w} : work'[v] = work[v]
    BY <1>3, <2>0, GoChange
  <2>2. HeardOf(w)'
    BY <1>3, <2>1 DEF HeardOf, Points
  <2> QED
    BY <1>3, <2>1, <2>2, HeardStays, Alone
<1>4. ASSUME NEW w \in Workers, ReadBody(w)
      PROVE  \A v \in Workers : HeardOf(v)'
  BY <1>2, <1>3, <1>4 DEF ReadBody, At, node, stream
<1>5. ASSUME NEW w \in Workers, Lock(w)
      PROVE  \A v \in Workers : HeardOf(v)'
  BY <1>2, <1>3, <1>5 DEF Lock, At, node, stream
<1>6. ASSUME NEW w \in Workers, Responds(w)
      PROVE  \A v \in Workers : HeardOf(v)'
  <2>1. /\ UNCHANGED <<conn, claim>>
        /\ work'[w].at = "idle" /\ work'[w].heard = {}
        /\ \A v \in Workers \ {w} : work'[v] = work[v]
    BY <1>6 DEF Responds, Idle, Typed, node, stream
  <2>2. HeardOf(w)'
    BY <2>1 DEF HeardOf, Points
  <2> QED
    BY <2>1, <2>2, HeardStays
<1>7. ASSUME NEW w \in Workers, Connects(w)
      PROVE  \A v \in Workers : HeardOf(v)'
  BY <1>3, <1>7 DEF Connects, At, Points
<1>8. ASSUME NEW w \in Workers, Calls(w)
      PROVE  \A v \in Workers : HeardOf(v)'
  BY <1>8, HeardStays DEF Calls, Send, node
<1>9. ASSUME NEW w \in Workers, Reads(w)
      PROVE  \A v \in Workers : HeardOf(v)'
  BY <1>9, HeardStays DEF Reads, ReadPart, node
<1>10. ASSUME NEW w \in Workers, Takes(w)
       PROVE  \A v \in Workers : HeardOf(v)'
  <2>1. work[w].at \in Points \ {"dial"}
    BY <1>10 DEF Takes, Arrived, TalkInv, ConversationInv, NoClient
  <2>2. PICK to \in After(work[w].at, work[w].req.path, Head(wire)) :
          LET last == to \notin Points
          IN  /\ Take(last)
              /\ to \in Points \cup {"ok", "error"}
              /\ work' \in [Workers -> Works]
              /\ work'[w].at = IF last THEN "reply" ELSE to
              /\ work'[w] = [at |-> IF last THEN "reply" ELSE to,
                             req |-> work[w].req,
                             code |-> IF last THEN 200 ELSE 0,
                             ok |-> (to = "ok"),
                             heard |-> work[w].heard \cup {Head(wire).from}]
              /\ \A v \in Workers \ {w} : work'[v] = work[v]
    BY <1>10, TakesChange DEF TalkInv
  <2> DEFINE last == to \notin Points
             won == (to = "ok")
  <2>3. last \in BOOLEAN /\ Take(last) /\ won \in BOOLEAN
    BY <2>2
  <2>4. /\ conn = "open" /\ Head(wire).from = claim /\ claim' = claim
    <3> HIDE DEF last
    <3> QED
      BY <2>3, TakeKeepsOrder DEF TalkInv, node
  <2>5. /\ work'[w].at = IF last THEN "reply" ELSE to
        /\ work'[w].heard = work[w].heard \cup {claim}
    BY <2>2, <2>4
  <2>6. work'[w].ok => to = "ok"
    <3> HIDE DEF won
    <3>1. work'[w].ok = won
      BY <2>2 DEF won
    <3> QED
      BY <3>1 DEF won
  <2>7. to # "error" => work'[w].heard = {claim} /\ Verified(claim)
    <3>1. CASE work[w].at = "pin"
      <4>1. work[w].heard = {}
        BY <3>1 DEF HeardOf
      <4>2. to # "error" => Verified(Head(wire).from)
        BY <2>1, <2>2, <3>1, Following
      <4> QED
        BY <2>4, <2>5, <4>1, <4>2
    <3>2. CASE work[w].at # "pin"
      BY <2>1, <2>4, <2>5, <3>2 DEF HeardOf
    <3> QED
      BY <3>1, <3>2
  <2>8. to # "dial" /\ to # "pin"
    BY <2>1, <2>2, Following DEF Points
  <2>9. HeardOf(w)'
    <3>1. CASE to = "error"
      BY <2>5, <2>6, <3>1 DEF HeardOf, Points
    <3>2. CASE to # "error"
      <4>1. /\ work'[w].heard # {} /\ \A c \in work'[w].heard : Verified(c)
            /\ work'[w].heard = {claim'}
        BY <2>4, <2>7, <3>2
      <4>2. work'[w].at \notin {"idle", "body", "lock", "dial", "pin"}
        BY <2>2, <2>5, <2>8 DEF Points
      <4> QED
        BY <4>1, <4>2 DEF HeardOf
    <3> QED
      BY <3>1, <3>2
  <2> QED
    BY <2>1, <2>2, <2>9, HeardStays, Alone
<1>11. ASSUME NEW w \in Workers, Fails(w)
       PROVE  \A v \in Workers : HeardOf(v)'
  BY <1>2, <1>11 DEF Fails
<1>12. ASSUME NodeActs
       PROVE  \A v \in Workers : HeardOf(v)'
  BY <1>12, HeardStays DEF NodeActs, NodeAnswers, NodeSwapped, node
<1>13. CASE UNCHANGED vars
  BY <1>13, HeardStays DEF vars, node, stream
<1> QED
  BY <1>1, <1>4, <1>5, <1>6, <1>7, <1>8, <1>9, <1>10, <1>11, <1>12, <1>13
     DEF Next
-----------------------------------------------------------------------------
(* A request the agent has to serve. *)
Proper(r) == /\ r.method = "POST" /\ r.path \in Routes
             /\ r.token = "right" /\ r.body = "current"

(* What RoutedInv and VerdictIsTheAgents say of one thread. *)
VerdictOf(w) ==
  /\ work[w].at \in {"body", "lock"} =>
       work[w].req.method = "POST" /\ work[w].req.path \in Routes
  /\ work[w].at \in Points => Proper(work[w].req)
  /\ work[w].at = "reply" => (work[w].code = 200 <=> Proper(work[w].req))

(* A step gives no thread a verdict that is not the agent's own. *)
LEMMA VerdictStep ==
  ASSUME Typed, ConversationInv, \A w \in Workers : VerdictOf(w), [Next]_vars
  PROVE  \A w \in Workers : VerdictOf(w)'
<1>1. ASSUME NEW w \in Workers, VerdictOf(w)',
             \A v \in Workers \ {w} : work'[v] = work[v]
      PROVE  \A v \in Workers : VerdictOf(v)'
  BY <1>1 DEF VerdictOf
<1>2. ASSUME NEW w \in Workers, NEW code \in {200, 400, 401}, Reply(w, code),
             code = 200 <=> Proper(work[w].req)
      PROVE  \A v \in Workers : VerdictOf(v)'
  <2>1. /\ work'[w].at = "reply" /\ work'[w].req = work[w].req
        /\ work'[w].code = code
        /\ \A v \in Workers \ {w} : work'[v] = work[v]
    BY <1>2, ReplyChange
  <2>2. VerdictOf(w)'
    BY <1>2, <2>1 DEF VerdictOf, Points
  <2> QED
    BY <1>1, <2>1, <2>2
<1>3. ASSUME NEW w \in Workers, NEW to \in {"lock", "dial", "pin"}, Go(w, to),
             to = "lock" => /\ work[w].req.method = "POST"
                            /\ work[w].req.path \in Routes,
             to # "lock" => Proper(work[w].req)
      PROVE  \A v \in Workers : VerdictOf(v)'
  <2>1. to \in Points \cup {"lock"}
    BY DEF Points
  <2>2. /\ work'[w].at = to
        /\ \A v \in Workers \ {w} : work'[v] = work[v]
    BY <1>3, <2>1, GoChange
  <2>3. work'[w].req = work[w].req
    BY <1>3 DEF Go, Typed, Works
  <2>4. VerdictOf(w)'
    BY <1>3, <2>2, <2>3 DEF VerdictOf, Points
  <2> QED
    BY <1>1, <2>2, <2>4
<1>4. ASSUME NEW w \in Workers, NEW r \in Requests, Receive(w, r)
      PROVE  \A v \in Workers : VerdictOf(v)'
  <2>1. /\ work'[w].at \in {"body", "reply"} /\ work'[w].req = r
        /\ work'[w].at = "body" => r.method = "POST" /\ r.path \in Routes
        /\ work'[w].at = "reply" => /\ work'[w].code \in {401, 404, 405}
                                    /\ \/ r.method # "POST"
                                       \/ r.path \notin Routes
                                       \/ r.token = "none"
        /\ \A v \in Workers \ {w} : work'[v] = work[v]
    BY <1>4, ReceiveChange
  <2>2. VerdictOf(w)'
    BY <2>1 DEF VerdictOf, Proper, Points
  <2> QED
    BY <1>1, <2>1, <2>2
<1>5. ASSUME NEW w \in Workers, ReadBody(w)
      PROVE  \A v \in Workers : VerdictOf(v)'
  <2>1. /\ work[w].at = "body" /\ work[w].req.method = "POST"
        /\ work[w].req.path \in Routes
    BY <1>5 DEF ReadBody, At, VerdictOf
  <2>2. CASE work[w].req.body = "torn"
    <3>1. Reply(w, 400) /\ ~Proper(work[w].req)
      BY <1>5, <2>2 DEF ReadBody, Proper
    <3> QED
      BY <1>2, <3>1
  <2>3. CASE work[w].req.body # "torn"
    BY <1>3, <1>5, <2>1, <2>3 DEF ReadBody
  <2> QED
    BY <2>2, <2>3
<1>6. ASSUME NEW w \in Workers, Lock(w)
      PROVE  \A v \in Workers : VerdictOf(v)'
  <2> DEFINE r == work[w].req
  <2>1. r.method = "POST" /\ r.path \in Routes
    BY <1>6 DEF Lock, At, VerdictOf
  <2>2. CASE ~Authorised(r)
    <3>1. Reply(w, 401) /\ ~Proper(r)
      BY <1>6, <2>2 DEF Lock, Authorised, Proper
    <3> QED
      BY <1>2, <3>1
  <2>3. CASE Authorised(r) /\ ~Understood(r)
    <3>1. Reply(w, 400) /\ ~Proper(r)
      BY <1>6, <2>3 DEF Lock, Understood, Proper
    <3> QED
      BY <1>2, <3>1
  <2>4. CASE Authorised(r) /\ Understood(r)
    <3>1. Reply(w, 200) \/ Go(w, "dial")
      BY <1>6, <2>4 DEF Lock
    <3>2. Proper(r)
      BY <2>1, <2>4 DEF Authorised, Understood, Proper
    <3> QED
      BY <1>2, <1>3, <3>1, <3>2
  <2> QED
    BY <2>2, <2>3, <2>4
<1>7. ASSUME NEW w \in Workers, Responds(w)
      PROVE  \A v \in Workers : VerdictOf(v)'
  <2>1. /\ work'[w].at = "idle"
        /\ \A v \in Workers \ {w} : work'[v] = work[v]
    BY <1>7 DEF Responds, Idle, Typed
  <2>2. VerdictOf(w)'
    BY <2>1 DEF VerdictOf, Points
  <2> QED
    BY <1>1, <2>1, <2>2
<1>8. ASSUME NEW w \in Workers, Connects(w)
      PROVE  \A v \in Workers : VerdictOf(v)'
  <2>1. Proper(work[w].req)
    BY <1>8 DEF Connects, At, VerdictOf, Points
  <2> QED
    BY <1>3, <1>8, <2>1 DEF Connects
<1>9. ASSUME NEW w \in Workers, Takes(w)
      PROVE  \A v \in Workers : VerdictOf(v)'
  <2>1. Proper(work[w].req)
    BY <1>9 DEF Takes, VerdictOf
  <2>2. PICK to :
          LET last == to \notin Points
          IN  /\ work'[w].at = IF last THEN "reply" ELSE to
              /\ work'[w] = [at |-> IF last THEN "reply" ELSE to,
                             req |-> work[w].req,
                             code |-> IF last THEN 200 ELSE 0,
                             ok |-> (to = "ok"),
                             heard |-> work[w].heard \cup {Head(wire).from}]
              /\ \A v \in Workers \ {w} : work'[v] = work[v]
    BY <1>9, TakesChange
  <2>3. /\ work'[w].req = work[w].req
        /\ work'[w].at = "reply" => work'[w].code = 200
        /\ work'[w].at \notin {"body", "lock"}
    BY <2>2 DEF Points
  <2>4. VerdictOf(w)'
    BY <2>1, <2>3 DEF VerdictOf
  <2> QED
    BY <1>1, <2>2, <2>4
<1>10. ASSUME NEW w \in Workers, Fails(w)
       PROVE  \A v \in Workers : VerdictOf(v)'
  <2>1. Proper(work[w].req)
    BY <1>10 DEF Fails, VerdictOf
  <2> QED
    BY <1>2, <1>10, <2>1 DEF Fails
<1>11. CASE UNCHANGED work
  BY <1>11 DEF VerdictOf
<1> QED
  BY <1>4, <1>5, <1>6, <1>7, <1>8, <1>9, <1>10, <1>11
     DEF Next, NodeActs, Calls, Reads, vars
-----------------------------------------------------------------------------
(* Every reachable state of the service satisfies the invariant: one       *)
(* thread at most converses with the node, and the stream holds at most    *)
(* the request it waits for or its response.                               *)
THEOREM ServiceInvariant == Spec => []ServiceInv
<1>1. Init => ServiceInv
  <2> SUFFICES ASSUME Init
               PROVE  ServiceInv
    OBVIOUS
  <2> USE DEF Init, StreamInit
  <2>1. /\ \A w \in Workers : work[w] = Idle
        /\ work \in [Workers -> Works]
    BY DEF Idle, Works
  <2>2. \A w \in Workers : /\ work[w].at = "idle" /\ work[w].heard = {}
                           /\ work[w].at \notin Points
    BY <2>1 DEF Idle, Points
  <2>3. Typed
    BY <2>1, RpcAssumption, EmptySeq DEF Typed
  <2>4. NoClient
    BY DEF NoClient
  <2>5. MutexInv /\ ConversationInv
    BY <2>2, <2>4 DEF MutexInv, ConversationInv, Points
  <2>6. StreamInv /\ AnswersMatch
    BY DEF StreamInv, AnswersMatch, NothingTaken
  <2>7. HeardInv /\ RoutedInv /\ LearnedFromPinned /\ VerdictIsTheAgents
    BY <2>2 DEF HeardInv, RoutedInv, LearnedFromPinned, VerdictIsTheAgents, At
  <2> QED
    BY <2>3, <2>5, <2>6, <2>7 DEF ServiceInv
<1>2. ServiceInv /\ [Next]_vars => ServiceInv'
  <2> SUFFICES ASSUME ServiceInv, [Next]_vars
               PROVE  ServiceInv'
    OBVIOUS
  <2>1. Typed /\ TalkInv /\ ConversationInv
    BY DEF ServiceInv, TalkInv
  <2>2. Typed' /\ TalkInv'
    BY <2>1, TypedStep, TalkStep
  <2>3. \A w \in Workers : HeardOf(w) /\ VerdictOf(w)
    BY DEF ServiceInv, HeardInv, LearnedFromPinned, HeardOf, RoutedInv,
           VerdictIsTheAgents, VerdictOf, Proper, At
  <2>4. \A w \in Workers : HeardOf(w)' /\ VerdictOf(w)'
    BY <2>1, <2>3, HeardStep, VerdictStep
  <2>5. HeardInv' /\ LearnedFromPinned'
    BY <2>4 DEF HeardInv, LearnedFromPinned, HeardOf, At
  <2>6. RoutedInv' /\ VerdictIsTheAgents'
    BY <2>4 DEF RoutedInv, VerdictIsTheAgents, VerdictOf, Proper, At
  <2> QED
    BY <2>2, <2>5, <2>6 DEF ServiceInv, TalkInv
<1> QED
  BY <1>1, <1>2, PTL DEF Spec

(* The type invariant, and that there is a client exactly while a handler  *)
(* converses.                                                              *)
THEOREM ServiceTypeCorrect == Spec => []TypeOK
<1>1. ServiceInv => TypeOK
  <2> SUFFICES ASSUME ServiceInv
               PROVE  TypeOK
    OBVIOUS
  <2>1. \A w \in Workers :
          /\ work[w].at \in Points \cup {"idle", "body", "lock", "reply"}
          /\ work[w].code \in {0, 200, 400, 401, 404, 405}
    BY DEF ServiceInv, Typed, Works
  <2>2. (\E w \in Workers : work[w].at \in Points \ {"dial"}) => conn # "closed"
    BY DEF ServiceInv, ConversationInv
  <2>3. conn # "closed" => \E w \in Workers : work[w].at \in Points \ {"dial"}
    BY DEF ServiceInv, ConversationInv, NoClient
  <2> QED
    BY <2>1, <2>2, <2>3 DEF ServiceInv, Typed, TypeOK
<1> QED
  BY <1>1, ServiceInvariant, PTL

(* A call takes the response to its own request, whatever the order in     *)
(* which the node answers, fails, goes away and is replaced, although the  *)
(* code never compares an id.                                              *)
THEOREM NoAnswerIsConfused == Spec => []AnswersMatch
BY ServiceInvariant, PTL DEF ServiceInv

(* What the agent reports as done it learned from pinned nodes. *)
THEOREM ReportsPinnedChainOnly == Spec => []LearnedFromPinned
BY ServiceInvariant, PTL DEF ServiceInv

(* The node is asked, and success is reported, for proper requests only. *)
THEOREM OnlyProperRequestsServed == Spec => []VerdictIsTheAgents
BY ServiceInvariant, PTL DEF ServiceInv
=============================================================================
