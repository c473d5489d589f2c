--------------------------- MODULE WalletVaultProofs ---------------------------
(***************************************************************************)
(* Theorems about WalletVault, for any passwords, texts, hashes and first  *)
(* list, and any bounds.                                                   *)
(***************************************************************************)
EXTENDS WalletVault, SetInduction

-----------------------------------------------------------------------------
(* Lists of wallets. *)
IsList(q) == \E T : q \in Seq(T)
Distinct(q) == \A j, k \in DOMAIN q : q[j].id = q[k].id => j = k

(* A list has a length and positions up to it.                             *)
LEMMA ListShape ==
  ASSUME NEW q, IsList(q)
  PROVE  Len(q) \in Nat /\ DOMAIN q = 1..Len(q)
  BY DEF IsList

(* A wallet appended comes last, the others stay where they are.           *)
LEMMA ListAppends ==
  ASSUME NEW q, IsList(q), NEW x
  PROVE  LET r == Append(q, x)
         IN  /\ IsList(r) /\ Len(r) = Len(q) + 1 /\ r[Len(q) + 1] = x
             /\ \A k \in 1..Len(q) : r[k] = q[k]
  <1>1. PICK T : q \in Seq(T)
    BY DEF IsList
  <1> DEFINE U == T \cup {x}
  <1>2. \A k \in 1..Len(q) : q[k] \in U
    BY <1>1
  <1>3. x \in U /\ T \subseteq U
    OBVIOUS
  <1> HIDE DEF U
  <1>4. q \in Seq(U)
    BY <1>1, <1>3
  <1>5. Append(q, x) \in Seq(U)
    BY <1>3, <1>4
  <1>6. IsList(Append(q, x))
    BY <1>5 DEF IsList
  <1> QED
    BY <1>1, <1>6

(* A wallet removed leaves the others in order.                            *)
LEMMA ListRemoves ==
  ASSUME NEW q, IsList(q), NEW k \in DOMAIN q
  PROVE  LET r == RemoveAt(q, k)
         IN  /\ IsList(r) /\ Len(r) = Len(q) - 1
             /\ \A j \in 1..Len(r) : r[j] = q[IF j < k THEN j ELSE j + 1]
  <1>1. PICK T : q \in Seq(T)
    BY DEF IsList
  <1> DEFINE a == SubSeq(q, 1, k - 1)
             b == SubSeq(q, k + 1, Len(q))
  <1>2. k \in 1..Len(q) /\ Len(q) \in Nat
    BY <1>1
  <1>3. a \in Seq(T) /\ Len(a) = k - 1 /\ \A j \in 1..(k - 1) : a[j] = q[j]
    BY <1>1, <1>2
  <1>4. b \in Seq(T) /\ Len(b) = Len(q) - k /\ \A j \in 1..(Len(q) - k) : b[j] = q[k + j]
    BY <1>1, <1>2
  <1> HIDE DEF a, b
  <1>5. /\ a \o b \in Seq(T) /\ Len(a \o b) = Len(q) - 1
        /\ \A j \in 1..(Len(q) - 1) : (a \o b)[j] = IF j < k THEN a[j] ELSE b[j - k + 1]
    BY <1>2, <1>3, <1>4, SMTT(30)
  <1>6. \A j \in 1..(Len(q) - 1) : (a \o b)[j] = q[IF j < k THEN j ELSE j + 1]
    <2> TAKE j \in 1..(Len(q) - 1)
    <2>1. CASE j < k
      BY <1>2, <1>3, <1>5, <2>1
    <2>2. CASE ~(j < k)
      <3>1. j - k + 1 \in 1..(Len(q) - k) /\ k + (j - k + 1) = j + 1
        BY <1>2, <2>2
      <3>2. b[j - k + 1] = q[k + (j - k + 1)]
        BY <1>4, <3>1
      <3> QED
        BY <1>5, <2>2, <3>1, <3>2
    <2> QED
      BY <2>1, <2>2
  <1>7. RemoveAt(q, k) = a \o b
    BY DEF RemoveAt, a, b
  <1>8. IsList(a \o b)
    BY <1>5 DEF IsList
  <1> QED
    BY <1>5, <1>6, <1>7, <1>8

(* Without takes one wallet out, if it is there.                           *)
LEMMA WithoutLeaves ==
  ASSUME NEW q, IsList(q), Distinct(q), NEW id
  PROVE  LET r == Without(q, id)
         IN  /\ IsList(r) /\ Distinct(r) /\ Ids(r) = Ids(q) \ {id}
             /\ \A j \in DOMAIN r : \E k \in DOMAIN q : r[j] = q[k]
  <1> DEFINE r == Without(q, id)
  <1>1. Len(q) \in Nat /\ DOMAIN q = 1..Len(q)
    BY ListShape
  <1>2. CASE id \notin Ids(q)
    <2>1. r = q
      BY <1>2 DEF Without
    <2> HIDE DEF r
    <2>2. Ids(q) \ {id} = Ids(q)
      BY <1>2
    <2>3. \A j \in DOMAIN r : \E k \in DOMAIN q : r[j] = q[k]
      BY <2>1
    <2>4. IsList(r) /\ Distinct(r) /\ Ids(r) = Ids(q) \ {id}
      BY <2>1, <2>2
    <2> QED
      BY <2>3, <2>4 DEF r
  <1>3. CASE id \in Ids(q)
    <2> DEFINE k == CHOOSE n \in DOMAIN q : q[n].id = id
    <2>1. \E n \in DOMAIN q : q[n].id = id
      BY <1>3 DEF Ids
    <2>2. k \in DOMAIN q /\ q[k].id = id
      BY <2>1
    <2>3. r = RemoveAt(q, k)
      BY <1>3 DEF Without
    <2> HIDE DEF k, r
    <2>4. /\ IsList(r) /\ Len(r) = Len(q) - 1
          /\ \A j \in 1..Len(r) : r[j] = q[IF j < k THEN j ELSE j + 1]
      BY <2>2, <2>3, ListRemoves
    <2>5. DOMAIN r = 1..Len(r) /\ Len(r) \in Nat
      BY <2>4, ListShape
    <2> DEFINE At(j) == IF j < k THEN j ELSE j + 1
    <2>6. \A j \in DOMAIN r : At(j) \in DOMAIN q /\ At(j) # k /\ r[j] = q[At(j)]
      BY <1>1, <2>2, <2>4, <2>5
    <2>7. \A i, j \in DOMAIN r : At(i) = At(j) => i = j
      BY <1>1, <2>2, <2>4, <2>5
    <2>8. \A n \in DOMAIN q : n # k => \E j \in DOMAIN r : At(j) = n
      <3> TAKE n \in DOMAIN q
      <3> HAVE n # k
      <3>1. CASE n < k
        <4>1. n \in DOMAIN r /\ At(n) = n
          BY <1>1, <2>2, <2>4, <2>5, <3>1
        <4> QED BY <4>1
      <3>2. CASE n > k
        <4>1. n - 1 \in DOMAIN r /\ At(n - 1) = n
          BY <1>1, <2>2, <2>4, <2>5, <3>2
        <4> QED BY <4>1
      <3> QED BY <1>1, <2>2, <3>1, <3>2
    <2> HIDE DEF At
    <2>9. Distinct(r)
      BY <2>6, <2>7 DEF Distinct
    <2>10. Ids(r) = Ids(q) \ {id}
      <3>1. \A j \in DOMAIN r : r[j].id # id
        BY <2>2, <2>6 DEF Distinct
      <3>2. \A n \in DOMAIN q : q[n].id # id => \E j \in DOMAIN r : r[j].id = q[n].id
        BY <2>2, <2>6, <2>8
      <3> QED
        BY <2>6, <3>1, <3>2 DEF Ids
    <2> QED
      BY <2>4, <2>6, <2>9, <2>10 DEF r
  <1> QED
    BY <1>2, <1>3

(* EnvOf finds an envelope of the list.                                    *)
LEMMA EnvFound ==
  ASSUME NEW q, NEW id \in Ids(q)
  PROVE  \E k \in DOMAIN q : q[k].id = id /\ EnvOf(q, id) = q[k].env
  <1>1. ToSet(q) = {q[k] : k \in DOMAIN q}
    BY DEF ToSet
  <1> DEFINE w == CHOOSE v \in ToSet(q) : v.id = id
  <1>2. \E v \in ToSet(q) : v.id = id
    BY <1>1 DEF Ids
  <1>3. w \in ToSet(q) /\ w.id = id
    BY <1>2
  <1>4. EnvOf(q, id) = w.env
    BY DEF EnvOf
  <1> HIDE DEF w
  <1> QED
    BY <1>1, <1>3, <1>4

(* A list of distinct wallets has as many ids as positions.                *)
LEMMA IdsCount ==
  ASSUME NEW q, IsList(q), Distinct(q)
  PROVE  Cardinality(Ids(q)) = Len(q)
  <1> DEFINE f == [k \in DOMAIN q |-> q[k].id]
  <1>1. DOMAIN q = 1..Len(q) /\ Len(q) \in Nat
    BY ListShape
  <1>2. IsFiniteSet(DOMAIN q) /\ Cardinality(DOMAIN q) = Len(q)
    <2> DEFINE n == Len(q)
    <2>1. n \in Nat /\ DOMAIN q = 1..n
      BY <1>1
    <2> HIDE DEF n
    <2>2. IsFiniteSet(1..n) /\ Cardinality(1..n) = n
      BY <2>1, FS_Interval
    <2> QED
      BY <2>1, <2>2 DEF n
  <1>3. f \in Surjection(DOMAIN q, Ids(q))
    BY DEF Surjection, Ids
  <1>4. f \in Injection(DOMAIN q, Ids(q))
    BY DEF Injection, IsInjective, Distinct, Ids
  <1> HIDE DEF f
  <1> QED
    BY <1>2, <1>3, <1>4, FS_Surjection

(* The first wallet of a list is one of it.                                *)
LEMMA FirstListed ==
  ASSUME NEW q, IsList(q)
  PROVE  IF q = <<>> THEN FirstId(q) = None ELSE FirstId(q) \in Ids(q)
  <1>1. CASE q = <<>>
    BY <1>1 DEF FirstId
  <1>2. CASE q # <<>>
    <2>1. PICK T : q \in Seq(T)
      BY DEF IsList
    <2>2. 1 \in DOMAIN q /\ Head(q) = q[1]
      BY <1>2, <2>1
    <2> QED
      BY <1>2, <2>2 DEF FirstId, Ids
  <1> QED
    BY <1>1, <1>2

-----------------------------------------------------------------------------
(* The calls.  One that makes a wallet is about the same wallet until it   *)
(* returns or deletes it; some hold a copy of the list between two awaits. *)
Making == {"read", "write", "activate", "reload", "publish", "rewards"}
Holding == {"write", "publish", "deleted", "settle", "renamed"}

CallTyped(c) ==
  /\ c = Call(c.op, c.at, c.id, c.phrase, c.password, c.got)
  /\ \/ c.op \in {"create", "restore"} /\ c.at \in Making
     \/ c.op \in {"create", "delete"} /\ c.at \in {"deleted", "settle"}
     \/ c.op = "rename" /\ c.at = "renamed"
     \/ c.op = "switch" /\ c.at = "switched"
     \/ c.op = "unlock" /\ c.at = "decrypt"
     \/ c.op = "network" /\ c.at \in {"stored", "derive"} /\ c.id \in Networks

StateTyped ==
  /\ state = [wallets |-> state.wallets, active |-> state.active,
              network |-> state.network, session |-> state.session]
  /\ state.session = [seed |-> state.session.seed, address |-> state.session.address]
  /\ state.network \in Networks /\ network \in Networks
CountsTyped ==
  /\ made \in Nat /\ turns \in Nat /\ made + turns <= MaxChanges
  /\ crashes \in Nat /\ IsFiniteSet(damaged) /\ crashes + Cardinality(damaged) <= MaxFaults
CallsTyped ==
  /\ overlaps \in 0..MaxOverlaps
  /\ \A c \in calls : CallTyped(c)
  /\ IsFiniteSet(calls) /\ Cardinality(calls) <= 1 + overlaps

(* A step of a call changes where it is, and perhaps what it is about and  *)
(* what it holds.                                                          *)
Moved(c, at) == [c EXCEPT !.at = at]
MovedWith(c, at, got) == [c EXCEPT !.at = at, !.got = got]
MovedTo(c, at, id, got) == [c EXCEPT !.at = at, !.id = id, !.got = got]

(* A call moved on is a call again: one field changed after the other.     *)
LEMMA CallSteps ==
  ASSUME NEW c, CallTyped(c), NEW at, NEW id, NEW got
  PROVE  /\ Moved(c, at) = Call(c.op, at, c.id, c.phrase, c.password, c.got)
         /\ MovedWith(c, at, got) = Call(c.op, at, c.id, c.phrase, c.password, got)
         /\ MovedTo(c, at, id, got) = Call(c.op, at, id, c.phrase, c.password, got)
  <1> DEFINE o == c.op
             a == c.at
             i == c.id
             p == c.phrase
             w == c.password
             g == c.got
  <1>1. c = [op |-> o, at |-> a, id |-> i, phrase |-> p, password |-> w, got |-> g]
    BY DEF CallTyped, Call
  <1> HIDE DEF o, a, i, p, w, g
  <1>2. [c EXCEPT !.at = at] =
          [op |-> o, at |-> at, id |-> i, phrase |-> p, password |-> w, got |-> g]
    BY <1>1
  <1> DEFINE d == [op |-> o, at |-> at, id |-> i, phrase |-> p, password |-> w, got |-> g]
  <1>3. [d EXCEPT !.got = got] =
          [op |-> o, at |-> at, id |-> i, phrase |-> p, password |-> w, got |-> got]
    OBVIOUS
  <1>4. [c EXCEPT !.at = at, !.got = got] = [[c EXCEPT !.at = at] EXCEPT !.got = got]
    OBVIOUS
  <1>5. [c EXCEPT !.at = at, !.got = got] =
          [op |-> o, at |-> at, id |-> i, phrase |-> p, password |-> w, got |-> got]
    BY <1>2, <1>3, <1>4
  <1> DEFINE h == [op |-> o, at |-> at, id |-> id, phrase |-> p, password |-> w, got |-> g]
  <1>6. [d EXCEPT !.id = id] = h
    OBVIOUS
  <1>7. [h EXCEPT !.got = got] =
          [op |-> o, at |-> at, id |-> id, phrase |-> p, password |-> w, got |-> got]
    OBVIOUS
  <1>8. [c EXCEPT !.at = at, !.id = id, !.got = got] =
          [[[c EXCEPT !.at = at] EXCEPT !.id = id] EXCEPT !.got = got]
    OBVIOUS
  <1>9. [c EXCEPT !.at = at, !.id = id, !.got = got] =
          [op |-> o, at |-> at, id |-> id, phrase |-> p, password |-> w, got |-> got]
    BY <1>2, <1>6, <1>7, <1>8
  <1> HIDE DEF d, h
  <1> QED
    BY <1>2, <1>5, <1>9 DEF Call, Moved, MovedWith, MovedTo, o, a, i, p, w, g

(* What a call is made of.                                                 *)
LEMMA CallFields ==
  ASSUME NEW o, NEW a, NEW i, NEW p, NEW w, NEW g
  PROVE  LET c == Call(o, a, i, p, w, g)
         IN  c.op = o /\ c.at = a /\ c.id = i /\ c.phrase = p /\ c.password = w /\ c.got = g
  BY DEF Call

(* One call more is one overlap more, unless there was none; a step or an  *)
(* end adds none.                                                          *)
LEMMA CallsCount ==
  ASSUME NEW C, IsFiniteSet(C), NEW n \in Nat, Cardinality(C) <= 1 + n, NEW c, NEW d
  PROVE  /\ IsFiniteSet(C \cup {d})
         /\ Cardinality(C \cup {d}) <= 1 + (n + (IF C = {} THEN 0 ELSE 1))
         /\ IsFiniteSet(C \ {c}) /\ Cardinality(C \ {c}) <= 1 + n
         /\ c \in C => /\ IsFiniteSet((C \ {c}) \cup {d})
                       /\ Cardinality((C \ {c}) \cup {d}) <= 1 + n
  <1>1. Cardinality(C) \in Nat
    BY FS_CardinalityType
  <1>2. IsFiniteSet(C \ {c}) /\ Cardinality(C \ {c}) <= Cardinality(C)
    BY FS_Subset
  <1>3. ASSUME NEW D, IsFiniteSet(D)
        PROVE  IsFiniteSet(D \cup {d}) /\ Cardinality(D \cup {d}) \in Nat
               /\ Cardinality(D) \in Nat /\ Cardinality(D \cup {d}) <= Cardinality(D) + 1
    <2>1. IsFiniteSet(D \cup {d}) /\ Cardinality(D) \in Nat
      BY <1>3, FS_AddElement, FS_CardinalityType
    <2>2. Cardinality(D \cup {d}) = IF d \in D THEN Cardinality(D) ELSE Cardinality(D) + 1
      BY <1>3, FS_AddElement
    <2> QED
      BY <2>1, <2>2
  <1>4. IsFiniteSet(C \cup {d}) /\ Cardinality(C \cup {d}) <= 1 + (n + (IF C = {} THEN 0 ELSE 1))
    <2>1. CASE C = {}
      <3>1. Cardinality(C) = 0
        BY <2>1, FS_EmptySet
      <3> QED
        BY <1>3, <2>1, <3>1
    <2>2. CASE C # {}
      BY <1>1, <1>3, <2>2
    <2> QED
      BY <2>1, <2>2
  <1>5. ASSUME c \in C
        PROVE  IsFiniteSet((C \ {c}) \cup {d}) /\ Cardinality((C \ {c}) \cup {d}) <= 1 + n
    <2>1. Cardinality(C \ {c}) = Cardinality(C) - 1
      BY <1>5, FS_RemoveElement
    <2> QED
      BY <1>1, <1>2, <1>3, <2>1
  <1> QED
    BY <1>1, <1>2, <1>4, <1>5, FS_CardinalityType

(* The updates of the service's state, field by field.                     *)
State(w, a, n, e) == [wallets |-> w, active |-> a, network |-> n, session |-> e]
WithWallets(s, w) == [s EXCEPT !.wallets = w]
WithSession(s, e) == [s EXCEPT !.session = e]
WithNetwork(s, n) == [s EXCEPT !.network = n]
WithActive(s, a, e) == [s EXCEPT !.active = a, !.session = e]
WithAll(s, w, a, e) == [s EXCEPT !.wallets = w, !.active = a, !.session = e]
WithAddress(s, n, e) == [s EXCEPT !.network = n, !.session.address = e]

(* The service's state with one part replaced, field by field.             *)
LEMMA StateSets ==
  ASSUME NEW s, s = State(s.wallets, s.active, s.network, s.session)
  PROVE  /\ \A w : WithWallets(s, w) = State(w, s.active, s.network, s.session)
         /\ \A e : WithSession(s, e) = State(s.wallets, s.active, s.network, e)
         /\ \A n : WithNetwork(s, n) = State(s.wallets, s.active, n, s.session)
         /\ \A a, e : WithActive(s, a, e) = State(s.wallets, a, s.network, e)
         /\ \A w, a, e : WithAll(s, w, a, e) = State(w, a, s.network, e)
         /\ \A n, e : WithAddress(s, n, e) =
              State(s.wallets, s.active, n, [s.session EXCEPT !.address = e])
  <1> DEFINE w0 == s.wallets
             a0 == s.active
             n0 == s.network
             e0 == s.session
  <1>1. s = [wallets |-> w0, active |-> a0, network |-> n0, session |-> e0]
    BY DEF State
  <1> HIDE DEF w0, a0, n0, e0
  <1>2. ASSUME NEW w
        PROVE  WithWallets(s, w) = [wallets |-> w, active |-> a0, network |-> n0, session |-> e0]
    BY <1>1 DEF WithWallets
  <1>3. ASSUME NEW e
        PROVE  WithSession(s, e) = [wallets |-> w0, active |-> a0, network |-> n0, session |-> e]
    BY <1>1 DEF WithSession
  <1>4. ASSUME NEW n
        PROVE  WithNetwork(s, n) = [wallets |-> w0, active |-> a0, network |-> n, session |-> e0]
    BY <1>1 DEF WithNetwork
  <1>5. ASSUME NEW a, NEW e
        PROVE  WithActive(s, a, e) = [wallets |-> w0, active |-> a, network |-> n0, session |-> e]
    <2> DEFINE t == [wallets |-> w0, active |-> a, network |-> n0, session |-> e0]
    <2>1. WithActive(s, a, e) = [[s EXCEPT !.active = a] EXCEPT !.session = e]
      BY DEF WithActive
    <2>2. [s EXCEPT !.active = a] = t
      BY <1>1
    <2>3. [t EXCEPT !.session = e] = [wallets |-> w0, active |-> a, network |-> n0, session |-> e]
      OBVIOUS
    <2> QED
      BY <2>1, <2>2, <2>3
  <1>6. ASSUME NEW w, NEW a, NEW e
        PROVE  WithAll(s, w, a, e) = [wallets |-> w, active |-> a, network |-> n0, session |-> e]
    <2> DEFINE t == [wallets |-> w, active |-> a0, network |-> n0, session |-> e0]
    <2>1. WithAll(s, w, a, e) =
            [[[s EXCEPT !.wallets = w] EXCEPT !.active = a] EXCEPT !.session = e]
      BY DEF WithAll
    <2>2. [s EXCEPT !.wallets = w] = t
      BY <1>1
    <2> DEFINE u == [wallets |-> w, active |-> a, network |-> n0, session |-> e0]
    <2>3. [t EXCEPT !.active = a] = u
      OBVIOUS
    <2>4. [u EXCEPT !.session = e] = [wallets |-> w, active |-> a, network |-> n0, session |-> e]
      OBVIOUS
    <2> QED
      BY <2>1, <2>2, <2>3, <2>4
  <1>7. ASSUME NEW n, NEW e
        PROVE  WithAddress(s, n, e) = [wallets |-> w0, active |-> a0, network |-> n,
                                       session |-> [e0 EXCEPT !.address = e]]
    <2> DEFINE t == [wallets |-> w0, active |-> a0, network |-> n, session |-> e0]
    <2>1. WithAddress(s, n, e) = [[s EXCEPT !.network = n] EXCEPT !.session.address = e]
      BY DEF WithAddress
    <2>2. [s EXCEPT !.network = n] = t
      BY <1>1
    <2>3. [t EXCEPT !.session.address = e] =
            [wallets |-> w0, active |-> a0, network |-> n, session |-> [e0 EXCEPT !.address = e]]
      OBVIOUS
    <2> QED
      BY <2>1, <2>2, <2>3
  <1>8. s.session = e0
    BY <1>1
  <1>11. \A w : WithWallets(s, w) = State(w, s.active, s.network, s.session)
    BY <1>2 DEF State, w0, a0, n0, e0
  <1>12. \A e : WithSession(s, e) = State(s.wallets, s.active, s.network, e)
    BY <1>3 DEF State, w0, a0, n0, e0
  <1>13. \A n : WithNetwork(s, n) = State(s.wallets, s.active, n, s.session)
    BY <1>4 DEF State, w0, a0, n0, e0
  <1>14. \A a, e : WithActive(s, a, e) = State(s.wallets, a, s.network, e)
    BY <1>5 DEF State, w0, a0, n0, e0
  <1>15. \A w, a, e : WithAll(s, w, a, e) = State(w, a, s.network, e)
    BY <1>6 DEF State, w0, a0, n0, e0
  <1>16. \A n, e : WithAddress(s, n, e) =
           State(s.wallets, s.active, n, [s.session EXCEPT !.address = e])
    BY <1>7, <1>8 DEF State, w0, a0, n0, e0
  <1> QED
    BY <1>11, <1>12, <1>13, <1>14, <1>15, <1>16

(* Which operations wait where.                                            *)
LEMMA CallIsTyped ==
  ASSUME NEW o, NEW a, NEW i, NEW p, NEW w, NEW g,
         \/ o \in {"create", "restore"} /\ a \in Making
         \/ o \in {"create", "delete"} /\ a \in {"deleted", "settle"}
         \/ o = "rename" /\ a = "renamed"
         \/ o = "switch" /\ a = "switched"
         \/ o = "unlock" /\ a = "decrypt"
         \/ o = "network" /\ a \in {"stored", "derive"} /\ i \in Networks
  PROVE  CallTyped(Call(o, a, i, p, w, g))
  <1> DEFINE c == Call(o, a, i, p, w, g)
  <1>1. c.op = o /\ c.at = a /\ c.id = i /\ c.phrase = p /\ c.password = w /\ c.got = g
    BY CallFields
  <1> HIDE DEF c
  <1>2. c = Call(c.op, c.at, c.id, c.phrase, c.password, c.got)
    BY <1>1 DEF c
  <1> QED
    BY <1>1, <1>2 DEF CallTyped, c

(* What the segments of the calls do, in these terms.                      *)
Turn(c, at, id, got) ==
  calls' = (calls \ {c}) \cup {Call(c.op, at, id, c.phrase, c.password, got)}

(* Every step of a call puts the call moved on in its place.               *)
LEMMA Turns ==
  ASSUME NEW c, CallTyped(c), NEW at, NEW id, NEW got
  PROVE  /\ Step(c, at) => Turn(c, at, c.id, c.got)
         /\ StepWith(c, at, got) => Turn(c, at, c.id, got)
         /\ calls' = (calls \ {c}) \cup {MovedTo(c, at, id, got)} => Turn(c, at, id, got)
  <1>1. Step(c, at) => calls' = (calls \ {c}) \cup {Moved(c, at)}
    BY DEF Step, Moved
  <1>2. StepWith(c, at, got) => calls' = (calls \ {c}) \cup {MovedWith(c, at, got)}
    BY DEF StepWith, MovedWith
  <1> QED
    BY <1>1, <1>2, CallSteps DEF Turn

-----------------------------------------------------------------------------
(* The envelopes.  An undamaged one is of either format and holds a valid  *)
(* mnemonic; a damaged one opens with no password.                         *)
Envelopes(p, w) == {EncryptWallet(p, w, "fresh"), LegacyEnvelope(p, w, "fresh")}
Sealed(env) ==
  /\ ValidMnemonic(env.sealed.msg)
  /\ env \in Envelopes(env.sealed.msg, env.sealed.password)
Broken(env) == \A w : DecryptWallet(env, w) = Error

(* Copies of the list.  The list, the one of the service and those calls   *)
(* hold may differ while calls overlap, and deleted wallets come back with *)
(* an old copy; but whichever copy becomes the list, each wallet in it has *)
(* an id that was issued, at most once, and the envelope that was made     *)
(* with it: the one its user knows, that of the call still making it, or a *)
(* broken one.  A call that has yet to write its wallet is in no copy.     *)
Issued(n) == Ids(Old) \cup {NewIds[k] : k \in 1..n}

Fits(v, m, d, C, n) ==
  /\ v = [id |-> v.id, env |-> v.env] /\ v.id \in Issued(n)
  /\ IF v.id \in d
     THEN Broken(v.env)
     ELSE /\ Sealed(v.env)
          /\ v.id \in DOMAIN m => v.env \in Envelopes(m[v.id].phrase, m[v.id].password)
  /\ \A c \in C : c.at \in Making /\ c.id = v.id =>
       c.at \notin {"read", "write"} /\ v.env = EncryptWallet(c.phrase, c.password, "fresh")

ListOK(q, m, d, C, n) ==
  IsList(q) /\ Distinct(q) /\ \A k \in DOMAIN q : Fits(q[k], m, d, C, n)

MakerOK(c, m, d, C, n) ==
  /\ \E k \in 1..n : c.id = NewIds[k]
  /\ c.id \notin DOMAIN m /\ c.id \notin d
  /\ ValidMnemonic(c.phrase)
  /\ \A e \in C : e.at \in Making /\ e.id = c.id => e = c

Copies(L, S, C, m, d, n) ==
  /\ ListOK(L, m, d, C, n) /\ ListOK(S, m, d, C, n)
  /\ \A c \in C : c.at \in Holding => ListOK(c.got, m, d, C, n)
  /\ \A c \in C : c.at \in Making => MakerOK(c, m, d, C, n)
  /\ DOMAIN m \subseteq Issued(n) /\ d \subseteq Issued(n)

CopiesInv == Copies(list, state.wallets, calls, mine, damaged, made)

(* An envelope opens with its password and no other, in both formats.      *)
LEMMA EnvelopeOpens ==
  ASSUME NEW p, NEW w, NEW env \in Envelopes(p, w)
  PROVE  /\ \A x : DecryptWallet(env, x) = IF x = w THEN p ELSE Error
         /\ env.sealed.msg = p /\ env.sealed.password = w
  <1>1. CASE env = EncryptWallet(p, w, "fresh")
    BY <1>1 DEF EncryptWallet, Header, DecryptWallet, DecryptCurrent
  <1>2. CASE env = LegacyEnvelope(p, w, "fresh")
    <2>1. [Header("fresh") EXCEPT !.magic = "none"] =
            [magic |-> "none", format |-> <<1, 1, 1, 0>>, kdf |-> <<65536, 3, 1>>,
             salt |-> "fresh"]
      BY DEF Header
    <2> QED
      BY <1>2, <2>1 DEF LegacyEnvelope, DecryptWallet, DecryptLegacy
  <1> QED
    BY <1>1, <1>2 DEF Envelopes

(* However an envelope is changed, in one place, it opens no more.         *)
LEMMA DamageBreaks ==
  ASSUME NEW p, NEW w, NEW env \in Envelopes(p, w), NEW e \in Damaged(env)
  PROVE  Broken(e)
  <1> DEFINE H == [magic |-> "HYWLT001", format |-> <<1, 1, 1, 0>>, kdf |-> <<65536, 3, 1>>,
                   salt |-> "fresh"]
             N == [magic |-> "none", format |-> <<1, 1, 1, 0>>, kdf |-> <<65536, 3, 1>>,
                   salt |-> "fresh"]
             S(k) == [kind |-> k, password |-> w, salt |-> "fresh", aad |-> H, msg |-> p]
  <1>1. Header("fresh") = H /\ [Header("fresh") EXCEPT !.magic = "none"] = N
    BY DEF Header
  <1>2. CASE env = EncryptWallet(p, w, "fresh")
    <2>1. env = [header |-> H, sealed |-> S("aead")]
      BY <1>1, <1>2 DEF EncryptWallet
    <2>2. \/ e = [env EXCEPT !.header.magic = "none"]
          \/ e = [env EXCEPT !.header.salt = "other"]
          \/ e = [env EXCEPT !.sealed.kind = "noise"]
          \/ e = [env EXCEPT !.header.format = <<1, 1, 2, 0>>]
          \/ e = [env EXCEPT !.header.kdf = <<1, 1, 1>>]
      <3> DEFINE m == IF env.header.magic = "none" THEN "HYWLT001" ELSE "none"
      <3>1. m = "none" /\ env.header.magic # "none"
        BY <2>1
      <3>2. \/ e = [env EXCEPT !.header.magic = m]
            \/ e = [env EXCEPT !.header.salt = "other"]
            \/ e = [env EXCEPT !.sealed.kind = "noise"]
            \/ e = [env EXCEPT !.header.format = <<1, 1, 2, 0>>]
            \/ e = [env EXCEPT !.header.kdf = <<1, 1, 1>>]
        BY <3>1 DEF Damaged
      <3> HIDE DEF m
      <3> QED BY <3>1, <3>2
    <2>3. \A x : DecryptWallet([env EXCEPT !.header.magic = "none"], x) = Error
      BY <2>1 DEF DecryptWallet, DecryptLegacy
    <2>4. \A x : DecryptWallet([env EXCEPT !.header.salt = "other"], x) = Error
      BY <2>1 DEF DecryptWallet, DecryptCurrent
    <2>5. \A x : DecryptWallet([env EXCEPT !.sealed.kind = "noise"], x) = Error
      BY <2>1 DEF DecryptWallet, DecryptCurrent
    <2>6. \A x : DecryptWallet([env EXCEPT !.header.format = <<1, 1, 2, 0>>], x) = Error
      BY <2>1 DEF DecryptWallet, DecryptCurrent
    <2>7. \A x : DecryptWallet([env EXCEPT !.header.kdf = <<1, 1, 1>>], x) = Error
      BY <2>1 DEF DecryptWallet, DecryptCurrent
    <2> QED
      BY <2>2, <2>3, <2>4, <2>5, <2>6, <2>7 DEF Broken
  <1>3. CASE env = LegacyEnvelope(p, w, "fresh")
    <2>1. env = [header |-> N, sealed |-> S("xof")]
      BY <1>1, <1>3 DEF LegacyEnvelope
    <2>2. \/ e = [env EXCEPT !.header.magic = "HYWLT001"]
          \/ e = [env EXCEPT !.header.salt = "other"]
          \/ e = [env EXCEPT !.sealed.kind = "noise"]
      <3> DEFINE m == IF env.header.magic = "none" THEN "HYWLT001" ELSE "none"
      <3>1. m = "HYWLT001" /\ env.header.magic = "none"
        BY <2>1
      <3>2. \/ e = [env EXCEPT !.header.magic = m]
            \/ e = [env EXCEPT !.header.salt = "other"]
            \/ e = [env EXCEPT !.sealed.kind = "noise"]
        BY <3>1 DEF Damaged
      <3> HIDE DEF m
      <3> QED BY <3>1, <3>2
    <2>3. \A x : DecryptWallet([env EXCEPT !.header.magic = "HYWLT001"], x) = Error
      BY <2>1 DEF DecryptWallet, DecryptCurrent
    <2>4. \A x : DecryptWallet([env EXCEPT !.header.salt = "other"], x) = Error
      BY <2>1 DEF DecryptWallet, DecryptLegacy
    <2>5. \A x : DecryptWallet([env EXCEPT !.sealed.kind = "noise"], x) = Error
      BY <2>1 DEF DecryptWallet, DecryptLegacy
    <2> QED
      BY <2>2, <2>3, <2>4, <2>5 DEF Broken
  <1> QED
    BY <1>2, <1>3 DEF Envelopes

(* When what is known of the wallets changes.                              *)
LearnsFrom(m2, m, C) ==
  \A id \in DOMAIN m2 :
    \/ id \in DOMAIN m /\ m2[id] = m[id]
    \/ \E c \in C : /\ c.at = "rewards" /\ c.id = id
                    /\ m2[id].phrase = c.phrase /\ m2[id].password = c.password
FollowsFrom(C2, C, n) ==
  \A c \in C2 : c.at \in Making =>
    \/ c.id \notin Issued(n)
    \/ \E e \in C : /\ e.at \in Making
                    /\ e.id = c.id /\ e.phrase = c.phrase /\ e.password = c.password
                    /\ (e.at \in {"read", "write"} \/ c.at \notin {"read", "write"})

(* Ids once issued stay issued.                                            *)
LEMMA IssuedGrows ==
  ASSUME NEW n \in Nat, NEW n2 \in Nat, n <= n2
  PROVE  Issued(n) \subseteq Issued(n2)
  <1>1. 1..n \subseteq 1..n2
    OBVIOUS
  <1> QED
    BY <1>1 DEF Issued

(* A wallet with its own envelope keeps it while calls move on and users   *)
(* learn what is theirs.                                                   *)
LEMMA FitsKept ==
  ASSUME NEW v, NEW m, NEW d, NEW C, NEW n \in Nat, NEW m2, NEW C2, NEW n2 \in Nat,
         Fits(v, m, d, C, n), n <= n2, LearnsFrom(m2, m, C), FollowsFrom(C2, C, n)
  PROVE  Fits(v, m2, d, C2, n2)
  <1>1. v.id \in Issued(n) /\ v.id \in Issued(n2)
    BY IssuedGrows DEF Fits
  <1>2. ASSUME v.id \in DOMAIN m2, v.id \notin d
        PROVE  v.env \in Envelopes(m2[v.id].phrase, m2[v.id].password)
    <2>1. CASE v.id \in DOMAIN m /\ m2[v.id] = m[v.id]
      BY <1>2, <2>1 DEF Fits
    <2>2. CASE ~(v.id \in DOMAIN m /\ m2[v.id] = m[v.id])
      <3>1. PICK c \in C : /\ c.at = "rewards" /\ c.id = v.id
                           /\ m2[v.id].phrase = c.phrase /\ m2[v.id].password = c.password
        BY <1>2, <2>2 DEF LearnsFrom
      <3>2. v.env = EncryptWallet(c.phrase, c.password, "fresh")
        BY <3>1 DEF Fits, Making
      <3> QED
        BY <3>1, <3>2 DEF Envelopes
    <2> QED
      BY <2>1, <2>2
  <1>3. ASSUME NEW c \in C2, c.at \in Making, c.id = v.id
        PROVE  c.at \notin {"read", "write"} /\ v.env = EncryptWallet(c.phrase, c.password, "fresh")
    <2>1. PICK e \in C : /\ e.at \in Making
                         /\ e.id = c.id /\ e.phrase = c.phrase /\ e.password = c.password
                         /\ (e.at \in {"read", "write"} \/ c.at \notin {"read", "write"})
      BY <1>1, <1>3 DEF FollowsFrom
    <2> QED
      BY <1>3, <2>1 DEF Fits
  <1> QED
    BY <1>1, <1>2, <1>3 DEF Fits

(* And so does every wallet of a list.                                     *)
LEMMA ListKept ==
  ASSUME NEW q, NEW m, NEW d, NEW C, NEW n \in Nat, NEW m2, NEW C2, NEW n2 \in Nat,
         ListOK(q, m, d, C, n), n <= n2, LearnsFrom(m2, m, C), FollowsFrom(C2, C, n)
  PROVE  ListOK(q, m2, d, C2, n2)
  BY FitsKept DEF ListOK

(* Deleting one wallet leaves the others their envelopes.                  *)
LEMMA ListWithout ==
  ASSUME NEW q, NEW m, NEW d, NEW C, NEW n, ListOK(q, m, d, C, n), NEW id
  PROVE  ListOK(Without(q, id), m, d, C, n)
  <1> DEFINE r == Without(q, id)
  <1>1. IsList(r) /\ Distinct(r) /\ \A j \in DOMAIN r : \E k \in DOMAIN q : r[j] = q[k]
    BY WithoutLeaves DEF ListOK
  <1> HIDE DEF r
  <1>2. \A j \in DOMAIN r : Fits(r[j], m, d, C, n)
    BY <1>1 DEF ListOK
  <1> QED
    BY <1>1, <1>2 DEF ListOK, r

(* Steps that make no wallet and teach the user of none.                   *)
LEMMA CopiesQuiet ==
  ASSUME NEW L, NEW S, NEW C, NEW m, NEW d, NEW n \in Nat, Copies(L, S, C, m, d, n),
         NEW L2, NEW S2, NEW C2, NEW m2,
         ListOK(L2, m, d, C, n), ListOK(S2, m, d, C, n),
         \A c \in C2 : c.at \in Holding => ListOK(c.got, m, d, C, n),
         \A c \in C2 : c.at \in Making => c \in C,
         \A id \in DOMAIN m2 : id \in DOMAIN m /\ m2[id] = m[id]
  PROVE  Copies(L2, S2, C2, m2, d, n)
  <1>1. LearnsFrom(m2, m, C)
    BY DEF LearnsFrom
  <1>2. FollowsFrom(C2, C, n)
    <2> SUFFICES ASSUME NEW c \in C2, c.at \in Making
                 PROVE  \E e \in C : /\ e.at \in Making
                          /\ e.id = c.id /\ e.phrase = c.phrase /\ e.password = c.password
                          /\ (e.at \in {"read", "write"} \/ c.at \notin {"read", "write"})
      BY DEF FollowsFrom
    <2> QED
      OBVIOUS
  <1>3. \A q : ListOK(q, m, d, C, n) => ListOK(q, m2, d, C2, n)
    BY <1>1, <1>2, ListKept
  <1>4. \A c \in C2 : c.at \in Making => MakerOK(c, m2, d, C2, n)
    BY DEF Copies, MakerOK
  <1>5. DOMAIN m2 \subseteq Issued(n) /\ d \subseteq Issued(n)
    BY DEF Copies
  <1> QED
    BY <1>3, <1>4, <1>5 DEF Copies

(* A call that makes a wallet takes a step.                                *)
LEMMA CopiesMove ==
  ASSUME NEW L, NEW S, NEW C, NEW m, NEW d, NEW n \in Nat, Copies(L, S, C, m, d, n),
         NEW c \in C, c.at \in Making, NEW e, e.at \in Making,
         e.id = c.id, e.phrase = c.phrase, e.password = c.password,
         e.at \in {"read", "write"} => c.at \in {"read", "write"},
         e.at \in Holding => ListOK(e.got, m, d, C, n),
         NEW C2, C2 = (C \ {c}) \cup {e},
         NEW L2, NEW S2,
         ListOK(L2, m, d, C2, n), ListOK(S2, m, d, C, n)
  PROVE  Copies(L2, S2, C2, m, d, n)
  <1>1. LearnsFrom(m, m, C)
    BY DEF LearnsFrom
  <1>2. FollowsFrom(C2, C, n)
    <2> SUFFICES ASSUME NEW f \in C2, f.at \in Making
                 PROVE  \E g \in C : /\ g.at \in Making
                          /\ g.id = f.id /\ g.phrase = f.phrase /\ g.password = f.password
                          /\ (g.at \in {"read", "write"} \/ f.at \notin {"read", "write"})
      BY DEF FollowsFrom
    <2>1. CASE f = e
      BY <2>1
    <2>2. CASE f \in C
      BY <2>2
    <2> QED
      BY <2>1, <2>2
  <1>3. \A q : ListOK(q, m, d, C, n) => ListOK(q, m, d, C2, n)
    BY <1>1, <1>2, ListKept
  <1>4. ASSUME NEW f \in C2, f.at \in Making
        PROVE  MakerOK(f, m, d, C2, n)
    <2>1. MakerOK(c, m, d, C, n) /\ \A g \in C : g.at \in Making => MakerOK(g, m, d, C, n)
      BY DEF Copies
    <2>2. CASE f = e
      <3>1. \A g \in C2 : g.at \in Making /\ g.id = e.id => g = e
        BY <2>1 DEF MakerOK
      <3> QED
        BY <2>1, <2>2, <3>1 DEF MakerOK
    <2>3. CASE f \in C /\ f # c
      <3>1. \A g \in C2 : g.at \in Making /\ g.id = f.id => g = f
        BY <1>4, <2>1, <2>3 DEF MakerOK
      <3> QED
        BY <1>4, <2>1, <2>3, <3>1 DEF MakerOK
    <2> QED
      BY <2>2, <2>3
  <1>5. \A f \in C2 : f.at \in Holding => ListOK(f.got, m, d, C2, n)
    BY <1>3 DEF Copies
  <1> QED
    BY <1>3, <1>4, <1>5 DEF Copies

(* A wallet is written.                                                    *)
LEMMA WrittenFits ==
  ASSUME NEW L, NEW S, NEW C, NEW m, NEW d, NEW n \in Nat, Copies(L, S, C, m, d, n),
         NEW c \in C, c.at = "write", NEW e, e.at = "activate",
         e.id = c.id, e.phrase = c.phrase, e.password = c.password,
         NEW C2, C2 = (C \ {c}) \cup {e}
  PROVE  ListOK(Append(c.got, [id |-> c.id, env |-> EncryptWallet(c.phrase, c.password, "fresh")]),
                m, d, C2, n)
  <1> DEFINE q == c.got
             v == [id |-> c.id, env |-> EncryptWallet(c.phrase, c.password, "fresh")]
             r == Append(q, v)
  <1>1. c.at \in Making /\ c.at \in Holding
    BY DEF Making, Holding
  <1>2. ListOK(q, m, d, C, n) /\ MakerOK(c, m, d, C, n)
    BY <1>1 DEF Copies
  <1>3. LearnsFrom(m, m, C)
    BY DEF LearnsFrom
  <1>4. FollowsFrom(C2, C, n)
    <2> SUFFICES ASSUME NEW f \in C2, f.at \in Making
                 PROVE  \E g \in C : /\ g.at \in Making
                          /\ g.id = f.id /\ g.phrase = f.phrase /\ g.password = f.password
                          /\ (g.at \in {"read", "write"} \/ f.at \notin {"read", "write"})
      BY DEF FollowsFrom
    <2>1. CASE f = e
      BY <1>1, <2>1
    <2>2. CASE f \in C
      BY <2>2
    <2> QED
      BY <2>1, <2>2
  <1>5. ListOK(q, m, d, C2, n)
    BY <1>2, <1>3, <1>4, ListKept
  <1>6. Fits(v, m, d, C2, n)
    <2>1. v.id = c.id /\ v.env = EncryptWallet(c.phrase, c.password, "fresh")
      OBVIOUS
    <2>2. v = [id |-> v.id, env |-> v.env]
      BY <2>1
    <2> HIDE DEF v
    <2>3. v.id \in Issued(n) /\ v.id \notin d /\ v.id \notin DOMAIN m
      BY <1>2, <2>1 DEF MakerOK, Issued
    <2>4. v.env \in Envelopes(c.phrase, c.password) /\ ValidMnemonic(c.phrase)
      BY <1>2, <2>1 DEF Envelopes, MakerOK
    <2>5. Sealed(v.env)
      BY <2>4, EnvelopeOpens DEF Sealed
    <2>6. ASSUME NEW f \in C2, f.at \in Making, f.id = v.id
          PROVE  f = e
      BY <1>2, <2>1, <2>6 DEF MakerOK
    <2> QED
      BY <2>1, <2>2, <2>3, <2>5, <2>6 DEF Fits
  <1>7. \A k \in DOMAIN q : q[k].id # c.id
    BY <1>1, <1>2 DEF ListOK, Fits
  <1>8. v.id = c.id
    OBVIOUS
  <1> HIDE DEF q, v
  <1>9. /\ IsList(r) /\ Len(r) = Len(q) + 1 /\ r[Len(q) + 1] = v
        /\ \A k \in 1..Len(q) : r[k] = q[k]
    BY <1>2, ListAppends DEF ListOK
  <1> HIDE DEF r
  <1>10. /\ DOMAIN r = 1..(Len(q) + 1) /\ DOMAIN q = 1..Len(q) /\ Len(q) \in Nat
    BY <1>2, <1>9, ListShape DEF ListOK
  <1>11. Distinct(r)
    BY <1>2, <1>7, <1>8, <1>9, <1>10 DEF ListOK, Distinct
  <1>12. \A k \in DOMAIN r : Fits(r[k], m, d, C2, n)
    <2> TAKE k \in DOMAIN r
    <2>1. CASE k = Len(q) + 1
      BY <1>6, <1>9, <2>1
    <2>2. CASE k # Len(q) + 1
      <3>1. k \in 1..Len(q) /\ k \in DOMAIN q
        BY <1>10, <2>2
      <3>2. Fits(q[k], m, d, C2, n)
        BY <1>5, <3>1 DEF ListOK
      <3> QED
        BY <1>9, <3>1, <3>2
    <2> QED
      BY <2>1, <2>2
  <1>13. ListOK(r, m, d, C2, n)
    BY <1>9, <1>11, <1>12 DEF ListOK
  <1> QED
    BY <1>13 DEF q, v, r

(* A wallet is begun, or its mnemonic is refused.                          *)
LEMMA CopiesBegin ==
  ASSUME NEW L, NEW S, NEW C, NEW m, NEW d, NEW n \in Nat, Copies(L, S, C, m, d, n),
         n < MaxChanges,
         NEW e, e.at = "read", e.id = NewIds[n + 1], ValidMnemonic(e.phrase),
         NEW C2, C2 = C \/ C2 = C \cup {e}
  PROVE  Copies(L, S, C2, m, d, n + 1)
  <1>1. LearnsFrom(m, m, C)
    BY DEF LearnsFrom
  <1>2. NewIds[n + 1] \notin Issued(n)
    <2>1. n + 1 \in 1..MaxChanges /\ \A k \in 1..n : k \in 1..MaxChanges /\ k # n + 1
      BY BoundAssumption
    <2>2. \A k \in 1..n : NewIds[k] # NewIds[n + 1]
      BY <2>1, IdAssumption
    <2>3. \A k \in DOMAIN Old : Old[k].id # NewIds[n + 1]
      BY <2>1, OldAssumption
    <2> QED
      BY <2>2, <2>3 DEF Issued, Ids
  <1>3. FollowsFrom(C2, C, n)
    BY <1>2 DEF FollowsFrom
  <1>4. n + 1 \in Nat /\ n <= n + 1
    OBVIOUS
  <1>5. \A q : ListOK(q, m, d, C, n) => ListOK(q, m, d, C2, n + 1)
    BY <1>1, <1>3, <1>4, ListKept
  <1>6. ASSUME NEW f \in C2, f.at \in Making
        PROVE  MakerOK(f, m, d, C2, n + 1)
    <2>1. \A g \in C : g.at \in Making => MakerOK(g, m, d, C, n)
      BY DEF Copies
    <2>2. \A g \in C : g.at \in Making => g.id \in Issued(n)
      BY <2>1 DEF MakerOK, Issued
    <2>3. CASE f \in C
      <3>1. \E k \in 1..(n + 1) : f.id = NewIds[k]
        BY <1>6, <2>1, <2>3 DEF MakerOK
      <3>2. \A g \in C2 : g.at \in Making /\ g.id = f.id => g = f
        BY <1>2, <1>6, <2>1, <2>2, <2>3 DEF MakerOK
      <3> QED
        BY <1>6, <2>1, <2>3, <3>1, <3>2 DEF MakerOK
    <2>4. CASE f = e
      <3>1. n + 1 \in 1..(n + 1)
        OBVIOUS
      <3>2. f.id \notin DOMAIN m /\ f.id \notin d
        BY <1>2, <2>4 DEF Copies
      <3>3. \A g \in C2 : g.at \in Making /\ g.id = f.id => g = f
        BY <1>2, <2>2, <2>4
      <3> QED
        BY <2>4, <3>1, <3>2, <3>3 DEF MakerOK
    <2> QED
      BY <2>3, <2>4
  <1>7. Issued(n) \subseteq Issued(n + 1)
    BY <1>4, IssuedGrows
  <1>8. \A f \in C2 : f.at \in Holding => f \in C
    BY DEF Holding
  <1> QED
    BY <1>5, <1>6, <1>7, <1>8 DEF Copies

(* The user learns of a wallet: the call that made it returns.             *)
LEMMA CopiesLearn ==
  ASSUME NEW L, NEW S, NEW C, NEW m, NEW d, NEW n \in Nat, Copies(L, S, C, m, d, n),
         NEW c \in C, c.at = "rewards", NEW m2, DOMAIN m2 = DOMAIN m \cup {c.id},
         \A id \in DOMAIN m : id # c.id => m2[id] = m[id],
         m2[c.id].phrase = c.phrase, m2[c.id].password = c.password
  PROVE  Copies(L, S, C \ {c}, m2, d, n)
  <1> DEFINE C2 == C \ {c}
  <1>1. c.at \in Making
    BY DEF Making
  <1>2. \A g \in C : g.at \in Making => MakerOK(g, m, d, C, n)
    BY DEF Copies
  <1>3. LearnsFrom(m2, m, C)
    BY DEF LearnsFrom
  <1>4. FollowsFrom(C2, C, n)
    <2> SUFFICES ASSUME NEW f \in C2, f.at \in Making
                 PROVE  \E g \in C : /\ g.at \in Making
                          /\ g.id = f.id /\ g.phrase = f.phrase /\ g.password = f.password
                          /\ (g.at \in {"read", "write"} \/ f.at \notin {"read", "write"})
      BY DEF FollowsFrom
    <2> QED
      OBVIOUS
  <1>5. \A q : ListOK(q, m, d, C, n) => ListOK(q, m2, d, C2, n)
    BY <1>3, <1>4, ListKept
  <1>6. ASSUME NEW f \in C2, f.at \in Making
        PROVE  MakerOK(f, m2, d, C2, n)
    <2>1. f.id # c.id
      BY <1>1, <1>2, <1>6 DEF MakerOK
    <2> QED
      BY <1>2, <1>6, <2>1 DEF MakerOK
  <1>7. c.id \in Issued(n)
    BY <1>1, <1>2 DEF MakerOK, Issued
  <1> QED
    BY <1>5, <1>6, <1>7 DEF Copies

(* An envelope is damaged, and the service has loaded it.                  *)
LEMMA CopiesDamaged ==
  ASSUME NEW L, NEW S, NEW m, NEW d, NEW n \in Nat, Copies(L, S, {}, m, d, n),
         NEW k \in DOMAIN L, L[k].id \notin d, NEW env \in Damaged(L[k].env)
  PROVE  LET L2 == [L EXCEPT ![k].env = env]
         IN  Copies(L2, L2, {}, m, d \cup {L[k].id}, n)
  <1> DEFINE L2 == [L EXCEPT ![k].env = env]
             d2 == d \cup {L[k].id}
  <1>1. IsList(L) /\ Distinct(L) /\ \A j \in DOMAIN L : Fits(L[j], m, d, {}, n)
    BY DEF Copies, ListOK
  <1>2. L[k] = [id |-> L[k].id, env |-> L[k].env] /\ Sealed(L[k].env) /\ L[k].id \in Issued(n)
    BY <1>1 DEF Fits
  <1>3. Broken(env)
    BY <1>2, DamageBreaks DEF Sealed
  <1> DEFINE v == [L[k] EXCEPT !.env = env]
  <1>4. v = [id |-> L[k].id, env |-> env]
    <2> DEFINE i == L[k].id
               o == L[k].env
    <2>1. L[k] = [id |-> i, env |-> o]
      BY <1>2
    <2> HIDE DEF i, o
    <2>2. v = [id |-> i, env |-> env]
      BY <2>1
    <2> QED
      BY <2>2 DEF i
  <1>5. DOMAIN L2 = DOMAIN L /\ L2[k] = v /\ \A j \in DOMAIN L : j # k => L2[j] = L[j]
    OBVIOUS
  <1>6. IsList(L2)
    <2>1. PICK T : L \in Seq(T)
      BY <1>1 DEF IsList
    <2> DEFINE U == T \cup {v}
    <2>2. DOMAIN L = 1..Len(L) /\ Len(L) \in Nat /\ \A j \in 1..Len(L) : L[j] \in T
      BY <2>1
    <2>3. v \in U /\ T \subseteq U
      OBVIOUS
    <2>4. L2 = [j \in 1..Len(L) |-> L2[j]]
      BY <2>2
    <2> HIDE DEF L2, v, U
    <2>5. \A j \in 1..Len(L) : L2[j] \in U
      BY <1>5, <2>2, <2>3
    <2> DEFINE N == Len(L)
    <2>6. L2 \in [1..N -> U] /\ N \in Nat
      BY <2>2, <2>4, <2>5
    <2> HIDE DEF N
    <2>7. L2 \in Seq(U)
      BY <2>6
    <2> QED
      BY <2>7 DEF IsList
  <1> HIDE DEF L2, v
  <1>7. \A j \in DOMAIN L : L2[j].id = L[j].id
    BY <1>4, <1>5
  <1>8. Distinct(L2)
    BY <1>1, <1>5, <1>7 DEF Distinct
  <1>9. ASSUME NEW j \in DOMAIN L2
        PROVE  Fits(L2[j], m, d2, {}, n)
    <2>1. CASE j = k
      <3>1. v.id = L[k].id /\ v.env = env /\ v = [id |-> v.id, env |-> v.env]
        BY <1>4
      <3> QED
        BY <1>2, <1>3, <1>5, <2>1, <3>1 DEF Fits
    <2>2. CASE j # k
      <3>1. L2[j] = L[j] /\ L[j].id # L[k].id
        BY <1>1, <1>5, <2>2 DEF Distinct
      <3> QED
        BY <1>1, <1>5, <3>1 DEF Fits
    <2> QED
      BY <2>1, <2>2
  <1>10. ListOK(L2, m, d2, {}, n)
    BY <1>6, <1>8, <1>9 DEF ListOK
  <1>11. DOMAIN m \subseteq Issued(n) /\ d2 \subseteq Issued(n)
    BY <1>2 DEF Copies
  <1>12. Copies(L2, L2, {}, m, d2, n)
    BY <1>10, <1>11 DEF Copies
  <1> QED
    BY <1>12 DEF L2

-----------------------------------------------------------------------------
(* The actions in terms of turns and states.                               *)
LEMMA TurnsOfCalls ==
  ASSUME CallsTyped, NEW c \in calls
  PROVE  /\ ReadList(c) => Turn(c, "write", c.id, list)
         /\ WriteList(c) => Turn(c, "activate", c.id, c.got)
         /\ WriteActive(c) => Turn(c, "reload", c.id, c.got)
         /\ Reload(c) => Turn(c, "publish", c.id, list)
         /\ Publish(c) => Turn(c, "rewards", c.id, c.got)
         /\ NextActive(c) => Turn(c, "settle", c.id, c.got)
         /\ \A id : Delete(c, id) => Turn(c, "deleted", id, Without(state.wallets, id))
         /\ NetworkStored(c) /\ IsUnlocked =>
              Turn(c, "derive", c.id, DefaultAddress(state.session.seed, c.id = "mainnet"))
  <1>1. CallTyped(c)
    BY DEF CallsTyped
  <1>2. \A at : Step(c, at) => Turn(c, at, c.id, c.got)
    BY <1>1, Turns
  <1>3. \A at, got : StepWith(c, at, got) => Turn(c, at, c.id, got)
    BY <1>1, Turns
  <1>4. ASSUME NEW id, Delete(c, id)
        PROVE  Turn(c, "deleted", id, Without(state.wallets, id))
    <2> DEFINE g == Without(state.wallets, id)
    <2>1. calls' = (calls \ {c}) \cup {MovedTo(c, "deleted", id, g)}
      BY <1>4 DEF Delete, MovedTo
    <2> HIDE DEF g
    <2>2. Turn(c, "deleted", id, g)
      BY <1>1, <2>1, Turns
    <2> QED
      BY <2>2 DEF g
  <1>5. ReadList(c) => Turn(c, "write", c.id, list)
    BY <1>3 DEF ReadList
  <1>6. WriteList(c) => Turn(c, "activate", c.id, c.got)
    BY <1>2 DEF WriteList
  <1>7. WriteActive(c) => Turn(c, "reload", c.id, c.got)
    BY <1>2 DEF WriteActive
  <1>8. Reload(c) => Turn(c, "publish", c.id, list)
    BY <1>3 DEF Reload
  <1>9. Publish(c) => Turn(c, "rewards", c.id, c.got)
    BY <1>2 DEF Publish
  <1>10. NextActive(c) => Turn(c, "settle", c.id, c.got)
    BY <1>2 DEF NextActive
  <1>11. NetworkStored(c) /\ IsUnlocked =>
           Turn(c, "derive", c.id, DefaultAddress(state.session.seed, c.id = "mainnet"))
    BY <1>3 DEF NetworkStored
  <1> QED
    BY <1>4, <1>5, <1>6, <1>7, <1>8, <1>9, <1>10, <1>11

(* What each step of a call makes of the service's state.                  *)
LEMMA StatesOfCalls ==
  ASSUME StateTyped, NEW c \in calls
  PROVE  /\ Publish(c) => state' = State(c.got, c.id, state.network,
                                         Session(Opened(c.phrase, c.password), state.network))
         /\ Discard(c) => state' = State(state.wallets, state.active, state.network, Locked)
         /\ StaysActive(c) => state' = State(c.got, state.active, state.network, state.session)
         /\ Deleted(c) => state' = State(c.got, FirstId(c.got), state.network, Locked)
         /\ Renamed(c) => state' = State(c.got, state.active, state.network, state.session)
         /\ Switched(c) => state' = State(state.wallets, c.id, state.network, Locked)
         /\ Unlocked(c) =>
              IF c.phrase = Error THEN state' = state
              ELSE state' = State(state.wallets, state.active, state.network,
                                  Session(Opened(c.phrase, c.password), state.network))
         /\ NetworkStored(c) =>
              IF IsUnlocked THEN state' = state
              ELSE state' = State(state.wallets, state.active, c.id, state.session)
         /\ NetworkDerived(c) =>
              state' = State(state.wallets, state.active, c.id,
                             [state.session EXCEPT !.address = c.got])
  <1>1. state = State(state.wallets, state.active, state.network, state.session)
    BY DEF StateTyped, State
  <1>2. \A w : WithWallets(state, w) = State(w, state.active, state.network, state.session)
    BY <1>1, StateSets
  <1>3. \A e : WithSession(state, e) = State(state.wallets, state.active, state.network, e)
    BY <1>1, StateSets
  <1>4. \A n : WithNetwork(state, n) = State(state.wallets, state.active, n, state.session)
    BY <1>1, StateSets
  <1>5. \A a, e : WithActive(state, a, e) = State(state.wallets, a, state.network, e)
    BY <1>1, StateSets
  <1>6. \A w, a, e : WithAll(state, w, a, e) = State(w, a, state.network, e)
    BY <1>1, StateSets
  <1>7. \A n, e : WithAddress(state, n, e) =
          State(state.wallets, state.active, n, [state.session EXCEPT !.address = e])
    BY <1>1, StateSets
  <1>8. Publish(c) => state' = WithAll(state, c.got, c.id,
                                 Session(Opened(c.phrase, c.password), state.network))
    BY DEF Publish, WithAll
  <1>9. Discard(c) => state' = WithSession(state, Locked)
    BY DEF Discard, WithSession
  <1>10. StaysActive(c) => state' = WithWallets(state, c.got)
    BY DEF StaysActive, WithWallets
  <1>11. Deleted(c) => state' = WithAll(state, c.got, FirstId(c.got), Locked)
    BY DEF Deleted, WithAll
  <1>12. Renamed(c) => state' = WithWallets(state, c.got)
    BY DEF Renamed, WithWallets
  <1>13. Switched(c) => state' = WithActive(state, c.id, Locked)
    BY DEF Switched, WithActive
  <1>14. Unlocked(c) =>
           IF c.phrase = Error THEN state' = state
           ELSE state' = WithSession(state, Session(Opened(c.phrase, c.password), state.network))
    BY DEF Unlocked, Reopened, WithSession
  <1>15. NetworkStored(c) =>
           IF IsUnlocked THEN state' = state ELSE state' = WithNetwork(state, c.id)
    BY DEF NetworkStored, WithNetwork
  <1>16. NetworkDerived(c) => state' = WithAddress(state, c.id, c.got)
    BY DEF NetworkDerived, WithAddress
  <1>17. Lock => state' = WithSession(state, Locked)
    BY DEF Lock, WithSession
  <1> QED
    BY <1>2, <1>3, <1>4, <1>5, <1>6, <1>7, <1>8, <1>9, <1>10, <1>11, <1>12, <1>13, <1>14,
       <1>15, <1>16

(* lock keeps all but the session.                                         *)
LEMMA StateOfLock ==
  ASSUME StateTyped, Lock
  PROVE  state' = State(state.wallets, state.active, state.network, Locked)
  <1>1. state = State(state.wallets, state.active, state.network, state.session)
    BY DEF StateTyped, State
  <1>2. state' = WithSession(state, Locked)
    BY DEF Lock, WithSession
  <1> QED
    BY <1>1, <1>2, StateSets

(* How the typing follows.                                                 *)
LEMMA TypedTurn ==
  ASSUME CallsTyped, NEW c \in calls, NEW at, NEW id, NEW got, Turn(c, at, id, got),
         overlaps' = overlaps,
         CallTyped(Call(c.op, at, id, c.phrase, c.password, got))
  PROVE  CallsTyped'
  <1> DEFINE d == Call(c.op, at, id, c.phrase, c.password, got)
  <1>1. calls' = (calls \ {c}) \cup {d} /\ CallTyped(d)
    BY DEF Turn
  <1> HIDE DEF d
  <1>2. overlaps \in Nat /\ overlaps' \in 0..MaxOverlaps
    BY BoundAssumption DEF CallsTyped
  <1>3. IsFiniteSet(calls') /\ Cardinality(calls') <= 1 + overlaps
    BY <1>1, <1>2, CallsCount DEF CallsTyped
  <1>4. \A e \in calls' : CallTyped(e)
    BY <1>1 DEF CallsTyped
  <1> QED
    BY <1>2, <1>3, <1>4 DEF CallsTyped

(* A call that ends leaves the others typed.                               *)
LEMMA TypedEnd ==
  ASSUME CallsTyped, NEW c, End(c), overlaps' = overlaps
  PROVE  CallsTyped'
  <1>1. calls' = calls \ {c}
    BY DEF End
  <1>2. overlaps \in Nat /\ overlaps' \in 0..MaxOverlaps
    BY BoundAssumption DEF CallsTyped
  <1>3. IsFiniteSet(calls') /\ Cardinality(calls') <= 1 + overlaps
    BY <1>1, <1>2, CallsCount DEF CallsTyped
  <1>4. \A e \in calls' : CallTyped(e)
    BY <1>1 DEF CallsTyped
  <1> QED
    BY <1>2, <1>3, <1>4 DEF CallsTyped

(* A call that begins is one more overlap at most.                         *)
LEMMA TypedBegin ==
  ASSUME CallsTyped, NEW d, CallTyped(d), MayBegin,
         calls' = calls \cup {d} \/ calls' = calls
  PROVE  CallsTyped'
  <1> DEFINE n == overlaps + (IF calls = {} THEN 0 ELSE 1)
  <1>1. overlaps' = n /\ overlaps \in Nat /\ n \in Nat
    BY BoundAssumption DEF CallsTyped, MayBegin
  <1>2. n \in 0..MaxOverlaps
    BY BoundAssumption DEF CallsTyped, MayBegin
  <1>3. /\ IsFiniteSet(calls \cup {d}) /\ Cardinality(calls \cup {d}) <= 1 + n
    BY <1>1, CallsCount DEF CallsTyped
  <1>4. IsFiniteSet(calls) /\ Cardinality(calls) <= 1 + n
    <2>1. IsFiniteSet(calls) /\ Cardinality(calls) <= 1 + overlaps /\ Cardinality(calls) \in Nat
      BY FS_CardinalityType DEF CallsTyped
    <2> QED
      BY <1>1, <2>1
  <1>5. \A e \in calls' : CallTyped(e)
    BY DEF CallsTyped
  <1> HIDE DEF n
  <1>6. IsFiniteSet(calls') /\ Cardinality(calls') <= 1 + overlaps'
    BY <1>1, <1>3, <1>4
  <1> QED
    BY <1>1, <1>2, <1>5, <1>6 DEF CallsTyped

(* A state put together from its parts is typed.                           *)
LEMMA TypedState ==
  ASSUME NEW w, NEW a, NEW n \in Networks, NEW e,
         e = [seed |-> e.seed, address |-> e.address],
         state' = State(w, a, n, e), network' \in Networks
  PROVE  StateTyped'
  <1>1. /\ state'.wallets = w /\ state'.active = a /\ state'.network = n /\ state'.session = e
    BY DEF State
  <1>2. state' = [wallets |-> state'.wallets, active |-> state'.active,
                  network |-> state'.network, session |-> state'.session]
    BY <1>1 DEF State
  <1> QED
    BY <1>1, <1>2 DEF StateTyped

(* Sessions have two fields.                                               *)
LEMMA SessionShape ==
  /\ Locked = [seed |-> Locked.seed, address |-> Locked.address]
  /\ \A r, net : Session(r, net) =
       [seed |-> Session(r, net).seed, address |-> Session(r, net).address]
  /\ \A e, x : e = [seed |-> e.seed, address |-> e.address] =>
       LET f == [e EXCEPT !.address = x]
       IN  f = [seed |-> f.seed, address |-> f.address]
  BY DEF Locked, Session

-----------------------------------------------------------------------------
(* Every step keeps the copies.                                            *)
VaultInv == StateTyped /\ CountsTyped /\ CallsTyped /\ CopiesInv
Good(q) == ListOK(q, mine, damaged, calls, made)

(* A step that makes no wallet and writes only lists that are good keeps   *)
(* all copies good.                                                        *)
LEMMA QuietStep ==
  ASSUME CountsTyped, CopiesInv, NEW d, d.at \notin Making, d.at \in Holding => Good(d.got),
         calls' \subseteq calls \cup {d}, Good(list'), Good(state'.wallets),
         made' = made, damaged' = damaged,
         \A id \in DOMAIN mine' : id \in DOMAIN mine /\ mine'[id] = mine[id]
  PROVE  CopiesInv'
  <1>1. Copies(list, state.wallets, calls, mine, damaged, made) /\ made \in Nat
    BY DEF CopiesInv, CountsTyped
  <1>2. \A c \in calls' : c.at \in Holding => ListOK(c.got, mine, damaged, calls, made)
    BY <1>1 DEF Copies, Good
  <1>3. \A c \in calls' : c.at \in Making => c \in calls
    OBVIOUS
  <1>4. Copies(list', state'.wallets, calls', mine', damaged, made)
    BY <1>1, <1>2, <1>3, CopiesQuiet DEF Good
  <1> QED
    BY <1>4 DEF CopiesInv

(* The same of a step that ends calls.                                     *)
LEMMA QuietEnd ==
  ASSUME CountsTyped, CopiesInv, calls' \subseteq calls, Good(list'), Good(state'.wallets),
         made' = made, damaged' = damaged, mine' = mine
  PROVE  CopiesInv'
  <1> DEFINE d == [at |-> "over"]
  <1>1. d.at \notin Making /\ d.at \notin Holding
    BY DEF Making, Holding
  <1>2. calls' \subseteq calls \cup {d}
    OBVIOUS
  <1> HIDE DEF d
  <1> QED
    BY <1>1, <1>2, QuietStep

(* The same of a step of a call that makes a wallet, up to its write.      *)
LEMMA MakingStep ==
  ASSUME CountsTyped, CopiesInv, NEW c \in calls, c.at \in Making, NEW at \in Making, NEW got,
         Turn(c, at, c.id, got),
         at \in {"read", "write"} => c.at \in {"read", "write"},
         at \in Holding => Good(got),
         list' = list, Good(state'.wallets),
         made' = made, damaged' = damaged, mine' = mine
  PROVE  CopiesInv'
  <1>1. Copies(list, state.wallets, calls, mine, damaged, made) /\ made \in Nat
    BY DEF CopiesInv, CountsTyped
  <1> DEFINE e == Call(c.op, at, c.id, c.phrase, c.password, got)
  <1>2. /\ e.at = at /\ e.id = c.id /\ e.phrase = c.phrase /\ e.password = c.password
        /\ e.got = got
    BY CallFields
  <1>3. calls' = (calls \ {c}) \cup {e}
    BY DEF Turn
  <1> HIDE DEF e
  <1>4. Good(list)
    BY <1>1 DEF Copies, Good
  <1>5. LearnsFrom(mine, mine, calls)
    BY DEF LearnsFrom
  <1>6. FollowsFrom(calls', calls, made)
    <2> SUFFICES ASSUME NEW f \in calls', f.at \in Making
                 PROVE  \E g \in calls : /\ g.at \in Making
                          /\ g.id = f.id /\ g.phrase = f.phrase /\ g.password = f.password
                          /\ (g.at \in {"read", "write"} \/ f.at \notin {"read", "write"})
      BY DEF FollowsFrom
    <2>1. CASE f = e
      BY <1>2, <2>1
    <2>2. CASE f \in calls
      BY <2>2
    <2> QED
      BY <1>3, <2>1, <2>2
  <1>7. ListOK(list, mine, damaged, calls', made)
    BY <1>1, <1>4, <1>5, <1>6, ListKept DEF Good
  <1>8. Copies(list, state'.wallets, calls', mine, damaged, made)
    BY <1>1, <1>2, <1>3, <1>7, CopiesMove DEF Good
  <1> QED
    BY <1>8 DEF CopiesInv

(* Every copy of the list there is can be written back.                    *)
LEMMA CopiesAreGood ==
  ASSUME CopiesInv
  PROVE  /\ Good(list) /\ Good(state.wallets)
         /\ \A c \in calls : c.at \in Holding => Good(c.got)
         /\ \A id : Good(Without(state.wallets, id))
  <1>1. Good(list) /\ Good(state.wallets) /\ \A c \in calls : c.at \in Holding => Good(c.got)
    BY DEF CopiesInv, Copies, Good
  <1> QED
    BY <1>1, ListWithout DEF Good

(* An open call takes a step.                                              *)
LEMMA MakingSteps ==
  ASSUME VaultInv, NEW c \in calls,
         \/ ReadList(c) \/ WriteActive(c) \/ Reload(c) \/ Publish(c)
  PROVE  VaultInv'
  <1> USE DEF VaultInv
  <1>1. CallTyped(c) /\ CallTyped(c) /\ CountsTyped
    BY DEF CallsTyped
  <1>2. Good(list) /\ Good(state.wallets) /\ (c.at \in Holding => Good(c.got))
    BY CopiesAreGood
  <1>3. CASE ReadList(c)
    <2>1. c.at = "read" /\ Turn(c, "write", c.id, list)
      BY <1>3, TurnsOfCalls DEF ReadList
    <2>2. UNCHANGED <<list, state, network, overlaps, mine, made, damaged, turns, crashes>>
      BY <1>3 DEF ReadList, stored, choice, history, past
    <2>3. CopiesInv'
      BY <1>2, <2>1, <2>2, MakingStep DEF Making
    <2>4. CallTyped(Call(c.op, "write", c.id, c.phrase, c.password, list))
      BY <1>1, <2>1, CallIsTyped DEF CallTyped, Making
    <2>5. CallsTyped'
      BY <2>1, <2>2, <2>4, TypedTurn
    <2> QED
      BY <2>2, <2>3, <2>5 DEF StateTyped, CountsTyped
  <1>4. CASE WriteActive(c)
    <2>1. c.at = "activate" /\ Turn(c, "reload", c.id, c.got)
      BY <1>4, TurnsOfCalls DEF WriteActive
    <2>2. UNCHANGED <<list, state, network, overlaps, mine, made, damaged, turns, crashes>>
      BY <1>4 DEF WriteActive, choice, history, past
    <2>3. CopiesInv'
      BY <1>2, <2>1, <2>2, MakingStep DEF Making, Holding
    <2>4. CallTyped(Call(c.op, "reload", c.id, c.phrase, c.password, c.got))
      BY <1>1, <2>1, CallIsTyped DEF CallTyped, Making
    <2>5. CallsTyped'
      BY <2>1, <2>2, <2>4, TypedTurn
    <2> QED
      BY <2>2, <2>3, <2>5 DEF StateTyped, CountsTyped
  <1>5. CASE Reload(c)
    <2>1. c.at = "reload" /\ Turn(c, "publish", c.id, list)
      BY <1>5, TurnsOfCalls DEF Reload
    <2>2. UNCHANGED <<list, state, network, overlaps, mine, made, damaged, turns, crashes>>
      BY <1>5 DEF Reload, stored, choice, history, past
    <2>3. CopiesInv'
      BY <1>2, <2>1, <2>2, MakingStep DEF Making
    <2>4. CallTyped(Call(c.op, "publish", c.id, c.phrase, c.password, list))
      BY <1>1, <2>1, CallIsTyped DEF CallTyped, Making
    <2>5. CallsTyped'
      BY <2>1, <2>2, <2>4, TypedTurn
    <2> QED
      BY <2>2, <2>3, <2>5 DEF StateTyped, CountsTyped
  <1>6. CASE Publish(c)
    <2> DEFINE e == Session(Opened(c.phrase, c.password), state.network)
    <2>1. /\ c.at = "publish" /\ Turn(c, "rewards", c.id, c.got)
          /\ state' = State(c.got, c.id, state.network, e)
      BY <1>6, TurnsOfCalls, StatesOfCalls DEF Publish
    <2>2. UNCHANGED <<list, network, overlaps, mine, made, damaged, turns, crashes>>
      BY <1>6 DEF Publish, stored, choice, history, past
    <2>3. e = [seed |-> e.seed, address |-> e.address]
      BY SessionShape
    <2> HIDE DEF e
    <2>4. state'.wallets = c.got
      BY <2>1 DEF State
    <2>5. CopiesInv'
      BY <1>2, <2>1, <2>2, <2>4, MakingStep DEF Making, Holding
    <2>6. CallTyped(Call(c.op, "rewards", c.id, c.phrase, c.password, c.got))
      BY <1>1, <2>1, CallIsTyped DEF CallTyped, Making
    <2>7. CallsTyped'
      BY <2>1, <2>2, <2>6, TypedTurn
    <2>8. StateTyped'
      BY <2>1, <2>2, <2>3, TypedState DEF StateTyped
    <2> QED
      BY <2>2, <2>5, <2>7, <2>8 DEF CountsTyped
  <1> QED
    BY <1>3, <1>4, <1>5, <1>6

(* _persistNewWallet writes the list it read, however old, with its own    *)
(* wallet.                                                                 *)
LEMMA WriteListStep ==
  ASSUME VaultInv, NEW c \in calls, WriteList(c)
  PROVE  VaultInv'
  <1> USE DEF VaultInv
  <1> DEFINE e == Call(c.op, "activate", c.id, c.phrase, c.password, c.got)
  <1>1. c.at = "write" /\ Turn(c, "activate", c.id, c.got)
    BY TurnsOfCalls DEF WriteList
  <1>2. UNCHANGED <<state, network, overlaps, mine, made, damaged, turns, crashes>>
    BY DEF WriteList, choice, history, past
  <1>3. list' = Append(c.got, [id |-> c.id, env |-> EncryptWallet(c.phrase, c.password, "fresh")])
    BY DEF WriteList
  <1>4. calls' = (calls \ {c}) \cup {e}
    BY <1>1 DEF Turn
  <1>5. e.at = "activate" /\ e.id = c.id /\ e.phrase = c.phrase /\ e.password = c.password
    BY CallFields
  <1>6. CallTyped(e)
    BY <1>1, CallIsTyped DEF CallTyped, CallsTyped, Making
  <1>7. CallsTyped'
    BY <1>1, <1>2, <1>6, TypedTurn
  <1> HIDE DEF e
  <1>8. Copies(list, state.wallets, calls, mine, damaged, made) /\ made \in Nat
    BY DEF CopiesInv, CountsTyped
  <1>9. ListOK(list', mine, damaged, calls', made)
    BY <1>1, <1>3, <1>4, <1>5, <1>8, WrittenFits
  <1>10. e.at \in Making /\ c.at \in Making /\ e.at \notin Holding
    BY <1>1, <1>5 DEF Making, Holding
  <1>11. ListOK(state'.wallets, mine, damaged, calls, made)
    BY <1>2, <1>8 DEF Copies
  <1>12. Copies(list', state'.wallets, calls', mine, damaged, made)
    BY <1>1, <1>4, <1>5, <1>8, <1>9, <1>10, <1>11, CopiesMove
  <1>13. CopiesInv'
    BY <1>2, <1>12 DEF CopiesInv
  <1> QED
    BY <1>2, <1>7, <1>13 DEF StateTyped, CountsTyped

(* The user is told of the wallet that was written.                        *)
LEMMA RestoredStep ==
  ASSUME VaultInv, NEW c \in calls, Restored(c)
  PROVE  VaultInv'
  <1> USE DEF VaultInv
  <1>1. /\ c.at = "rewards" /\ End(c)
        /\ UNCHANGED <<list, network, turns, state, overlaps, made, crashes, damaged>>
    BY DEF Restored, stored, choice
  <1>2. calls' = calls \ {c}
    BY <1>1 DEF End
  <1>3. /\ DOMAIN mine' = DOMAIN mine \cup {c.id}
        /\ mine'[c.id] = Seen(c.password, c.phrase, state.session.address)
        /\ \A id \in DOMAIN mine : id # c.id => mine'[id] = mine[id]
    BY DEF Restored
  <1>4. mine'[c.id].phrase = c.phrase /\ mine'[c.id].password = c.password
    BY <1>3 DEF Seen
  <1>5. Copies(list, state.wallets, calls, mine, damaged, made) /\ made \in Nat
    BY DEF CopiesInv, CountsTyped
  <1>6. Copies(list, state.wallets, calls \ {c}, mine', damaged, made)
    BY <1>1, <1>3, <1>4, <1>5, CopiesLearn
  <1>7. CopiesInv'
    BY <1>1, <1>2, <1>6 DEF CopiesInv
  <1>8. CallsTyped'
    BY <1>1, TypedEnd
  <1> QED
    BY <1>1, <1>7, <1>8 DEF StateTyped, CountsTyped

(* deleteWalletById takes the list of the service without the wallet.      *)
LEMMA DiscardStep ==
  ASSUME VaultInv, NEW c \in calls, Discard(c)
  PROVE  VaultInv'
  <1> USE DEF VaultInv
  <1> DEFINE g == Without(state.wallets, state.active)
  <1>1. /\ c.at = "rewards" /\ c.op = "create"
        /\ state' = State(state.wallets, state.active, state.network, Locked)
    BY StatesOfCalls DEF Discard
  <1>2. UNCHANGED <<network, turns, overlaps, mine, made, crashes, damaged>>
    BY DEF Discard, Delete, stored, choice, history, past
  <1>3. state'.wallets = state.wallets
    BY <1>1 DEF State
  <1>4. StateTyped'
    BY <1>1, <1>2, TypedState, SessionShape DEF StateTyped
  <1>5. Good(list) /\ Good(state.wallets) /\ Good(g)
    BY CopiesAreGood
  <1>6. CASE state.active = None
    <2>1. End(c) /\ list' = list
      BY <1>6 DEF Discard, stored
    <2>2. CallsTyped'
      BY <1>2, <2>1, TypedEnd
    <2>3. CopiesInv'
      BY <1>2, <1>3, <1>5, <2>1, QuietEnd DEF End
    <2> QED
      BY <1>2, <1>4, <2>2, <2>3 DEF CountsTyped
  <1>7. CASE state.active # None
    <2>1. Delete(c, state.active)
      BY <1>7 DEF Discard, Victim
    <2>2. list' = g /\ Turn(c, "deleted", state.active, g)
      BY <2>1, TurnsOfCalls DEF Delete
    <2> DEFINE e == Call(c.op, "deleted", state.active, c.phrase, c.password, g)
    <2>3. calls' = (calls \ {c}) \cup {e} /\ e.at = "deleted" /\ e.got = g
      BY <2>2 DEF Turn, Call
    <2>4. CallTyped(e)
      BY <1>1, CallIsTyped
    <2>5. CallsTyped'
      BY <1>2, <2>2, <2>4, TypedTurn
    <2> HIDE DEF e, g
    <2>6. CopiesInv'
      BY <1>2, <1>3, <1>5, <2>2, <2>3, QuietStep DEF Making
    <2> QED
      BY <1>2, <1>4, <2>5, <2>6 DEF CountsTyped
  <1> QED
    BY <1>6, <1>7

(* The rest of a deletion, and a rename.                                   *)
LEMMA DeletingSteps ==
  ASSUME VaultInv, NEW c \in calls, NextActive(c) \/ StaysActive(c) \/ Deleted(c) \/ Renamed(c)
  PROVE  VaultInv'
  <1> USE DEF VaultInv
  <1>1. UNCHANGED <<list, network, turns, overlaps, mine, made, crashes, damaged>>
    BY DEF NextActive, StaysActive, Deleted, Renamed, stored, choice, history, past
  <1>2. c.at \in Holding
    BY DEF NextActive, StaysActive, Deleted, Renamed, Holding
  <1>3. Good(list) /\ Good(state.wallets) /\ Good(c.got)
    BY <1>2, CopiesAreGood
  <1>4. CASE NextActive(c)
    <2>1. state' = state /\ c.at = "deleted" /\ Turn(c, "settle", c.id, c.got)
      BY <1>4, TurnsOfCalls DEF NextActive
    <2> DEFINE e == Call(c.op, "settle", c.id, c.phrase, c.password, c.got)
    <2>2. calls' = (calls \ {c}) \cup {e} /\ e.at = "settle" /\ e.got = c.got
      BY <2>1 DEF Turn, Call
    <2>3. CallTyped(e)
      BY <2>1, CallIsTyped DEF CallsTyped, CallTyped, Making
    <2>4. CallsTyped'
      BY <1>1, <2>1, <2>3, TypedTurn
    <2> HIDE DEF e
    <2>5. CopiesInv'
      BY <1>1, <1>3, <2>1, <2>2, QuietStep DEF Making
    <2> QED
      BY <1>1, <2>1, <2>4, <2>5 DEF CountsTyped, StateTyped
  <1>5. ASSUME NEW a, NEW e, e = [seed |-> e.seed, address |-> e.address],
               state' = State(c.got, a, state.network, e), End(c)
        PROVE  VaultInv'
    <2>1. StateTyped'
      BY <1>1, <1>5, TypedState DEF StateTyped
    <2>2. state'.wallets = c.got
      BY <1>5 DEF State
    <2>3. CopiesInv'
      BY <1>1, <1>3, <1>5, <2>2, QuietEnd DEF End
    <2>4. CallsTyped'
      BY <1>1, <1>5, TypedEnd
    <2> QED
      BY <1>1, <2>1, <2>3, <2>4 DEF CountsTyped
  <1>6. CASE StaysActive(c) \/ Renamed(c)
    <2>1. state' = State(c.got, state.active, state.network, state.session) /\ End(c)
      BY <1>6, StatesOfCalls DEF StaysActive, Renamed
    <2> QED
      BY <1>5, <2>1 DEF StateTyped
  <1>7. CASE Deleted(c)
    <2>1. state' = State(c.got, FirstId(c.got), state.network, Locked) /\ End(c)
      BY <1>7, StatesOfCalls DEF Deleted
    <2> QED
      BY <1>5, <2>1, SessionShape
  <1> QED
    BY <1>4, <1>6, <1>7

(* Steps that write no list.                                               *)
LEMMA ServiceSteps ==
  ASSUME VaultInv, NEW c \in calls,
         Switched(c) \/ Unlocked(c) \/ NetworkStored(c) \/ NetworkDerived(c)
  PROVE  VaultInv'
  <1> USE DEF VaultInv
  <1>1. UNCHANGED <<list, network, turns, overlaps, mine, made, crashes, damaged>>
    BY DEF Switched, Unlocked, NetworkStored, NetworkDerived, stored, choice, history, past
  <1>2. Good(list) /\ Good(state.wallets)
    BY CopiesAreGood
  <1>3. CallTyped(c)
    BY DEF CallsTyped
  <1>4. ASSUME NEW a, NEW n \in Networks, NEW e, e = [seed |-> e.seed, address |-> e.address],
               state' = State(state.wallets, a, n, e), End(c)
        PROVE  VaultInv'
    <2>1. StateTyped'
      BY <1>1, <1>4, TypedState DEF StateTyped
    <2>2. state'.wallets = state.wallets
      BY <1>4 DEF State
    <2>3. CopiesInv'
      BY <1>1, <1>2, <1>4, <2>2, QuietEnd DEF End
    <2>4. CallsTyped'
      BY <1>1, <1>4, TypedEnd
    <2> QED
      BY <1>1, <2>1, <2>3, <2>4 DEF CountsTyped
  <1>5. CASE Switched(c)
    <2>1. state' = State(state.wallets, c.id, state.network, Locked) /\ End(c)
      BY <1>5, StatesOfCalls DEF Switched
    <2> QED
      BY <1>4, <2>1, SessionShape DEF StateTyped
  <1>6. CASE Unlocked(c)
    <2>1. End(c)
      BY <1>6 DEF Unlocked
    <2>2. CASE c.phrase = Error
      <3>1. state' = state
        BY <1>6, <2>2, StatesOfCalls
      <3>2. state' = State(state.wallets, state.active, state.network, state.session)
        BY <3>1 DEF StateTyped, State
      <3> QED
        BY <1>4, <2>1, <3>2 DEF StateTyped
    <2>3. CASE c.phrase # Error
      <3>1. state' = State(state.wallets, state.active, state.network,
                           Session(Opened(c.phrase, c.password), state.network))
        BY <1>6, <2>3, StatesOfCalls
      <3> QED
        BY <1>4, <2>1, <3>1, SessionShape DEF StateTyped
    <2> QED
      BY <2>2, <2>3
  <1>7. CASE NetworkStored(c)
    <2>1. c.at = "stored" /\ c.op = "network" /\ c.id \in Networks
      BY <1>3, <1>7 DEF NetworkStored, CallTyped, Making
    <2>2. CASE IsUnlocked
      <3> DEFINE g == DefaultAddress(state.session.seed, c.id = "mainnet")
      <3>1. state' = state /\ Turn(c, "derive", c.id, g)
        BY <1>7, <2>2, TurnsOfCalls, StatesOfCalls
      <3> DEFINE e == Call(c.op, "derive", c.id, c.phrase, c.password, g)
      <3>2. calls' = (calls \ {c}) \cup {e} /\ e.at = "derive"
        BY <3>1 DEF Turn, Call
      <3>3. CallTyped(e)
        BY <2>1, CallIsTyped
      <3>4. CallsTyped'
        BY <1>1, <3>1, <3>3, TypedTurn
      <3> HIDE DEF e, g
      <3>5. CopiesInv'
        BY <1>1, <1>2, <3>1, <3>2, QuietStep DEF Making, Holding
      <3> QED
        BY <1>1, <3>1, <3>4, <3>5 DEF CountsTyped, StateTyped
    <2>3. CASE ~IsUnlocked
      <3>1. state' = State(state.wallets, state.active, c.id, state.session) /\ End(c)
        BY <1>7, <2>3, StatesOfCalls DEF NetworkStored
      <3> QED
        BY <1>4, <2>1, <3>1 DEF StateTyped
    <2> QED
      BY <2>2, <2>3
  <1>8. CASE NetworkDerived(c)
    <2> DEFINE e == [state.session EXCEPT !.address = c.got]
    <2>1. c.id \in Networks
      BY <1>3, <1>8 DEF NetworkDerived, CallTyped, Making
    <2>2. state' = State(state.wallets, state.active, c.id, e) /\ End(c)
      BY <1>8, StatesOfCalls DEF NetworkDerived
    <2>3. e = [seed |-> e.seed, address |-> e.address]
      BY SessionShape DEF StateTyped
    <2> HIDE DEF e
    <2> QED
      BY <1>4, <2>1, <2>2, <2>3
  <1> QED
    BY <1>5, <1>6, <1>7, <1>8

(* A call is begun.                                                        *)
LEMMA MakeStep ==
  ASSUME VaultInv, NEW op \in {"create", "restore"}, NEW p, NEW w, Make(op, p, w)
  PROVE  VaultInv'
  <1> USE DEF VaultInv
  <1> DEFINE e == Call(op, "read", NewIds[made + 1], p, w, <<>>)
  <1>1. /\ made + turns < MaxChanges /\ made' = made + 1
        /\ UNCHANGED <<list, activeId, network, turns, state, mine, crashes, damaged>>
        /\ MayBegin
        /\ calls' = calls \/ (ValidMnemonic(p) /\ calls' = calls \cup {e})
    BY DEF Make, Begin, NewId, stored, choice
  <1>2. e.at = "read" /\ e.id = NewIds[made + 1] /\ e.phrase = p
    BY CallFields
  <1>3. CallTyped(e)
    BY CallIsTyped DEF Making
  <1> HIDE DEF e
  <1>4. CallsTyped'
    BY <1>1, <1>3, TypedBegin
  <1>5. Copies(list, state.wallets, calls, mine, damaged, made) /\ made \in Nat /\ turns \in Nat
    BY DEF CopiesInv, CountsTyped
  <1>6. made < MaxChanges
    BY <1>1, <1>5, BoundAssumption
  <1>7. Copies(list, state.wallets, calls', mine, damaged, made + 1)
    <2>1. CASE calls' = calls \cup {e} /\ ValidMnemonic(p)
      BY <1>2, <1>5, <1>6, <2>1, CopiesBegin
    <2>2. CASE calls' = calls
      <3> DEFINE f == Call(op, "read", NewIds[made + 1], GenerateMnemonic("new", 24), w, <<>>)
      <3>1. f.at = "read" /\ f.id = NewIds[made + 1] /\ f.phrase = GenerateMnemonic("new", 24)
        BY CallFields
      <3>2. ValidMnemonic(f.phrase)
        BY <3>1 DEF ValidMnemonic, GenerateMnemonic, Phrase
      <3> HIDE DEF f
      <3> QED
        BY <1>5, <1>6, <2>2, <3>1, <3>2, CopiesBegin
    <2> QED
      BY <1>1, <2>1, <2>2
  <1>8. CopiesInv'
    BY <1>1, <1>7 DEF CopiesInv
  <1>9. CountsTyped'
    BY <1>1, <1>5, <1>6, BoundAssumption DEF CountsTyped
  <1> QED
    BY <1>1, <1>4, <1>8, <1>9 DEF StateTyped

(* deleteWalletById on request: the user gives the wallet up.              *)
LEMMA DeleteStep ==
  ASSUME VaultInv, NEW id, DeleteWalletById(id)
  PROVE  VaultInv'
  <1> USE DEF VaultInv
  <1> DEFINE g == Without(state.wallets, id)
             c == Call("delete", "deleted", id, None, None, <<>>)
             e == Call("delete", "deleted", id, None, None, g)
  <1>1. /\ MayBegin /\ Delete(c, id)
        /\ mine' = [k \in DOMAIN mine \ {id} |-> mine[k]]
        /\ UNCHANGED <<network, turns, state, made, crashes, damaged>>
    BY DEF DeleteWalletById, Delete, choice
  <1>2. CallTyped(c) /\ CallTyped(e)
    BY CallIsTyped
  <1>3. c.op = "delete" /\ c.phrase = None /\ c.password = None /\ c.at = "deleted"
    BY CallFields
  <1>4. list' = g /\ calls' = (calls \ {c}) \cup {MovedTo(c, "deleted", id, g)}
    BY <1>1 DEF Delete, MovedTo
  <1>5. MovedTo(c, "deleted", id, g) = Call(c.op, "deleted", id, c.phrase, c.password, g)
    BY <1>2, CallSteps
  <1>6. MovedTo(c, "deleted", id, g) = e
    BY <1>3, <1>5
  <1>7. e.at = "deleted" /\ e.got = g
    BY CallFields
  <1>8. calls' = (calls \ {c}) \cup {e}
    BY <1>4, <1>6
  <1>9. Good(g) /\ Good(state.wallets)
    BY CopiesAreGood
  <1> HIDE DEF c, e, g
  <1>10. CopiesInv'
    BY <1>1, <1>4, <1>7, <1>8, <1>9, QuietStep DEF Making
  <1>11. CallsTyped'
    <2> DEFINE n == overlaps + (IF calls = {} THEN 0 ELSE 1)
    <2>1. overlaps' = n /\ overlaps \in Nat /\ n \in 0..MaxOverlaps
      BY <1>1, BoundAssumption DEF CallsTyped, MayBegin
    <2>2. IsFiniteSet(calls \ {c}) /\ Cardinality(calls \ {c}) <= 1 + overlaps
      BY <2>1, CallsCount DEF CallsTyped
    <2>3. IsFiniteSet(calls') /\ Cardinality(calls') <= 1 + n
      <3>1. CASE c \in calls
        <4>1. IsFiniteSet(calls') /\ Cardinality(calls') <= 1 + overlaps
          BY <1>8, <2>1, <3>1, CallsCount DEF CallsTyped
        <4>2. Cardinality(calls') \in Nat
          BY <4>1, FS_CardinalityType
        <4> QED
          BY <2>1, <4>1, <4>2
      <3>2. CASE c \notin calls
        <4>1. calls' = calls \cup {e}
          BY <1>8, <3>2
        <4> QED
          BY <2>1, <4>1, CallsCount DEF CallsTyped
      <3> QED
        BY <3>1, <3>2
    <2> HIDE DEF n
    <2>4. \A f \in calls' : CallTyped(f)
      BY <1>2, <1>8 DEF CallsTyped
    <2> QED
      BY <2>1, <2>3, <2>4 DEF CallsTyped
  <1> QED
    BY <1>1, <1>10, <1>11 DEF StateTyped, CountsTyped

(* The calls that make no wallet begin.                                    *)
LEMMA BeginSteps ==
  ASSUME VaultInv,
         \/ \E id : StartRename(id) \/ StartSwitch(id)
         \/ \E w : StartUnlock(w)
         \/ \E net \in Networks : StartNetwork(net)
  PROVE  VaultInv'
  <1> USE DEF VaultInv
  <1>1. Good(list) /\ Good(state.wallets)
    BY CopiesAreGood
  <1>2. ASSUME NEW e, CallTyped(e), Begin(e), e.at \notin Making,
               e.at \in Holding => Good(e.got), Good(list'),
               UNCHANGED <<state, mine, made, crashes, damaged>>,
               network' \in Networks, turns' \in Nat, made + turns' <= MaxChanges
        PROVE  VaultInv'
    <2>1. MayBegin /\ calls' = calls \cup {e}
      BY <1>2 DEF Begin
    <2>2. CallsTyped'
      BY <1>2, <2>1, TypedBegin
    <2>3. CopiesInv'
      BY <1>1, <1>2, <2>1, QuietStep
    <2> QED
      BY <1>2, <2>2, <2>3 DEF StateTyped, CountsTyped
  <1>3. ASSUME NEW id, StartRename(id)
        PROVE  VaultInv'
    <2> DEFINE e == Call("rename", "renamed", id, None, None, state.wallets)
    <2>1. Begin(e) /\ list' = state.wallets
          /\ UNCHANGED <<network, turns, state, mine, made, crashes, damaged>>
      BY <1>3 DEF StartRename, choice, past
    <2>2. CallTyped(e) /\ e.at = "renamed" /\ e.got = state.wallets
      BY CallIsTyped, CallFields
    <2> HIDE DEF e
    <2> QED
      BY <1>1, <1>2, <2>1, <2>2 DEF Making, StateTyped, CountsTyped
  <1>4. ASSUME NEW id, StartSwitch(id)
        PROVE  VaultInv'
    <2> DEFINE e == Call("switch", "switched", id, None, None, <<>>)
    <2>1. Begin(e) /\ UNCHANGED <<list, network, turns, state, mine, made, crashes, damaged>>
      BY <1>4 DEF StartSwitch, choice, past
    <2>2. CallTyped(e) /\ e.at = "switched"
      BY CallIsTyped, CallFields
    <2> HIDE DEF e
    <2> QED
      BY <1>1, <1>2, <2>1, <2>2 DEF Making, Holding, StateTyped, CountsTyped
  <1>5. ASSUME NEW w, StartUnlock(w)
        PROVE  VaultInv'
    <2> DEFINE p == DecryptWallet(EnvOf(state.wallets, state.active), w)
    <2> DEFINE e == Call("unlock", "decrypt", state.active, p, w, <<>>)
    <2>1. Begin(e) /\ UNCHANGED <<list, network, turns, state, mine, made, crashes, damaged>>
      BY <1>5 DEF StartUnlock, stored, choice, past
    <2> HIDE DEF p
    <2>2. CallTyped(e) /\ e.at = "decrypt"
      BY CallIsTyped, CallFields
    <2> HIDE DEF e
    <2> QED
      BY <1>1, <1>2, <2>1, <2>2 DEF Making, Holding, StateTyped, CountsTyped
  <1>6. ASSUME NEW net \in Networks, StartNetwork(net)
        PROVE  VaultInv'
    <2> DEFINE e == Call("network", "stored", net, None, None, <<>>)
    <2>1. Begin(e) /\ UNCHANGED <<list, state, mine, made, crashes, damaged>>
          /\ network' = net /\ turns' = turns + 1 /\ made + turns < MaxChanges
      BY <1>6 DEF StartNetwork, choice, past
    <2>2. CallTyped(e) /\ e.at = "stored"
      BY CallIsTyped, CallFields
    <2> HIDE DEF e
    <2>3. turns' \in Nat /\ made + turns' <= MaxChanges
      BY <2>1, BoundAssumption DEF CountsTyped
    <2> QED
      BY <1>1, <1>2, <2>1, <2>2, <2>3 DEF Making, Holding
  <1> QED
    BY <1>3, <1>4, <1>5, <1>6

(* The rest of the steps.                                                  *)
LEMMA LoadedTyped ==
  ASSUME NEW w, NEW a, NEW n \in Networks, network' \in Networks,
         state' = [wallets |-> w, active |-> a, network |-> n, session |-> Locked]
  PROVE  StateTyped' /\ state'.wallets = w
  BY TypedState, SessionShape DEF State

(* lock, signatures, stops of the process and damaged envelopes.           *)
LEMMA OtherSteps ==
  ASSUME VaultInv,
         \/ Lock \/ (\E d \in Hashes : Sign(d)) \/ Close \/ UNCHANGED vars
         \/ Crash \/ \E k \in DOMAIN list : Damage(k)
  PROVE  VaultInv'
  <1> USE DEF VaultInv
  <1>1. Good(list) /\ Good(state.wallets)
    BY CopiesAreGood
  <1>2. CASE Lock
    <2>1. /\ MayBegin /\ UNCHANGED <<calls, list, network, turns, mine, made, crashes, damaged>>
          /\ state' = State(state.wallets, state.active, state.network, Locked)
      BY <1>2, StateOfLock DEF Lock, stored, choice, past
    <2>2. StateTyped'
      BY <2>1, TypedState, SessionShape DEF StateTyped
    <2>3. state'.wallets = state.wallets
      BY <2>1 DEF State
    <2>4. CopiesInv'
      BY <1>1, <2>1, <2>3, QuietEnd
    <2>5. CallTyped(Call("rename", "renamed", 0, 0, 0, 0))
      BY CallIsTyped
    <2>6. CallsTyped'
      BY <2>1, <2>5, TypedBegin
    <2> QED
      BY <2>1, <2>2, <2>4, <2>6 DEF CountsTyped
  <1>3. CASE (\E d \in Hashes : Sign(d)) \/ Close \/ UNCHANGED vars
    <2>1. UNCHANGED <<calls, state, list, network, turns, overlaps, mine, made, crashes, damaged>>
      BY <1>3 DEF Sign, Close, vars, stored, choice, history, past
    <2> QED
      BY <2>1 DEF StateTyped, CountsTyped, CallsTyped, CopiesInv
  <1>4. CASE Crash
    <2>1. /\ UNCHANGED <<list, network, turns, overlaps, mine, made, damaged>>
          /\ calls' = {} /\ crashes' = crashes + 1 /\ crashes + Cardinality(damaged) < MaxFaults
          /\ state' = [wallets |-> list, active |-> activeId, network |-> network,
                       session |-> Locked]
      BY <1>4 DEF Crash, Loaded, stored, choice
    <2>2. StateTyped' /\ state'.wallets = list
      BY <2>1, LoadedTyped DEF StateTyped
    <2>3. CopiesInv'
      BY <1>1, <2>1, <2>2, QuietEnd
    <2>4. overlaps \in Nat /\ IsFiniteSet({}) /\ Cardinality({}) = 0
      BY FS_EmptySet, BoundAssumption DEF CallsTyped
    <2>5. CallsTyped'
      BY <2>1, <2>4 DEF CallsTyped
    <2>6. CountsTyped'
      <3> DEFINE n == Cardinality(damaged)
      <3>1. n \in Nat /\ crashes \in Nat /\ crashes + n < MaxFaults
        BY <2>1, FS_CardinalityType DEF CountsTyped
      <3>2. damaged' = damaged
        BY <2>1
      <3>3. Cardinality(damaged') = n
        BY <3>2
      <3> HIDE DEF n
      <3>4. crashes' \in Nat /\ crashes' + Cardinality(damaged') <= MaxFaults
        BY <2>1, <3>1, <3>3, BoundAssumption
      <3> QED
        BY <2>1, <3>4 DEF CountsTyped
    <2> QED
      BY <2>2, <2>3, <2>5, <2>6
  <1>5. ASSUME NEW k \in DOMAIN list, Damage(k)
        PROVE  VaultInv'
    <2>1. PICK env \in Damaged(list[k].env) : list' = [list EXCEPT ![k].env = env]
      BY <1>5 DEF Damage
    <2>2. /\ calls = {} /\ list[k].id \notin damaged
          /\ crashes + Cardinality(damaged) < MaxFaults
          /\ damaged' = damaged \cup {list[k].id}
          /\ state' = [wallets |-> list', active |-> activeId, network |-> network,
                       session |-> Locked]
          /\ UNCHANGED <<network, turns, calls, overlaps, mine, made, crashes>>
      BY <1>5 DEF Damage, choice
    <2>3. StateTyped' /\ state'.wallets = list'
      BY <2>2, LoadedTyped DEF StateTyped
    <2>4. Copies(list, state.wallets, {}, mine, damaged, made) /\ made \in Nat
      BY <2>2 DEF CopiesInv, CountsTyped
    <2>5. Copies(list', list', {}, mine, damaged \cup {list[k].id}, made)
      BY <2>1, <2>2, <2>4, CopiesDamaged
    <2>6. CopiesInv'
      BY <2>2, <2>3, <2>5 DEF CopiesInv
    <2>7. CallsTyped'
      BY <2>2 DEF CallsTyped
    <2>8. CountsTyped'
      <3> DEFINE n == Cardinality(damaged)
                 n2 == Cardinality(damaged \cup {list[k].id})
      <3>1. IsFiniteSet(damaged \cup {list[k].id}) /\ n2 = n + 1 /\ n \in Nat
        BY <2>2, FS_AddElement, FS_CardinalityType DEF CountsTyped
      <3>2. Cardinality(damaged') = n2 /\ crashes + n < MaxFaults
        BY <2>2
      <3> HIDE DEF n, n2
      <3>3. crashes + n2 <= MaxFaults
        BY <3>1, <3>2, BoundAssumption DEF CountsTyped
      <3>4. crashes' + Cardinality(damaged') <= MaxFaults
        BY <2>2, <3>2, <3>3
      <3>5. IsFiniteSet(damaged')
        BY <2>2, <3>1
      <3> QED
        BY <2>2, <3>4, <3>5 DEF CountsTyped
    <2> QED
      BY <2>3, <2>6, <2>7, <2>8
  <1> QED
    BY <1>2, <1>3, <1>4, <1>5

(* Every step keeps the invariant.                                         *)
LEMMA VaultStep ==
  ASSUME VaultInv, [Next]_vars
  PROVE  VaultInv'
  <1>1. CASE StartCreate
    BY <1>1, MakeStep DEF StartCreate
  <1>2. CASE \E p \in Typed \cup {shown}, w \in Passwords : p # None /\ StartRestore(p, w)
    BY <1>2, MakeStep DEF StartRestore
  <1>3. ASSUME NEW c \in calls,
               \/ ReadList(c) \/ WriteList(c) \/ WriteActive(c) \/ Reload(c) \/ Publish(c)
               \/ Restored(c) \/ Discard(c) \/ NextActive(c) \/ StaysActive(c) \/ Deleted(c)
               \/ Renamed(c) \/ Switched(c) \/ Unlocked(c)
               \/ NetworkStored(c) \/ NetworkDerived(c)
        PROVE  VaultInv'
    BY <1>3, MakingSteps, WriteListStep, RestoredStep, DiscardStep, DeletingSteps, ServiceSteps
  <1>4. CASE \E id \in Ids(state.wallets) \cup {state.active} :
               DeleteWalletById(id) \/ StartRename(id) \/ StartSwitch(id)
    BY <1>4, DeleteStep, BeginSteps
  <1>5. CASE \E w \in Passwords : StartUnlock(w)
    BY <1>5, BeginSteps
  <1>6. CASE \E net \in Networks : StartNetwork(net)
    BY <1>6, BeginSteps
  <1>7. CASE \/ Lock \/ (\E d \in Hashes : Sign(d)) \/ Close \/ UNCHANGED vars
             \/ Crash \/ \E k \in DOMAIN list : Damage(k)
    BY <1>7, OtherSteps
  <1> QED
    BY <1>1, <1>2, <1>3, <1>4, <1>5, <1>6, <1>7 DEF Next

(* The wallets there are at first have envelopes that open.                *)
LEMMA OldFits ==
  ASSUME NEW k \in DOMAIN Old
  PROVE  /\ Old[k] = [id |-> Old[k].id, env |-> Old[k].env]
         /\ Sealed(Old[k].env) /\ EnvOf(Old, Old[k].id) = Old[k].env
  <1>1. Old[k] = [id |-> Old[k].id, env |-> Old[k].env]
    <2> DEFINE A == {w.id : w \in ToSet(Old)}
               B == {w.env : w \in ToSet(Old)}
    <2>1. Old \in Seq([id : A, env : B])
      BY OldAssumption
    <2> HIDE DEF A, B
    <2> DEFINE R == [id : A, env : B]
    <2>2. Old \in Seq(R)
      BY <2>1
    <2> HIDE DEF R
    <2>3. Old[k] \in R
      BY <2>2
    <2> QED
      BY <2>3 DEF R
  <1>2. PICK p \in Typed, w \in Passwords :
          ValidMnemonic(p) /\ Old[k].env \in Envelopes(p, w)
    BY OldAssumption DEF Envelopes
  <1>3. Sealed(Old[k].env)
    BY <1>2, EnvelopeOpens DEF Sealed
  <1>4. Old[k].id \in Ids(Old)
    BY DEF Ids
  <1>5. PICK j \in DOMAIN Old : Old[j].id = Old[k].id /\ EnvOf(Old, Old[k].id) = Old[j].env
    BY <1>4, EnvFound
  <1>6. j = k
    BY <1>5, OldAssumption
  <1> QED
    BY <1>1, <1>3, <1>5, <1>6

(* The invariant holds at first.                                           *)
LEMMA VaultInit ==
  ASSUME Init
  PROVE  VaultInv
  <1>1. /\ list = Old /\ network = "testnet" /\ turns = 0 /\ calls = {}
        /\ overlaps = 0 /\ made = 0 /\ crashes = 0 /\ damaged = {}
    BY DEF Init
  <1>2. state = [wallets |-> Old, active |-> activeId, network |-> "testnet", session |-> Locked]
    BY DEF Init, Loaded
  <1>3. StateTyped
    BY <1>1, <1>2, SessionShape DEF StateTyped, Networks
  <1>4. IsFiniteSet({}) /\ Cardinality({}) = 0
    BY FS_EmptySet
  <1>5. CallsTyped
    BY <1>1, <1>4, BoundAssumption DEF CallsTyped
  <1>6. CountsTyped
    BY <1>1, <1>4, BoundAssumption DEF CountsTyped
  <1>7. DOMAIN mine = Ids(Old)
    BY DEF Init
  <1>8. ASSUME NEW k \in DOMAIN Old
        PROVE  Fits(Old[k], mine, {}, {}, 0)
    <2> DEFINE id == Old[k].id
               old == EnvOf(Old, id).sealed
    <2>1. id \in Ids(Old)
      BY DEF Ids
    <2>2. mine[id] = Seen(old.password, old.msg, Opened(old.msg, old.password).test)
      BY <2>1 DEF Init
    <2>3. mine[id].password = old.password /\ mine[id].phrase = old.msg
      BY <2>2 DEF Seen
    <2>4. old = Old[k].env.sealed /\ Sealed(Old[k].env)
      BY OldFits
    <2>5. id \in Issued(0)
      BY <2>1 DEF Issued
    <2> QED
      BY <2>3, <2>4, <2>5, OldFits DEF Fits, Sealed
  <1>9. ListOK(Old, mine, {}, {}, 0)
    BY <1>8, OldAssumption DEF ListOK, IsList, Distinct
  <1>10. CopiesInv
    BY <1>1, <1>2, <1>7, <1>9 DEF CopiesInv, Copies, Issued
  <1> QED
    BY <1>3, <1>5, <1>6, <1>10 DEF VaultInv

(* The inductive invariant: the copies of the list, whatever calls overlap *)
(* and wherever the process stops.                                         *)
THEOREM VaultInvariant == Spec => []VaultInv
  <1>1. VaultInv /\ [Next]_vars => VaultInv'
    BY VaultStep
  <1> QED
    BY VaultInit, <1>1, PTL DEF Spec

(* TypeOK holds at any time: in particular no two wallets share an id, and *)
(* there are never more calls in flight than the overlaps allow.           *)
THEOREM VaultTypeCorrect == Spec => []TypeOK
  <1>1. ASSUME VaultInv
        PROVE  TypeOK
    <2>1. ListOK(list, mine, damaged, calls, made) /\ made \in 0..MaxChanges
      BY <1>1, BoundAssumption DEF VaultInv, CopiesInv, Copies, CountsTyped
    <2>2. IsList(list) /\ Distinct(list) /\ \A k \in DOMAIN list : list[k].id \in Issued(made)
      BY <2>1 DEF ListOK, Fits
    <2>3. Cardinality(Ids(list)) = Len(list)
      BY <2>2, IdsCount
    <2>4. Issued(made) \subseteq Ids(Old) \cup {NewIds[n] : n \in 1..MaxChanges}
      <3>1. 1..made \subseteq 1..MaxChanges
        BY <2>1, BoundAssumption
      <3> QED
        BY <3>1 DEF Issued
    <2>5. Ids(list) \subseteq Ids(Old) \cup {NewIds[n] : n \in 1..MaxChanges}
      BY <2>2, <2>4 DEF Ids
    <2>6. turns + made \in 0..MaxChanges
      BY <1>1, BoundAssumption DEF VaultInv, CountsTyped
    <2>7. crashes \in 0..MaxFaults
      <3>1. Cardinality(damaged) \in Nat
        BY <1>1, FS_CardinalityType DEF VaultInv, CountsTyped
      <3> QED
        BY <1>1, <3>1, BoundAssumption DEF VaultInv, CountsTyped
    <2> QED
      BY <1>1, <2>3, <2>5, <2>6, <2>7 DEF TypeOK, VaultInv, StateTyped, CallsTyped
  <1> QED
    BY <1>1, VaultInvariant, PTL

(* EnvelopeKeepsMnemonic: no interleaving of calls that write the list     *)
(* from their own copies, and no crash between two of their writes, puts a *)
(* wallet under an envelope that is not its own; one changed in any place  *)
(* is refused.                                                             *)
THEOREM EnvelopesKeep == Spec => []EnvelopeKeepsMnemonic
  <1>1. ASSUME VaultInv, NEW k \in DOMAIN list, NEW w
        PROVE  LET id == list[k].id
                   opened == DecryptWallet(list[k].env, w)
               IN  /\ id \in damaged => opened = Error
                   /\ id \in DOMAIN mine \ damaged =>
                        opened = IF w = mine[id].password THEN mine[id].phrase ELSE Error
    <2>1. Fits(list[k], mine, damaged, calls, made)
      BY <1>1 DEF VaultInv, CopiesInv, Copies, ListOK
    <2> QED
      BY <2>1, EnvelopeOpens DEF Fits, Broken
  <1>2. VaultInv => EnvelopeKeepsMnemonic
    BY <1>1 DEF EnvelopeKeepsMnemonic
  <1> QED
    BY <1>2, VaultInvariant, PTL

-----------------------------------------------------------------------------
(* A user who waits for each call.  What is stored and what the service    *)
(* shows are apart only by what the one call in flight has yet to do, and  *)
(* where the call is tells by how much.                                    *)
Settled(L, A, N, S) == S.wallets = L /\ S.active = A /\ S.network = N

Between(c, L, A, N, S) ==
  /\ c.at \in {"read", "write", "rewards", "renamed", "decrypt"} => Settled(L, A, N, S)
  /\ c.at \in {"write", "publish", "deleted", "settle", "renamed"} => c.got = L
  /\ c.at \in {"activate", "reload", "publish", "rewards"} => c.id \in Ids(L)
  /\ c.at \in {"reload", "publish", "rewards", "switched"} => A = c.id
  /\ c.at = "deleted" => S.active = A
  /\ c.at = "settle" => A = FirstId(L)
  /\ c.at = "switched" => S.wallets = L
  /\ c.at \in {"stored", "derive"} => S.wallets = L /\ S.active = A /\ N = c.id
  /\ c.at \notin {"stored", "derive"} => S.network = N

(* The wallet a call has written and not handed over yet.                  *)
Unshown(C) == {c.id : c \in {e \in C : e.at \in {"activate", "reload", "publish", "rewards"}}}

Listed(L, A) == IF L = <<>> THEN A = None ELSE A \in Ids(L)

Sync(L, A, N, S, C, m, crashed) ==
  /\ C = {} => Settled(L, A, N, S)
  /\ \A c \in C : Between(c, L, A, N, S)
  /\ DOMAIN m \subseteq Ids(L)
  /\ crashed = 0 =>
       /\ Ids(L) = DOMAIN m \cup Unshown(C)
       /\ (\A c \in C : c.at # "activate" /\ (c.at = "deleted" => S.active # c.id))
            => Listed(L, A)

SyncNow == Sync(list, activeId, network, state, calls, mine, crashes)
SyncInv == overlaps = 0 => SyncNow

(* An id of the list is listed.                                            *)
LEMMA ListedIfIn ==
  ASSUME NEW L, NEW A \in Ids(L)
  PROVE  Listed(L, A)
  BY DEF Listed, Ids

(* Without overlaps there is one call.                                     *)
LEMMA Alone ==
  ASSUME CallsTyped, overlaps = 0, NEW c \in calls
  PROVE  calls = {c}
  <1>1. IsFiniteSet(calls) /\ Cardinality(calls) <= 1 /\ Cardinality(calls) \in Nat
    BY FS_CardinalityType DEF CallsTyped
  <1>2. Cardinality(calls \ {c}) = Cardinality(calls) - 1 /\ IsFiniteSet(calls \ {c})
    BY <1>1, FS_RemoveElement
  <1>3. Cardinality(calls \ {c}) \in Nat
    BY <1>2, FS_CardinalityType
  <1>4. Cardinality(calls \ {c}) = 0
    BY <1>1, <1>2, <1>3
  <1>5. calls \ {c} = {}
    BY <1>2, <1>4, FS_EmptySet
  <1> QED
    BY <1>5

(* It moves on alone,                                                      *)
LEMMA AloneTurns ==
  ASSUME CallsTyped, overlaps = 0, NEW c \in calls, NEW at, NEW id, NEW got, Turn(c, at, id, got)
  PROVE  \E d : /\ calls' = {d} /\ d.op = c.op /\ d.at = at /\ d.id = id
                /\ d.phrase = c.phrase /\ d.password = c.password /\ d.got = got
  <1> DEFINE d == Call(c.op, at, id, c.phrase, c.password, got)
  <1>1. /\ d.op = c.op /\ d.at = at /\ d.id = id
        /\ d.phrase = c.phrase /\ d.password = c.password /\ d.got = got
    BY CallFields
  <1>2. calls' = (calls \ {c}) \cup {d}
    BY DEF Turn
  <1>3. calls = {c}
    BY Alone
  <1> HIDE DEF d
  <1>4. calls' = {d}
    BY <1>2, <1>3
  <1> QED
    BY <1>1, <1>4

(* ends,                                                                   *)
LEMMA AloneEnds ==
  ASSUME CallsTyped, overlaps = 0, NEW c \in calls, End(c)
  PROVE  calls' = {}
  BY Alone DEF End

(* and began when there was none.                                          *)
LEMMA AloneBegins ==
  ASSUME CallsTyped, MayBegin, overlaps' = 0
  PROVE  calls = {} /\ overlaps = 0
  <1>1. overlaps \in Nat
    BY BoundAssumption DEF CallsTyped
  <1> QED
    BY <1>1 DEF MayBegin

(* For no call, and for one.                                               *)
LEMMA SyncNone ==
  ASSUME NEW L, NEW A, NEW N, NEW S, NEW m, NEW crashed
  PROVE  Sync(L, A, N, S, {}, m, crashed) <=>
           /\ Settled(L, A, N, S) /\ DOMAIN m \subseteq Ids(L)
           /\ crashed = 0 => Ids(L) = DOMAIN m /\ Listed(L, A)
  <1>1. Unshown({}) = {}
    BY DEF Unshown
  <1> QED
    BY <1>1 DEF Sync

Whole(L, A, S, m, c) ==
  /\ c.at \in {"activate", "reload", "publish", "rewards"} => Ids(L) = DOMAIN m \cup {c.id}
  /\ c.at \notin {"activate", "reload", "publish", "rewards"} => Ids(L) = DOMAIN m
  /\ c.at # "activate" /\ (c.at = "deleted" => S.active # c.id) => Listed(L, A)

(* Sync with one call in flight.                                           *)
LEMMA SyncOne ==
  ASSUME NEW L, NEW A, NEW N, NEW S, NEW m, NEW crashed, NEW c
  PROVE  Sync(L, A, N, S, {c}, m, crashed) <=>
           /\ Between(c, L, A, N, S) /\ DOMAIN m \subseteq Ids(L)
           /\ crashed = 0 => Whole(L, A, S, m, c)
  <1>1. CASE c.at \in {"activate", "reload", "publish", "rewards"}
    <2>1. Unshown({c}) = {c.id}
      BY <1>1 DEF Unshown
    <2> QED
      BY <1>1, <2>1 DEF Sync, Whole
  <1>2. CASE c.at \notin {"activate", "reload", "publish", "rewards"}
    <2>1. Unshown({c}) = {}
      BY <1>2 DEF Unshown
    <2> QED
      BY <1>2, <2>1 DEF Sync, Whole
  <1> QED
    BY <1>1, <1>2

(* The wallet of a call that makes one is not the user's yet.              *)
LEMMA Makers ==
  ASSUME VaultInv, NEW c \in calls, c.at \in Making
  PROVE  c.id \notin DOMAIN mine /\ c.id # None
  <1>1. MakerOK(c, mine, damaged, calls, made)
    BY DEF VaultInv, CopiesInv, Copies
  <1>2. PICK k \in 1..made : c.id = NewIds[k]
    BY <1>1 DEF MakerOK
  <1>3. k \in 1..MaxChanges
    BY <1>2, BoundAssumption DEF VaultInv, CountsTyped
  <1> QED
    BY <1>1, <1>2, <1>3, IdAssumption DEF MakerOK

(* The stored list is one, with distinct ids.                              *)
LEMMA ListIsList ==
  ASSUME VaultInv
  PROVE  IsList(list) /\ Distinct(list)
  BY DEF VaultInv, CopiesInv, Copies, ListOK

(* Appending a wallet adds its id.                                         *)
LEMMA AppendedIds ==
  ASSUME NEW q, IsList(q), NEW v
  PROVE  Ids(Append(q, v)) = Ids(q) \cup {v.id}
  <1> DEFINE r == Append(q, v)
  <1>1. /\ IsList(r) /\ Len(r) = Len(q) + 1 /\ r[Len(q) + 1] = v
        /\ \A k \in 1..Len(q) : r[k] = q[k]
    BY ListAppends
  <1> HIDE DEF r
  <1>2. DOMAIN r = 1..(Len(q) + 1) /\ DOMAIN q = 1..Len(q) /\ Len(q) \in Nat
    BY <1>1, ListShape
  <1>3. DOMAIN r = DOMAIN q \cup {Len(q) + 1}
    BY <1>2
  <1>4. Ids(r) = {r[k].id : k \in DOMAIN q} \cup {v.id}
    BY <1>1, <1>3 DEF Ids
  <1>5. Ids(r) = Ids(q) \cup {v.id}
    BY <1>1, <1>2, <1>4 DEF Ids
  <1> QED
    BY <1>5 DEF r

(* The calls that make a wallet, from their first read to the last step.   *)
LEMMA SyncMaking ==
  ASSUME VaultInv, SyncNow, overlaps = 0, NEW c \in calls,
         ReadList(c) \/ WriteList(c) \/ WriteActive(c) \/ Reload(c) \/ Publish(c) \/ Restored(c)
  PROVE  SyncNow'
  <1> USE DEF VaultInv
  <1>1. calls = {c}
    BY Alone
  <1>2. UNCHANGED <<network, crashes>>
    BY DEF ReadList, WriteList, WriteActive, Reload, Publish, Restored, stored, choice,
           history, past
  <1>3. /\ Between(c, list, activeId, network, state) /\ DOMAIN mine \subseteq Ids(list)
        /\ crashes = 0 => Whole(list, activeId, state, mine, c)
    <2>1. Sync(list, activeId, network, state, {c}, mine, crashes)
      BY <1>1 DEF SyncNow
    <2> QED
      BY <2>1, SyncOne
  <1>4. CASE ReadList(c)
    <2>1. UNCHANGED <<list, activeId, state, mine>> /\ c.at = "read"
      BY <1>4 DEF ReadList, stored, history, past
    <2>2. PICK d : calls' = {d} /\ d.at = "write" /\ d.id = c.id /\ d.got = list
      BY <1>4, TurnsOfCalls, AloneTurns
    <2>3. Between(d, list, activeId, network, state)
      BY <1>3, <2>1, <2>2 DEF Between, Settled
    <2>4. Sync(list, activeId, network, state, {d}, mine, crashes)
      BY <1>3, <2>1, <2>2, <2>3, SyncOne DEF Whole
    <2> QED
      BY <1>2, <2>1, <2>2, <2>4 DEF SyncNow
  <1>5. CASE WriteList(c)
    <2>1. UNCHANGED <<activeId, state, mine>> /\ c.at = "write"
          /\ list' = Append(c.got, [id |-> c.id,
                                    env |-> EncryptWallet(c.phrase, c.password, "fresh")])
      BY <1>5 DEF WriteList, history, past
    <2>2. PICK d : calls' = {d} /\ d.at = "activate" /\ d.id = c.id
      BY <1>5, TurnsOfCalls, AloneTurns
    <2>3. c.got = list /\ state.network = network
      BY <1>3, <2>1 DEF Between
    <2>4. Ids(list') = Ids(list) \cup {c.id}
      BY <2>1, <2>3, AppendedIds, ListIsList
    <2>5. Between(d, list', activeId, network, state)
      BY <2>2, <2>3, <2>4 DEF Between
    <2>6. Sync(list', activeId, network, state, {d}, mine, crashes)
      BY <1>3, <2>1, <2>2, <2>4, <2>5, SyncOne DEF Whole
    <2> QED
      BY <1>2, <2>1, <2>2, <2>6 DEF SyncNow
  <1>6. CASE WriteActive(c)
    <2>1. UNCHANGED <<list, state, mine>> /\ c.at = "activate" /\ activeId' = c.id
      BY <1>6 DEF WriteActive, history, past
    <2>2. PICK d : calls' = {d} /\ d.at = "reload" /\ d.id = c.id
      BY <1>6, TurnsOfCalls, AloneTurns
    <2>3. Between(d, list, c.id, network, state) /\ c.id \in Ids(list)
      BY <1>3, <2>1, <2>2 DEF Between
    <2>4. Sync(list, c.id, network, state, {d}, mine, crashes)
      BY <1>3, <2>1, <2>2, <2>3, SyncOne, ListedIfIn DEF Whole
    <2> QED
      BY <1>2, <2>1, <2>2, <2>4 DEF SyncNow
  <1>7. CASE Reload(c)
    <2>1. UNCHANGED <<list, activeId, state, mine>> /\ c.at = "reload"
      BY <1>7 DEF Reload, stored, history, past
    <2>2. PICK d : calls' = {d} /\ d.at = "publish" /\ d.id = c.id /\ d.got = list
      BY <1>7, TurnsOfCalls, AloneTurns
    <2>3. Between(d, list, activeId, network, state)
      BY <1>3, <2>1, <2>2 DEF Between
    <2>4. Sync(list, activeId, network, state, {d}, mine, crashes)
      BY <1>3, <2>1, <2>2, <2>3, SyncOne DEF Whole
    <2> QED
      BY <1>2, <2>1, <2>2, <2>4 DEF SyncNow
  <1>8. CASE Publish(c)
    <2> DEFINE e == Session(Opened(c.phrase, c.password), state.network)
    <2>1. UNCHANGED <<list, activeId, mine>> /\ c.at = "publish"
      BY <1>8 DEF Publish, stored, history, past
    <2>2. state' = State(c.got, c.id, state.network, e)
      BY <1>8, StatesOfCalls
    <2> HIDE DEF e
    <2>3. state'.wallets = c.got /\ state'.active = c.id /\ state'.network = state.network
      BY <2>2 DEF State
    <2>4. PICK d : calls' = {d} /\ d.at = "rewards" /\ d.id = c.id
      BY <1>8, TurnsOfCalls, AloneTurns
    <2>5. Between(d, list, activeId, network, state')
      BY <1>3, <2>1, <2>3, <2>4 DEF Between, Settled
    <2>6. Sync(list, activeId, network, state', {d}, mine, crashes)
      BY <1>3, <2>1, <2>4, <2>5, SyncOne DEF Whole
    <2> QED
      BY <1>2, <2>1, <2>4, <2>6 DEF SyncNow
  <1>9. CASE Restored(c)
    <2>1. UNCHANGED <<list, activeId, state>> /\ c.at = "rewards" /\ End(c)
      BY <1>9 DEF Restored, stored
    <2>2. DOMAIN mine' = DOMAIN mine \cup {c.id}
      BY <1>9 DEF Restored
    <2>3. calls' = {}
      BY <2>1, AloneEnds
    <2>4. Settled(list, activeId, network, state) /\ c.id \in Ids(list)
      BY <1>3, <2>1 DEF Between
    <2>5. Sync(list, activeId, network, state, {}, mine', crashes)
      BY <1>3, <2>1, <2>2, <2>4, SyncNone DEF Whole
    <2> QED
      BY <1>2, <2>1, <2>3, <2>5 DEF SyncNow
  <1> QED
    BY <1>4, <1>5, <1>6, <1>7, <1>8, <1>9

(* A deletion, of the temporary wallet too, and a rename.                  *)
LEMMA SyncDeleting ==
  ASSUME VaultInv, SyncNow, overlaps = 0, NEW c \in calls,
         Discard(c) \/ NextActive(c) \/ StaysActive(c) \/ Deleted(c) \/ Renamed(c)
  PROVE  SyncNow'
  <1> USE DEF VaultInv
  <1>1. calls = {c}
    BY Alone
  <1>2. UNCHANGED <<network, crashes, mine>>
    BY DEF Discard, Delete, NextActive, StaysActive, Deleted, Renamed, stored, choice,
           history, past
  <1>3. /\ Between(c, list, activeId, network, state) /\ DOMAIN mine \subseteq Ids(list)
        /\ crashes = 0 => Whole(list, activeId, state, mine, c)
    <2>1. Sync(list, activeId, network, state, {c}, mine, crashes)
      BY <1>1 DEF SyncNow
    <2> QED
      BY <2>1, SyncOne
  <1>4. CASE Discard(c)
    <2> DEFINE g == Without(state.wallets, state.active)
    <2>1. c.at = "rewards" /\ state' = State(state.wallets, state.active, state.network, Locked)
      BY <1>4, StatesOfCalls DEF Discard
    <2>2. /\ Settled(list, activeId, network, state) /\ c.id \in Ids(list) /\ activeId = c.id
      BY <1>3, <2>1 DEF Between
    <2>3. c.id \notin DOMAIN mine /\ c.id # None
      BY <2>1, Makers DEF Making
    <2>4. state.active # None
      BY <2>2, <2>3 DEF Settled
    <2>5. Delete(c, state.active)
      BY <1>4, <2>4 DEF Discard, Victim
    <2>6. list' = g /\ activeId' = activeId /\ Turn(c, "deleted", state.active, g)
      BY <2>5, TurnsOfCalls DEF Delete
    <2>7. Ids(g) = Ids(list) \ {c.id}
      BY <2>2, WithoutLeaves, ListIsList DEF Settled
    <2>8. state'.active = activeId /\ state'.network = network
      BY <2>1, <2>2 DEF State, Settled
    <2> HIDE DEF g
    <2>9. PICK d : calls' = {d} /\ d.at = "deleted" /\ d.id = state.active /\ d.got = g
      BY <2>6, AloneTurns
    <2>10. Between(d, g, activeId, network, state')
      BY <2>8, <2>9 DEF Between
    <2>11. d.id = state'.active
      BY <2>2, <2>8, <2>9 DEF Settled
    <2>12. Sync(g, activeId, network, state', {d}, mine, crashes)
      BY <1>3, <2>1, <2>3, <2>7, <2>9, <2>10, <2>11, SyncOne DEF Whole
    <2> QED
      BY <1>2, <2>6, <2>9, <2>12 DEF SyncNow
  <1>5. CASE NextActive(c)
    <2>1. UNCHANGED <<list, state>> /\ c.at = "deleted" /\ activeId' = FirstId(c.got)
      BY <1>5 DEF NextActive
    <2>2. PICK d : calls' = {d} /\ d.at = "settle" /\ d.id = c.id /\ d.got = c.got
      BY <1>5, TurnsOfCalls, AloneTurns
    <2>3. c.got = list /\ state.network = network
      BY <1>3, <2>1 DEF Between
    <2>4. Between(d, list, FirstId(list), network, state)
      BY <2>2, <2>3 DEF Between
    <2>5. Listed(list, FirstId(list))
      BY FirstListed, ListIsList DEF Listed
    <2>6. Sync(list, FirstId(list), network, state, {d}, mine, crashes)
      BY <1>3, <2>1, <2>2, <2>4, <2>5, SyncOne DEF Whole
    <2> QED
      BY <1>2, <2>1, <2>2, <2>3, <2>6 DEF SyncNow
  <1>6. ASSUME NEW a, NEW e, state' = State(c.got, a, state.network, e), End(c),
               UNCHANGED <<list, activeId>>, c.got = list, a = activeId, state.network = network,
               crashes = 0 => Ids(list) = DOMAIN mine /\ Listed(list, activeId)
        PROVE  SyncNow'
    <2>1. calls' = {}
      BY <1>6, AloneEnds
    <2>2. Settled(list, activeId, network, state')
      BY <1>6 DEF State, Settled
    <2>3. Sync(list, activeId, network, state', {}, mine, crashes)
      BY <1>3, <1>6, <2>2, SyncNone
    <2> QED
      BY <1>2, <1>6, <2>1, <2>3 DEF SyncNow
  <1>7. CASE StaysActive(c)
    <2>1. /\ c.at = "deleted" /\ state.active # c.id /\ End(c) /\ UNCHANGED <<list, activeId>>
          /\ state' = State(c.got, state.active, state.network, state.session)
      BY <1>7, StatesOfCalls DEF StaysActive, stored
    <2>2. c.got = list /\ state.active = activeId /\ state.network = network
      BY <1>3, <2>1 DEF Between
    <2> QED
      BY <1>3, <1>6, <2>1, <2>2 DEF Whole
  <1>8. CASE Deleted(c)
    <2>1. /\ c.at = "settle" /\ End(c) /\ UNCHANGED <<list, activeId>>
          /\ state' = State(c.got, FirstId(c.got), state.network, Locked)
      BY <1>8, StatesOfCalls DEF Deleted, stored
    <2>2. c.got = list /\ activeId = FirstId(list) /\ state.network = network
      BY <1>3, <2>1 DEF Between
    <2> QED
      BY <1>3, <1>6, <2>1, <2>2 DEF Whole
  <1>9. CASE Renamed(c)
    <2>1. /\ c.at = "renamed" /\ End(c) /\ UNCHANGED <<list, activeId>>
          /\ state' = State(c.got, state.active, state.network, state.session)
      BY <1>9, StatesOfCalls DEF Renamed, stored
    <2>2. c.got = list /\ state.active = activeId /\ state.network = network
      BY <1>3, <2>1 DEF Between, Settled
    <2> QED
      BY <1>3, <1>6, <2>1, <2>2 DEF Whole
  <1> QED
    BY <1>4, <1>5, <1>7, <1>8, <1>9

(* A switch, an unlocking, a change of network.                            *)
LEMMA SyncService ==
  ASSUME VaultInv, SyncNow, overlaps = 0, NEW c \in calls,
         Switched(c) \/ Unlocked(c) \/ NetworkStored(c) \/ NetworkDerived(c)
  PROVE  SyncNow'
  <1> USE DEF VaultInv
  <1>1. calls = {c}
    BY Alone
  <1>2. UNCHANGED <<list, activeId, network, crashes, mine>>
    BY DEF Switched, Unlocked, NetworkStored, NetworkDerived, stored, choice, history, past
  <1>3. c.at \in {"switched", "decrypt", "stored", "derive"}
    BY DEF Switched, Unlocked, NetworkStored, NetworkDerived
  <1>4. /\ Between(c, list, activeId, network, state) /\ DOMAIN mine \subseteq Ids(list)
        /\ crashes = 0 => Whole(list, activeId, state, mine, c)
    <2>1. Sync(list, activeId, network, state, {c}, mine, crashes)
      BY <1>1 DEF SyncNow
    <2> QED
      BY <2>1, SyncOne
  <1>5. ASSUME Settled(list, activeId, network, state'), calls' = {}
        PROVE  SyncNow'
    <2>1. Sync(list, activeId, network, state', {}, mine, crashes)
      BY <1>3, <1>4, <1>5, SyncNone DEF Whole
    <2> QED
      BY <1>2, <1>5, <2>1 DEF SyncNow
  <1>6. CASE Switched(c)
    <2>1. /\ c.at = "switched" /\ End(c)
          /\ state' = State(state.wallets, c.id, state.network, Locked)
      BY <1>6, StatesOfCalls DEF Switched
    <2>2. Settled(list, activeId, network, state')
      BY <1>4, <2>1 DEF Between, Settled, State
    <2> QED
      BY <1>5, <2>1, <2>2, AloneEnds
  <1>7. CASE Unlocked(c)
    <2>1. c.at = "decrypt" /\ End(c)
      BY <1>7 DEF Unlocked
    <2>2. Settled(list, activeId, network, state)
      BY <1>4, <2>1 DEF Between
    <2>3. Settled(list, activeId, network, state')
      <3> DEFINE e == Session(Opened(c.phrase, c.password), state.network)
      <3>1. \/ state' = state
            \/ state' = State(state.wallets, state.active, state.network, e)
        BY <1>7, StatesOfCalls
      <3> HIDE DEF e
      <3> QED
        BY <2>2, <3>1 DEF Settled, State
    <2> QED
      BY <1>5, <2>1, <2>3, AloneEnds
  <1>8. CASE NetworkStored(c)
    <2>1. c.at = "stored"
      BY <1>8 DEF NetworkStored
    <2>2. state.wallets = list /\ state.active = activeId /\ network = c.id
      BY <1>4, <2>1 DEF Between
    <2>3. CASE IsUnlocked
      <3>1. state' = state
        BY <1>8, <2>3, StatesOfCalls
      <3>2. PICK d : calls' = {d} /\ d.at = "derive" /\ d.id = c.id
        BY <1>8, <2>3, TurnsOfCalls, AloneTurns
      <3>3. Between(d, list, activeId, network, state)
        BY <2>2, <3>2 DEF Between
      <3>4. Sync(list, activeId, network, state, {d}, mine, crashes)
        BY <1>4, <2>1, <3>2, <3>3, SyncOne DEF Whole
      <3> QED
        BY <1>2, <3>1, <3>2, <3>4 DEF SyncNow
    <2>4. CASE ~IsUnlocked
      <3>1. state' = State(state.wallets, state.active, c.id, state.session) /\ End(c)
        BY <1>8, <2>4, StatesOfCalls DEF NetworkStored
      <3>2. Settled(list, activeId, network, state')
        BY <2>2, <3>1 DEF Settled, State
      <3> QED
        BY <1>5, <3>1, <3>2, AloneEnds
    <2> QED
      BY <2>3, <2>4
  <1>9. CASE NetworkDerived(c)
    <2> DEFINE e == [state.session EXCEPT !.address = c.got]
    <2>1. c.at = "derive" /\ End(c) /\ state' = State(state.wallets, state.active, c.id, e)
      BY <1>9, StatesOfCalls DEF NetworkDerived
    <2> HIDE DEF e
    <2>2. Settled(list, activeId, network, state')
      BY <1>4, <2>1 DEF Between, Settled, State
    <2> QED
      BY <1>5, <2>1, <2>2, AloneEnds
  <1> QED
    BY <1>6, <1>7, <1>8, <1>9

(* A call begins when stored and shown agree.                              *)
LEMMA SyncBegin ==
  ASSUME VaultInv, SyncNow, calls = {},
         \/ \E op \in {"create", "restore"} : \E p, w : Make(op, p, w)
         \/ \E id : DeleteWalletById(id) \/ StartRename(id) \/ StartSwitch(id)
         \/ \E w : StartUnlock(w)
         \/ \E net \in Networks : StartNetwork(net)
  PROVE  SyncNow'
  <1> USE DEF VaultInv
  <1>1. /\ Settled(list, activeId, network, state) /\ DOMAIN mine \subseteq Ids(list)
        /\ crashes = 0 => Ids(list) = DOMAIN mine /\ Listed(list, activeId)
    <2>1. Sync(list, activeId, network, state, {}, mine, crashes)
      BY DEF SyncNow
    <2> QED
      BY <2>1, SyncNone
  <1>2. ASSUME NEW e, e.at \notin {"activate", "reload", "publish", "rewards", "deleted"},
               Begin(e), UNCHANGED <<state, mine, crashes>>, list' = list,
               crashes = 0 => Listed(list, activeId'),
               Between(e, list, activeId', network', state)
        PROVE  SyncNow'
    <2>1. calls' = {e}
      BY <1>2 DEF Begin
    <2>2. Sync(list, activeId', network', state, {e}, mine, crashes)
      BY <1>1, <1>2, SyncOne DEF Whole
    <2> QED
      BY <1>2, <2>1, <2>2 DEF SyncNow
  <1>3. ASSUME NEW op \in {"create", "restore"}, NEW p, NEW w, Make(op, p, w)
        PROVE  SyncNow'
    <2>1. UNCHANGED <<list, activeId, network, state, mine, crashes>>
      BY <1>3 DEF Make, stored, choice
    <2> DEFINE e == Call(op, "read", NewId, p, w, <<>>)
    <2>2. CASE Begin(e)
      <3>1. e.at = "read"
        BY CallFields
      <3> HIDE DEF e
      <3>2. Between(e, list, activeId', network', state)
        BY <1>1, <2>1, <3>1 DEF Between, Settled
      <3> QED
        BY <1>1, <1>2, <2>1, <2>2, <3>1, <3>2
    <2>3. CASE UNCHANGED calls
      <3>1. calls' = {}
        BY <2>3
      <3>2. Sync(list, activeId, network, state, {}, mine, crashes)
        BY DEF SyncNow
      <3> QED
        BY <2>1, <3>1, <3>2 DEF SyncNow
    <2> QED
      BY <1>3, <2>2, <2>3 DEF Make
  <1>4. ASSUME NEW id, DeleteWalletById(id)
        PROVE  SyncNow'
    <2> DEFINE g == Without(state.wallets, id)
               c == Call("delete", "deleted", id, None, None, <<>>)
               e == MovedTo(c, "deleted", id, g)
    <2>1. /\ id \in (Ids(state.wallets) \cup {state.active}) \ {None}
          /\ DOMAIN mine' = DOMAIN mine \ {id}
          /\ Delete(c, id)
          /\ UNCHANGED <<activeId, network, state, crashes>>
      BY <1>4 DEF DeleteWalletById, Delete, choice
    <2>2. list' = g /\ calls' = {e}
      BY <2>1 DEF Delete, MovedTo
    <2>3. e = Call(c.op, "deleted", id, c.phrase, c.password, g)
      <3>1. CallTyped(c)
        BY CallIsTyped
      <3> HIDE DEF g, c
      <3> QED
        BY <3>1, CallSteps
    <2>4. e.at = "deleted" /\ e.id = id /\ e.got = g
      BY <2>3, CallFields
    <2>5. Ids(g) = Ids(list) \ {id}
      BY <1>1, WithoutLeaves, ListIsList DEF Settled
    <2> HIDE DEF c, e, g
    <2>6. Between(e, g, activeId, network, state)
      BY <1>1, <2>4 DEF Between, Settled
    <2>7. ASSUME crashes = 0, state.active # id
          PROVE  Listed(g, activeId)
      <3>1. Listed(list, activeId)
        BY <1>1, <2>7
      <3>2. list # <<>>
        <4>1. CASE list = <<>>
          <5>1. Ids(list) = {} /\ activeId = None
            BY <3>1, <4>1 DEF Listed, Ids
          <5> QED
            BY <1>1, <2>1, <5>1 DEF Settled
        <4> QED BY <4>1
      <3>3. activeId \in Ids(g)
        BY <1>1, <2>5, <2>7, <3>1, <3>2 DEF Listed, Settled
      <3> QED
        BY <3>3, ListedIfIn
    <2>8. Sync(g, activeId, network, state, {e}, mine', crashes)
      <3>1. crashes = 0 => Whole(g, activeId, state, mine', e)
        BY <1>1, <2>1, <2>4, <2>5, <2>7 DEF Whole
      <3>2. DOMAIN mine' \subseteq Ids(g)
        BY <1>1, <2>1, <2>5
      <3> QED
        BY <2>6, <3>1, <3>2, SyncOne
    <2> QED
      BY <2>1, <2>2, <2>8 DEF SyncNow
  <1>5. ASSUME NEW id, StartRename(id)
        PROVE  SyncNow'
    <2> DEFINE e == Call("rename", "renamed", id, None, None, state.wallets)
    <2>1. Begin(e) /\ list' = state.wallets
          /\ UNCHANGED <<activeId, network, state, mine, crashes>>
      BY <1>5 DEF StartRename, choice, past
    <2>2. e.at = "renamed" /\ e.got = state.wallets
      BY CallFields
    <2> HIDE DEF e
    <2>3. Between(e, list, activeId', network', state)
      BY <1>1, <2>1, <2>2 DEF Between, Settled
    <2> QED
      BY <1>1, <1>2, <2>1, <2>2, <2>3 DEF Settled
  <1>6. ASSUME NEW id, StartSwitch(id)
        PROVE  SyncNow'
    <2> DEFINE e == Call("switch", "switched", id, None, None, <<>>)
    <2>1. Begin(e) /\ activeId' = id /\ id \in Ids(state.wallets)
          /\ UNCHANGED <<list, network, state, mine, crashes>>
      BY <1>6 DEF StartSwitch, choice, past
    <2>2. e.at = "switched" /\ e.id = id
      BY CallFields
    <2> HIDE DEF e
    <2>3. Between(e, list, activeId', network', state)
      BY <1>1, <2>1, <2>2 DEF Between, Settled
    <2>4. Listed(list, activeId')
      BY <1>1, <2>1, ListedIfIn DEF Settled
    <2> QED
      BY <1>2, <2>1, <2>2, <2>3, <2>4
  <1>7. ASSUME NEW w, StartUnlock(w)
        PROVE  SyncNow'
    <2> DEFINE p == DecryptWallet(EnvOf(state.wallets, state.active), w)
    <2> DEFINE e == Call("unlock", "decrypt", state.active, p, w, <<>>)
    <2>1. Begin(e) /\ UNCHANGED <<list, activeId, network, state, mine, crashes>>
      BY <1>7 DEF StartUnlock, stored, choice, past
    <2> HIDE DEF p
    <2>2. e.at = "decrypt"
      BY CallFields
    <2> HIDE DEF e
    <2>3. Between(e, list, activeId', network', state)
      BY <1>1, <2>1, <2>2 DEF Between, Settled
    <2> QED
      BY <1>1, <1>2, <2>1, <2>2, <2>3
  <1>8. ASSUME NEW net \in Networks, StartNetwork(net)
        PROVE  SyncNow'
    <2> DEFINE e == Call("network", "stored", net, None, None, <<>>)
    <2>1. Begin(e) /\ network' = net /\ UNCHANGED <<list, activeId, state, mine, crashes>>
      BY <1>8 DEF StartNetwork, past
    <2>2. e.at = "stored" /\ e.id = net
      BY CallFields
    <2> HIDE DEF e
    <2>3. Between(e, list, activeId', network', state)
      BY <1>1, <2>1, <2>2 DEF Between, Settled
    <2> QED
      BY <1>1, <1>2, <2>1, <2>2, <2>3
  <1> QED
    BY <1>3, <1>4, <1>5, <1>6, <1>7, <1>8

(* A changed envelope changes no id.                                       *)
LEMMA DamagedIds ==
  ASSUME NEW q, IsList(q), \A j \in DOMAIN q : q[j] = [id |-> q[j].id, env |-> q[j].env],
         NEW k \in DOMAIN q, NEW env
  PROVE  Ids([q EXCEPT ![k].env = env]) = Ids(q)
  <1> DEFINE r == [q EXCEPT ![k].env = env]
             v == [q[k] EXCEPT !.env = env]
  <1>1. v.id = q[k].id
    <2> DEFINE i == q[k].id
               o == q[k].env
    <2>1. q[k] = [id |-> i, env |-> o]
      OBVIOUS
    <2> HIDE DEF i, o
    <2>2. v = [id |-> i, env |-> env]
      BY <2>1
    <2> QED
      BY <2>2 DEF i
  <1>2. DOMAIN r = DOMAIN q /\ r[k] = v /\ \A j \in DOMAIN q : j # k => r[j] = q[j]
    OBVIOUS
  <1> HIDE DEF r, v
  <1>3. \A j \in DOMAIN q : r[j].id = q[j].id
    BY <1>1, <1>2
  <1>4. Ids(r) = Ids(q)
    BY <1>2, <1>3 DEF Ids
  <1> QED
    BY <1>4 DEF r

(* Without a call, a restart loads what was shown.                         *)
LEMMA SyncOther ==
  ASSUME VaultInv, SyncNow, overlaps = 0,
         \/ Lock /\ calls = {}
         \/ (\E d \in Hashes : Sign(d)) \/ Close \/ UNCHANGED vars
         \/ Crash \/ \E k \in DOMAIN list : Damage(k)
  PROVE  SyncNow'
  <1> USE DEF VaultInv
  <1>1. CASE Lock /\ calls = {}
    <2>1. /\ UNCHANGED <<list, activeId, network, calls, mine, crashes>>
          /\ state' = State(state.wallets, state.active, state.network, Locked)
      BY <1>1, StateOfLock DEF Lock, stored, choice, past
    <2>2. Sync(list, activeId, network, state, {}, mine, crashes)
      BY <1>1 DEF SyncNow
    <2>3. Settled(list, activeId, network, state')
      BY <2>1, <2>2, SyncNone DEF Settled, State
    <2>4. Sync(list, activeId, network, state', {}, mine, crashes)
      BY <2>2, <2>3, SyncNone
    <2> QED
      BY <1>1, <2>1, <2>4 DEF SyncNow
  <1>2. CASE (\E d \in Hashes : Sign(d)) \/ Close \/ UNCHANGED vars
    <2>1. UNCHANGED <<list, activeId, network, state, calls, mine, crashes>>
      BY <1>2 DEF Sign, Close, vars, stored, choice, history, past
    <2> QED
      BY <2>1 DEF SyncNow
  <1>3. CASE Crash
    <2>1. /\ UNCHANGED <<list, activeId, network, mine>> /\ calls' = {} /\ crashes' = crashes + 1
          /\ state' = [wallets |-> list, active |-> activeId, network |-> network,
                       session |-> Locked]
      BY <1>3 DEF Crash, Loaded, stored, choice
    <2>2. crashes' # 0
      BY <2>1 DEF CountsTyped
    <2>3. Settled(list, activeId, network, state')
      BY <2>1 DEF Settled
    <2>4. DOMAIN mine \subseteq Ids(list)
      BY DEF SyncNow, Sync
    <2>5. Sync(list, activeId, network, state', {}, mine, crashes')
      BY <2>2, <2>3, <2>4, SyncNone
    <2> QED
      BY <2>1, <2>5 DEF SyncNow
  <1>4. ASSUME NEW k \in DOMAIN list, Damage(k)
        PROVE  SyncNow'
    <2>1. PICK env : list' = [list EXCEPT ![k].env = env]
      BY <1>4 DEF Damage
    <2>2. /\ calls = {} /\ UNCHANGED <<activeId, network, calls, mine, crashes>>
          /\ state' = [wallets |-> list', active |-> activeId, network |-> network,
                       session |-> Locked]
      BY <1>4 DEF Damage, choice
    <2>3. \A j \in DOMAIN list : list[j] = [id |-> list[j].id, env |-> list[j].env]
      BY DEF CopiesInv, Copies, ListOK, Fits
    <2>4. Ids(list') = Ids(list)
      BY <2>1, <2>3, DamagedIds, ListIsList
    <2>5. Sync(list, activeId, network, state, {}, mine, crashes)
      BY <2>2 DEF SyncNow
    <2>6. Settled(list', activeId, network, state')
      BY <2>2 DEF Settled
    <2>7. Listed(list, activeId) => Listed(list', activeId)
      <3>1. list # <<>>
        OBVIOUS
      <3> QED
        BY <2>4, <3>1, ListedIfIn DEF Listed
    <2>8. Sync(list', activeId, network, state', {}, mine, crashes)
      BY <2>4, <2>5, <2>6, <2>7, SyncNone
    <2> QED
      BY <2>2, <2>8 DEF SyncNow
  <1> QED
    BY <1>1, <1>2, <1>3, <1>4

(* The calls a user who waits begins, begin with none in flight.           *)
LEMMA OverlapsGrow ==
  ASSUME VaultInv, [Next]_vars, overlaps' = 0
  PROVE  overlaps = 0
  <1>1. overlaps \in Nat
    BY BoundAssumption DEF VaultInv, CallsTyped
  <1>2. MayBegin => overlaps = 0
    BY <1>1 DEF MayBegin
  <1> SUFFICES overlaps' = overlaps \/ MayBegin
    BY <1>2
  <1>3. CASE StartCreate \/ \E p \in Typed \cup {shown}, w \in Passwords : p # None /\ StartRestore(p, w)
    BY <1>3 DEF StartCreate, StartRestore, Make, Begin
  <1>4. ASSUME NEW c \in calls,
               \/ ReadList(c) \/ WriteList(c) \/ WriteActive(c) \/ Reload(c) \/ Publish(c)
               \/ Restored(c) \/ Discard(c) \/ NextActive(c) \/ StaysActive(c) \/ Deleted(c)
               \/ Renamed(c) \/ Switched(c) \/ Unlocked(c)
               \/ NetworkStored(c) \/ NetworkDerived(c)
        PROVE  overlaps' = overlaps
    BY <1>4 DEF ReadList, WriteList, WriteActive, Reload, Publish, Restored, Discard, NextActive,
                StaysActive, Deleted, Renamed, Switched, Unlocked, NetworkStored, NetworkDerived,
                history
  <1>5. CASE \E id \in Ids(state.wallets) \cup {state.active} :
               DeleteWalletById(id) \/ StartRename(id) \/ StartSwitch(id)
    BY <1>5 DEF DeleteWalletById, StartRename, StartSwitch, Begin
  <1>6. CASE (\E w \in Passwords : StartUnlock(w)) \/ (\E net \in Networks : StartNetwork(net)) \/ Lock
    BY <1>6 DEF StartUnlock, StartNetwork, Lock, Begin
  <1>7. CASE \/ (\E d \in Hashes : Sign(d)) \/ Close \/ UNCHANGED vars
             \/ Crash \/ \E k \in DOMAIN list : Damage(k)
    BY <1>7 DEF Sign, Close, Crash, Damage, vars, history
  <1> QED
    BY <1>3, <1>4, <1>5, <1>6, <1>7 DEF Next

(* Every step of a user who waits keeps it.                                *)
LEMMA SyncStep ==
  ASSUME VaultInv, SyncInv, [Next]_vars
  PROVE  SyncInv'
  <1> SUFFICES ASSUME overlaps' = 0 PROVE SyncNow'
    BY DEF SyncInv
  <1>1. overlaps = 0 /\ SyncNow
    BY OverlapsGrow DEF SyncInv
  <1>2. MayBegin => calls = {}
    BY AloneBegins DEF VaultInv
  <1>3. CASE StartCreate \/ \E p \in Typed \cup {shown}, w \in Passwords : p # None /\ StartRestore(p, w)
    <2>1. \E op \in {"create", "restore"} : \E p, w : Make(op, p, w)
      BY <1>3 DEF StartCreate, StartRestore
    <2>2. calls = {}
      BY <1>2, <2>1 DEF Make, Begin
    <2> QED
      BY <1>1, <2>1, <2>2, SyncBegin
  <1>4. ASSUME NEW c \in calls,
               \/ ReadList(c) \/ WriteList(c) \/ WriteActive(c) \/ Reload(c) \/ Publish(c)
               \/ Restored(c) \/ Discard(c) \/ NextActive(c) \/ StaysActive(c) \/ Deleted(c)
               \/ Renamed(c) \/ Switched(c) \/ Unlocked(c)
               \/ NetworkStored(c) \/ NetworkDerived(c)
        PROVE  SyncNow'
    BY <1>1, <1>4, SyncMaking, SyncDeleting, SyncService
  <1>5. CASE \E id \in Ids(state.wallets) \cup {state.active} :
               DeleteWalletById(id) \/ StartRename(id) \/ StartSwitch(id)
    <2>1. calls = {}
      BY <1>2, <1>5 DEF DeleteWalletById, StartRename, StartSwitch, Begin
    <2> QED
      BY <1>1, <1>5, <2>1, SyncBegin
  <1>6. CASE (\E w \in Passwords : StartUnlock(w)) \/ (\E net \in Networks : StartNetwork(net))
    <2>1. calls = {}
      BY <1>2, <1>6 DEF StartUnlock, StartNetwork, Begin
    <2> QED
      BY <1>1, <1>6, <2>1, SyncBegin
  <1>7. CASE \/ Lock \/ (\E d \in Hashes : Sign(d)) \/ Close \/ UNCHANGED vars
             \/ Crash \/ \E k \in DOMAIN list : Damage(k)
    <2>1. Lock => calls = {}
      BY <1>2 DEF Lock
    <2> QED
      BY <1>1, <1>7, <2>1, SyncOther
  <1> QED
    BY <1>3, <1>4, <1>5, <1>6, <1>7 DEF Next

(* It holds at first.                                                      *)
LEMMA SyncInit ==
  ASSUME Init
  PROVE  SyncInv
  <1>1. /\ list = Old /\ activeId = FirstId(Old) /\ calls = {} /\ crashes = 0
        /\ state = [wallets |-> list, active |-> activeId, network |-> network,
                    session |-> Locked]
        /\ DOMAIN mine = Ids(Old)
    BY DEF Init, Loaded
  <1>2. IsList(Old)
    BY OldAssumption DEF IsList
  <1>3. Listed(Old, FirstId(Old))
    BY <1>2, FirstListed DEF Listed
  <1>4. Settled(list, activeId, network, state)
    BY <1>1 DEF Settled
  <1>5. Sync(list, activeId, network, state, {}, mine, crashes)
    BY <1>1, <1>3, <1>4, SyncNone
  <1> QED
    BY <1>1, <1>5 DEF SyncInv, SyncNow

(* The sync invariant: whoever waits for each call finds storage and      *)
(* service apart only by what that call has yet to do, and every wallet of *)
(* the user listed, wherever the process stopped.                          *)
THEOREM SyncInvariant == Spec => []SyncInv
  <1>1. VaultInv /\ SyncInv /\ [Next]_vars => SyncInv'
    BY SyncStep
  <1> QED
    BY SyncInit, VaultInvariant, <1>1, PTL DEF Spec

(* ListIsTheUsers: whoever waits for each call loses no wallet but those   *)
(* deleted on request, wherever the process stopped, and keeps no          *)
(* temporary one if it never did: createWallet, _persistNewWallet,         *)
(* deleteWalletById and the create screen.                                 *)
THEOREM ListStaysTheUsers == Spec => []ListIsTheUsers
  <1>1. ASSUME SyncInv, overlaps = 0
        PROVE  /\ DOMAIN mine \subseteq Ids(list)
               /\ calls = {} /\ crashes = 0 => DOMAIN mine = Ids(list)
    <2>1. SyncNow
      BY <1>1 DEF SyncInv
    <2>2. DOMAIN mine \subseteq Ids(list)
      BY <2>1 DEF SyncNow, Sync
    <2>3. ASSUME calls = {}, crashes = 0
          PROVE  DOMAIN mine = Ids(list)
      BY <2>1, <2>3, SyncNone DEF SyncNow
    <2> QED
      BY <2>2, <2>3
  <1>2. SyncInv => ListIsTheUsers
    BY <1>1 DEF ListIsTheUsers
  <1> QED
    BY <1>2, SyncInvariant, PTL

(* RestartShowsTheSame: between two calls of such a user, what init would  *)
(* load from storage is what the service shows.                            *)
THEOREM RestartsShowTheSame == Spec => []RestartShowsTheSame
  <1>1. ASSUME SyncInv, overlaps = 0, calls = {}, crashes = 0
        PROVE  /\ state.wallets = list /\ state.active = activeId /\ state.network = network
               /\ IF list = <<>> THEN activeId = None ELSE activeId \in Ids(list)
    <2>1. Sync(list, activeId, network, state, {}, mine, crashes)
      BY <1>1 DEF SyncInv, SyncNow
    <2> QED
      BY <1>1, <2>1, SyncNone DEF Settled, Listed
  <1>2. SyncInv => RestartShowsTheSame
    BY <1>1 DEF RestartShowsTheSame
  <1> QED
    BY <1>2, SyncInvariant, PTL

-----------------------------------------------------------------------------
(* The keys of a user who waits.                                           *)
SeedOf(s) == MnemonicToSeed(s.phrase, PqTransform(s.password))
NetAddress(seed, net) == DefaultAddress(seed, net = "mainnet")

Keys(S, C, m) ==
  /\ \A id \in DOMAIN m :
       m[id].address \in {DefaultAddress(SeedOf(m[id]), TRUE), DefaultAddress(SeedOf(m[id]), FALSE)}
  /\ S.session.seed # None /\ S.active \in DOMAIN m =>
       /\ S.session.seed = SeedOf(m[S.active])
       /\ S.session.address = NetAddress(S.session.seed, S.network)
  /\ \A c \in C :
       /\ c.at = "rewards" => S.session = Session(Opened(c.phrase, c.password), S.network)
       /\ c.at = "decrypt" =>
            /\ c.id = S.active /\ c.id \in Ids(S.wallets)
            /\ c.phrase = DecryptWallet(EnvOf(S.wallets, c.id), c.password)
       /\ c.at = "derive" => c.got = NetAddress(S.session.seed, c.id)

KeysNow == Keys(state, calls, mine)
KeysInv == overlaps = 0 => KeysNow

(* A step keeps the keys if it leaves the session alone or drops it, and   *)
(* no call learns of others.                                               *)
LEMMA KeysKept ==
  ASSUME NEW S, NEW C, NEW m, Keys(S, C, m), NEW S2, NEW C2, NEW m2,
         \A id \in DOMAIN m2 : id \in DOMAIN m /\ m2[id] = m[id],
         \/ S2.session.seed = None
         \/ S2.session = S.session /\ S2.active = S.active /\ S2.network = S.network,
         \A c \in C2 : c.at \notin {"rewards", "decrypt", "derive"}
  PROVE  Keys(S2, C2, m2)
  <1>1. \A id \in DOMAIN m2 :
          m2[id].address \in {DefaultAddress(SeedOf(m2[id]), TRUE),
                              DefaultAddress(SeedOf(m2[id]), FALSE)}
    BY DEF Keys
  <1>2. ASSUME S2.session.seed # None, S2.active \in DOMAIN m2
        PROVE  /\ S2.session.seed = SeedOf(m2[S2.active])
               /\ S2.session.address = NetAddress(S2.session.seed, S2.network)
    <2>1. S2.session = S.session /\ S2.active = S.active /\ S2.network = S.network
      BY <1>2
    <2>2. S.session.seed # None /\ S.active \in DOMAIN m /\ m2[S2.active] = m[S.active]
      BY <1>2, <2>1
    <2> QED
      BY <2>1, <2>2 DEF Keys
  <1> QED
    BY <1>1, <1>2 DEF Keys

(* The address is one of two.                                              *)
LEMMA NetCases ==
  ASSUME NEW x, NEW net
  PROVE  NetAddress(x, net) =
           IF net = "mainnet" THEN DefaultAddress(x, TRUE) ELSE DefaultAddress(x, FALSE)
  <1>1. CASE net = "mainnet"
    <2>1. (net = "mainnet") = TRUE
      BY <1>1
    <2>2. NetAddress(x, net) = DefaultAddress(x, TRUE)
      BY <2>1 DEF NetAddress
    <2> QED
      BY <1>1, <2>2
  <1>2. CASE net # "mainnet"
    <2>1. (net = "mainnet") = FALSE
      BY <1>2
    <2>2. NetAddress(x, net) = DefaultAddress(x, FALSE)
      BY <2>1 DEF NetAddress
    <2> QED
      BY <1>2, <2>2
  <1> QED
    BY <1>1, <1>2

(* What a valid mnemonic opens.                                            *)
LEMMA OpenedSession ==
  ASSUME NEW p, NEW w, ValidMnemonic(p), NEW net
  PROVE  /\ Session(Opened(p, w), net).seed = MnemonicToSeed(p, PqTransform(w))
         /\ Session(Opened(p, w), net).address = NetAddress(MnemonicToSeed(p, PqTransform(w)), net)
  <1> DEFINE s == Session(Opened(p, w), net)
             x == MnemonicToSeed(p, PqTransform(w))
             y == DefaultAddress(x, TRUE)
             z == DefaultAddress(x, FALSE)
  <1>1. Opened(p, w) = [mnemonic |-> p, seed |-> x, main |-> y, test |-> z]
    BY DEF Opened, RestoreWallet
  <1>2. NetAddress(x, net) = IF net = "mainnet" THEN y ELSE z
    BY NetCases
  <1> HIDE DEF x, y, z
  <1>3. s.seed = x /\ s.address = IF net = "mainnet" THEN y ELSE z
    BY <1>1 DEF Session
  <1> HIDE DEF s
  <1>4. s.seed = x /\ s.address = NetAddress(x, net)
    BY <1>2, <1>3
  <1> QED
    BY <1>4 DEF s, x

(* The steps that open nothing.                                            *)
LEMMA KeysCalls ==
  ASSUME VaultInv, SyncNow, KeysNow, overlaps = 0, NEW c \in calls,
         \/ ReadList(c) \/ WriteList(c) \/ WriteActive(c) \/ Reload(c)
         \/ Discard(c) \/ NextActive(c) \/ StaysActive(c) \/ Deleted(c)
         \/ Renamed(c) \/ Switched(c)
  PROVE  KeysNow'
  <1> USE DEF VaultInv
  <1>1. mine' = mine
    BY DEF ReadList, WriteList, WriteActive, Reload, Discard, Delete, NextActive, StaysActive,
           Deleted, Renamed, Switched, history, past
  <1>2. \A d \in calls' : d.at \notin {"rewards", "decrypt", "derive"}
    <2>1. CASE End(c)
      BY <2>1, AloneEnds
    <2>2. ASSUME NEW at, NEW id, NEW got, Turn(c, at, id, got),
                 at \notin {"rewards", "decrypt", "derive"}
          PROVE  \A d \in calls' : d.at \notin {"rewards", "decrypt", "derive"}
      BY <2>2, AloneTurns
    <2>3. CASE ReadList(c) \/ WriteList(c) \/ WriteActive(c) \/ Reload(c) \/ NextActive(c)
      BY <2>2, <2>3, TurnsOfCalls
    <2>4. CASE Discard(c)
      BY <2>1, <2>2, <2>4, TurnsOfCalls DEF Discard
    <2>5. CASE StaysActive(c) \/ Deleted(c) \/ Renamed(c) \/ Switched(c)
      BY <2>1, <2>5 DEF StaysActive, Deleted, Renamed, Switched
    <2> QED
      BY <2>3, <2>4, <2>5
  <1>3. \/ state'.session.seed = None
        \/ /\ state'.session = state.session /\ state'.active = state.active
           /\ state'.network = state.network
    <2>1. CASE ReadList(c) \/ WriteList(c) \/ WriteActive(c) \/ Reload(c) \/ NextActive(c)
      <3>1. state' = state
        BY <2>1 DEF ReadList, WriteList, WriteActive, Reload, NextActive
      <3> QED
        BY <3>1
    <2>2. CASE Discard(c)
      <3>1. state' = State(state.wallets, state.active, state.network, Locked)
        BY <2>2, StatesOfCalls
      <3> QED
        BY <3>1 DEF State, Locked
    <2>3. CASE Deleted(c)
      <3>1. state' = State(c.got, FirstId(c.got), state.network, Locked)
        BY <2>3, StatesOfCalls
      <3> QED
        BY <3>1 DEF State, Locked
    <2>4. CASE Switched(c)
      <3>1. state' = State(state.wallets, c.id, state.network, Locked)
        BY <2>4, StatesOfCalls
      <3> QED
        BY <3>1 DEF State, Locked
    <2>5. CASE StaysActive(c) \/ Renamed(c)
      <3>1. state' = State(c.got, state.active, state.network, state.session)
        BY <2>5, StatesOfCalls
      <3> QED
        BY <3>1 DEF State
    <2> QED
      BY <2>1, <2>2, <2>3, <2>4, <2>5
  <1>4. Keys(state', calls', mine)
    BY <1>2, <1>3, KeysKept DEF KeysNow
  <1> QED
    BY <1>1, <1>4 DEF KeysNow

(* The wallet that is made is open, though not its user's yet.             *)
LEMMA KeysPublish ==
  ASSUME VaultInv, KeysNow, overlaps = 0, NEW c \in calls, Publish(c)
  PROVE  KeysNow'
  <1> USE DEF VaultInv
  <1> DEFINE e == Session(Opened(c.phrase, c.password), state.network)
  <1>1. c.at = "publish" /\ mine' = mine
    BY DEF Publish, history, past
  <1>2. state' = State(c.got, c.id, state.network, e)
    BY StatesOfCalls
  <1>3. state'.session = e /\ state'.active = c.id /\ state'.network = state.network
    BY <1>2 DEF State
  <1>4. PICK d : /\ calls' = {d} /\ d.at = "rewards"
                 /\ d.phrase = c.phrase /\ d.password = c.password
    BY TurnsOfCalls, AloneTurns
  <1>5. c.id \notin DOMAIN mine
    BY <1>1, Makers DEF Making
  <1>6. state'.session = Session(Opened(d.phrase, d.password), state'.network)
    BY <1>3, <1>4
  <1> HIDE DEF e
  <1>7. Keys(state', {d}, mine)
    BY <1>3, <1>4, <1>5, <1>6 DEF KeysNow, Keys
  <1> QED
    BY <1>1, <1>4, <1>7 DEF KeysNow

(* The user is shown the address of the session, which is the new          *)
(* wallet's.                                                               *)
LEMMA KeysRestored ==
  ASSUME VaultInv, SyncNow, KeysNow, overlaps = 0, NEW c \in calls, Restored(c)
  PROVE  KeysNow'
  <1> USE DEF VaultInv
  <1>1. /\ c.at = "rewards" /\ state' = state
        /\ DOMAIN mine' = DOMAIN mine \cup {c.id}
        /\ mine'[c.id] = Seen(c.password, c.phrase, state.session.address)
        /\ \A id \in DOMAIN mine : id # c.id => mine'[id] = mine[id]
    BY DEF Restored
  <1>2. calls' = {}
    BY AloneEnds DEF Restored
  <1>3. state.active = c.id
    BY <1>1 DEF SyncNow, Sync, Between, Settled
  <1>4. state.session = Session(Opened(c.phrase, c.password), state.network)
    BY <1>1 DEF KeysNow, Keys
  <1>5. ValidMnemonic(c.phrase)
    BY <1>1 DEF CopiesInv, Copies, MakerOK, Making
  <1> DEFINE s == state.session
  <1>6. /\ s.seed = MnemonicToSeed(c.phrase, PqTransform(c.password))
        /\ s.address = NetAddress(s.seed, state.network)
    BY <1>4, <1>5, OpenedSession
  <1>61. s.address \in {DefaultAddress(s.seed, TRUE), DefaultAddress(s.seed, FALSE)}
    BY <1>6, NetCases
  <1> HIDE DEF s
  <1>7. /\ mine'[c.id].password = c.password /\ mine'[c.id].phrase = c.phrase
        /\ mine'[c.id].address = s.address
    BY <1>1 DEF Seen, s
  <1>8. s.seed = SeedOf(mine'[c.id])
    BY <1>6, <1>7 DEF SeedOf
  <1>9. Keys(state, {}, mine')
    <2>1. ASSUME NEW id \in DOMAIN mine'
          PROVE  mine'[id].address \in {DefaultAddress(SeedOf(mine'[id]), TRUE),
                                        DefaultAddress(SeedOf(mine'[id]), FALSE)}
      <3>1. CASE id = c.id
        BY <1>61, <1>7, <1>8, <3>1
      <3>2. CASE id # c.id
        <4>1. id \in DOMAIN mine /\ mine'[id] = mine[id]
          BY <1>1, <2>1, <3>2
        <4> QED
          BY <4>1 DEF KeysNow, Keys
      <3> QED
        BY <3>1, <3>2
    <2>2. /\ state.session.seed = SeedOf(mine'[state.active])
          /\ state.session.address = NetAddress(state.session.seed, state.network)
      BY <1>3, <1>6, <1>8 DEF s
    <2> QED
      BY <2>1, <2>2 DEF Keys
  <1> QED
    BY <1>1, <1>2, <1>9 DEF KeysNow

(* What a stored envelope opens to are the keys its user knows.            *)
LEMMA KeysUnlocked ==
  ASSUME VaultInv, KeysNow, overlaps = 0, NEW c \in calls, Unlocked(c)
  PROVE  KeysNow'
  <1> USE DEF VaultInv
  <1>1. c.at = "decrypt" /\ mine' = mine
    BY DEF Unlocked, history, past
  <1>2. calls' = {}
    BY AloneEnds DEF Unlocked
  <1>3. CASE c.phrase = Error
    <2>1. state' = state
      BY <1>3, StatesOfCalls
    <2>2. Keys(state, {}, mine)
      BY KeysKept DEF KeysNow
    <2> QED
      BY <1>1, <1>2, <2>1, <2>2 DEF KeysNow
  <1>4. CASE c.phrase # Error
    <2> DEFINE e == Session(Opened(c.phrase, c.password), state.network)
    <2>1. state' = State(state.wallets, state.active, state.network, e)
      BY <1>4, StatesOfCalls
    <2>2. state'.session = e /\ state'.active = state.active /\ state'.network = state.network
      BY <2>1 DEF State
    <2>3. /\ c.id = state.active /\ c.id \in Ids(state.wallets)
          /\ c.phrase = DecryptWallet(EnvOf(state.wallets, c.id), c.password)
      BY <1>1 DEF KeysNow, Keys
    <2>4. PICK k \in DOMAIN state.wallets :
            /\ state.wallets[k].id = c.id
            /\ EnvOf(state.wallets, c.id) = state.wallets[k].env
      BY <2>3, EnvFound
    <2>5. Fits(state.wallets[k], mine, damaged, calls, made)
      BY DEF CopiesInv, Copies, ListOK
    <2>6. c.id \notin damaged
      BY <1>4, <2>3, <2>4, <2>5 DEF Fits, Broken
    <2>7. ASSUME state.active \in DOMAIN mine
          PROVE  /\ e.seed = SeedOf(mine[state.active])
                 /\ e.address = NetAddress(e.seed, state.network)
      <3> DEFINE s == mine[c.id]
                 env == state.wallets[k].env
      <3>1. env \in Envelopes(s.phrase, s.password) /\ Sealed(env)
        BY <2>3, <2>4, <2>5, <2>6, <2>7 DEF Fits
      <3>2. /\ DecryptWallet(env, c.password) = IF c.password = s.password THEN s.phrase ELSE Error
            /\ env.sealed.msg = s.phrase
        BY <3>1, EnvelopeOpens
      <3>3. c.password = s.password /\ c.phrase = s.phrase
        BY <1>4, <2>3, <2>4, <3>2
      <3>4. ValidMnemonic(c.phrase)
        BY <3>1, <3>2, <3>3 DEF Sealed
      <3>5. /\ e.seed = MnemonicToSeed(c.phrase, PqTransform(c.password))
            /\ e.address = NetAddress(e.seed, state.network)
        BY <3>4, OpenedSession
      <3> QED
        BY <2>3, <3>3, <3>5 DEF SeedOf
    <2> HIDE DEF e
    <2>8. Keys(state', {}, mine)
      BY <2>2, <2>7 DEF KeysNow, Keys
    <2> QED
      BY <1>1, <1>2, <2>8 DEF KeysNow
  <1> QED
    BY <1>3, <1>4

(* The address is derived from the session's own seed.                     *)
LEMMA KeysNetwork ==
  ASSUME VaultInv, KeysNow, overlaps = 0, NEW c \in calls, NetworkStored(c) \/ NetworkDerived(c)
  PROVE  KeysNow'
  <1> USE DEF VaultInv
  <1>1. mine' = mine
    BY DEF NetworkStored, NetworkDerived, history, past
  <1>2. CASE NetworkStored(c)
    <2>1. CASE IsUnlocked
      <3> DEFINE g == DefaultAddress(state.session.seed, c.id = "mainnet")
      <3>1. state' = state /\ Turn(c, "derive", c.id, g)
        BY <1>2, <2>1, StatesOfCalls, TurnsOfCalls
      <3>2. PICK d : calls' = {d} /\ d.at = "derive" /\ d.id = c.id /\ d.got = g
        <4> HIDE DEF g
        <4> QED BY <3>1, AloneTurns
      <3>3. d.got = NetAddress(state.session.seed, d.id)
        BY <3>2 DEF NetAddress
      <3>4. Keys(state, {d}, mine)
        BY <3>2, <3>3 DEF KeysNow, Keys
      <3> QED
        BY <1>1, <3>1, <3>2, <3>4 DEF KeysNow
    <2>2. CASE ~IsUnlocked
      <3>1. state' = State(state.wallets, state.active, c.id, state.session) /\ End(c)
        BY <1>2, <2>2, StatesOfCalls DEF NetworkStored
      <3>2. calls' = {} /\ state'.session.seed = None
        BY <2>2, <3>1, AloneEnds DEF State, IsUnlocked
      <3>3. Keys(state', {}, mine)
        BY <3>2, KeysKept DEF KeysNow
      <3> QED
        BY <1>1, <3>2, <3>3 DEF KeysNow
    <2> QED
      BY <2>1, <2>2
  <1>3. CASE NetworkDerived(c)
    <2> DEFINE s == state.session
               e == [s EXCEPT !.address = c.got]
    <2>1. c.at = "derive" /\ End(c) /\ state' = State(state.wallets, state.active, c.id, e)
      BY <1>3, StatesOfCalls DEF NetworkDerived
    <2>2. e.seed = s.seed /\ e.address = c.got
      <3> DEFINE x == s.seed
                 y == s.address
      <3>1. s = [seed |-> x, address |-> y]
        BY DEF StateTyped
      <3> HIDE DEF s, x, y
      <3>2. e = [seed |-> x, address |-> c.got]
        BY <3>1
      <3> QED
        BY <3>2 DEF x
    <2>3. c.got = NetAddress(state.session.seed, c.id)
      BY <2>1 DEF KeysNow, Keys
    <2> HIDE DEF e
    <2>4. state'.session = e /\ state'.active = state.active /\ state'.network = c.id
      BY <2>1 DEF State
    <2>5. calls' = {}
      BY <2>1, AloneEnds
    <2>6. Keys(state', {}, mine)
      BY <2>2, <2>3, <2>4 DEF KeysNow, Keys
    <2> QED
      BY <1>1, <2>5, <2>6 DEF KeysNow
  <1> QED
    BY <1>2, <1>3

(* unlock takes the envelope of the wallet that is active.                 *)
LEMMA KeysBegin ==
  ASSUME VaultInv, KeysNow, calls = {},
         \/ \E op \in {"create", "restore"} : \E p, w : Make(op, p, w)
         \/ \E id : DeleteWalletById(id) \/ StartRename(id) \/ StartSwitch(id)
         \/ \E w : StartUnlock(w)
         \/ \E net \in Networks : StartNetwork(net)
  PROVE  KeysNow'
  <1> USE DEF VaultInv
  <1>1. ASSUME NEW e, e.at \notin {"rewards", "decrypt", "derive"},
               calls' = {e} \/ calls' = {}, state' = state,
               \A id \in DOMAIN mine' : id \in DOMAIN mine /\ mine'[id] = mine[id]
        PROVE  KeysNow'
    <2>1. Keys(state, calls', mine')
      BY <1>1, KeysKept DEF KeysNow
    <2> QED
      BY <1>1, <2>1 DEF KeysNow
  <1>2. ASSUME NEW op \in {"create", "restore"}, NEW p, NEW w, Make(op, p, w)
        PROVE  KeysNow'
    <2> DEFINE e == Call(op, "read", NewId, p, w, <<>>)
    <2>1. (calls' = {e} \/ calls' = {}) /\ UNCHANGED <<state, mine>>
      BY <1>2 DEF Make, Begin
    <2>2. e.at = "read"
      BY CallFields
    <2> HIDE DEF e
    <2> QED
      BY <1>1, <2>1, <2>2
  <1>3. ASSUME NEW id, DeleteWalletById(id)
        PROVE  KeysNow'
    <2> DEFINE g == Without(state.wallets, id)
               c == Call("delete", "deleted", id, None, None, <<>>)
               e == MovedTo(c, "deleted", id, g)
    <2>1. calls' = {e} /\ state' = state /\ mine' = [k \in DOMAIN mine \ {id} |-> mine[k]]
      BY <1>3 DEF DeleteWalletById, Delete, MovedTo
    <2>2. e = Call(c.op, "deleted", id, c.phrase, c.password, g)
      <3>1. CallTyped(c)
        BY CallIsTyped
      <3> HIDE DEF g, c
      <3> QED
        BY <3>1, CallSteps
    <2>3. e.at = "deleted"
      BY <2>2, CallFields
    <2> HIDE DEF e
    <2> QED
      BY <1>1, <2>1, <2>3
  <1>4. ASSUME NEW id, StartRename(id)
        PROVE  KeysNow'
    <2> DEFINE e == Call("rename", "renamed", id, None, None, state.wallets)
    <2>1. calls' = {e} /\ e.at = "renamed" /\ UNCHANGED <<state, mine>>
      BY <1>4, CallFields DEF StartRename, Begin, past
    <2> HIDE DEF e
    <2> QED
      BY <1>1, <2>1
  <1>5. ASSUME NEW id, StartSwitch(id)
        PROVE  KeysNow'
    <2> DEFINE e == Call("switch", "switched", id, None, None, <<>>)
    <2>1. calls' = {e} /\ e.at = "switched" /\ UNCHANGED <<state, mine>>
      BY <1>5, CallFields DEF StartSwitch, Begin, past
    <2> HIDE DEF e
    <2> QED
      BY <1>1, <2>1
  <1>6. ASSUME NEW net, StartNetwork(net)
        PROVE  KeysNow'
    <2> DEFINE e == Call("network", "stored", net, None, None, <<>>)
    <2>1. calls' = {e} /\ e.at = "stored" /\ UNCHANGED <<state, mine>>
      BY <1>6, CallFields DEF StartNetwork, Begin, past
    <2> HIDE DEF e
    <2> QED
      BY <1>1, <2>1
  <1>7. ASSUME NEW w, StartUnlock(w)
        PROVE  KeysNow'
    <2> DEFINE p == DecryptWallet(EnvOf(state.wallets, state.active), w)
               e == Call("unlock", "decrypt", state.active, p, w, <<>>)
    <2>1. calls' = {e} /\ state.active \in Ids(state.wallets) /\ UNCHANGED <<state, mine>>
      BY <1>7 DEF StartUnlock, Begin, past
    <2>2. e.at = "decrypt" /\ e.id = state.active /\ e.phrase = p /\ e.password = w
      BY CallFields
    <2>3. e.phrase = DecryptWallet(EnvOf(state.wallets, e.id), e.password)
      BY <2>2
    <2> HIDE DEF e, p
    <2>4. Keys(state, {e}, mine)
      BY <2>1, <2>2, <2>3 DEF KeysNow, Keys
    <2> QED
      BY <2>1, <2>4 DEF KeysNow
  <1> QED
    BY <1>2, <1>3, <1>4, <1>5, <1>6, <1>7

(* lock and a restart drop the keys.                                       *)
LEMMA KeysOther ==
  ASSUME VaultInv, KeysNow, overlaps = 0,
         \/ Lock /\ calls = {}
         \/ (\E d \in Hashes : Sign(d)) \/ Close \/ UNCHANGED vars
         \/ Crash \/ \E k \in DOMAIN list : Damage(k)
  PROVE  KeysNow'
  <1> USE DEF VaultInv
  <1>1. CASE (\E d \in Hashes : Sign(d)) \/ Close \/ UNCHANGED vars
    <2>1. UNCHANGED <<state, calls, mine>>
      BY <1>1 DEF Sign, Close, vars, history, past
    <2> QED
      BY <2>1 DEF KeysNow
  <1>2. CASE (Lock /\ calls = {}) \/ Crash \/ \E k \in DOMAIN list : Damage(k)
    <2>1. mine' = mine /\ calls' = {}
      BY <1>2 DEF Lock, Crash, Damage, past
    <2>2. state'.session = Locked
      <3>1. CASE Lock
        BY <3>1, StateOfLock DEF State
      <3>2. CASE Crash \/ \E k \in DOMAIN list : Damage(k)
        BY <3>2 DEF Crash, Damage, Loaded
      <3> QED
        BY <1>2, <3>1, <3>2
    <2>3. state'.session.seed = None
      BY <2>2 DEF Locked
    <2>4. Keys(state', {}, mine)
      BY <2>3, KeysKept DEF KeysNow
    <2> QED
      BY <2>1, <2>4 DEF KeysNow
  <1> QED
    BY <1>1, <1>2

(* Every step of a user who waits keeps it.                                *)
LEMMA KeysStep ==
  ASSUME VaultInv, SyncInv, KeysInv, [Next]_vars
  PROVE  KeysInv'
  <1> SUFFICES ASSUME overlaps' = 0 PROVE KeysNow'
    BY DEF KeysInv
  <1>1. overlaps = 0 /\ SyncNow /\ KeysNow
    BY OverlapsGrow DEF SyncInv, KeysInv
  <1>2. MayBegin => calls = {}
    BY AloneBegins DEF VaultInv
  <1>3. CASE StartCreate \/ \E p \in Typed \cup {shown}, w \in Passwords : p # None /\ StartRestore(p, w)
    <2>1. \E op \in {"create", "restore"} : \E p, w : Make(op, p, w)
      BY <1>3 DEF StartCreate, StartRestore
    <2>2. calls = {}
      BY <1>2, <2>1 DEF Make, Begin
    <2> QED
      BY <1>1, <2>1, <2>2, KeysBegin
  <1>4. ASSUME NEW c \in calls,
               \/ ReadList(c) \/ WriteList(c) \/ WriteActive(c) \/ Reload(c) \/ Publish(c)
               \/ Restored(c) \/ Discard(c) \/ NextActive(c) \/ StaysActive(c) \/ Deleted(c)
               \/ Renamed(c) \/ Switched(c) \/ Unlocked(c)
               \/ NetworkStored(c) \/ NetworkDerived(c)
        PROVE  KeysNow'
    BY <1>1, <1>4, KeysCalls, KeysPublish, KeysRestored, KeysUnlocked, KeysNetwork
  <1>5. CASE \E id \in Ids(state.wallets) \cup {state.active} :
               DeleteWalletById(id) \/ StartRename(id) \/ StartSwitch(id)
    <2>1. calls = {}
      BY <1>2, <1>5 DEF DeleteWalletById, StartRename, StartSwitch, Begin
    <2> QED
      BY <1>1, <1>5, <2>1, KeysBegin
  <1>6. CASE (\E w \in Passwords : StartUnlock(w)) \/ (\E net \in Networks : StartNetwork(net))
    <2>1. calls = {}
      BY <1>2, <1>6 DEF StartUnlock, StartNetwork, Begin
    <2> QED
      BY <1>1, <1>6, <2>1, KeysBegin
  <1>7. CASE \/ Lock \/ (\E d \in Hashes : Sign(d)) \/ Close \/ UNCHANGED vars
             \/ Crash \/ \E k \in DOMAIN list : Damage(k)
    <2>1. Lock => calls = {}
      BY <1>2 DEF Lock
    <2> QED
      BY <1>1, <1>7, <2>1, KeysOther
  <1> QED
    BY <1>3, <1>4, <1>5, <1>6, <1>7 DEF Next

(* The service starts locked; the first wallets were shown their own       *)
(* addresses.                                                              *)
LEMMA KeysInit ==
  ASSUME Init
  PROVE  KeysInv
  <1>1. calls = {} /\ state.session = Locked /\ DOMAIN mine = Ids(Old)
    BY DEF Init, Loaded
  <1>2. ASSUME NEW id \in Ids(Old)
        PROVE  mine[id].address \in {DefaultAddress(SeedOf(mine[id]), TRUE),
                                     DefaultAddress(SeedOf(mine[id]), FALSE)}
    <2> DEFINE old == EnvOf(Old, id).sealed
               x == MnemonicToSeed(old.msg, PqTransform(old.password))
    <2>1. mine[id] = Seen(old.password, old.msg, Opened(old.msg, old.password).test)
      BY DEF Init
    <2>2. PICK k \in DOMAIN Old : Old[k].id = id
      BY DEF Ids
    <2>3. ValidMnemonic(old.msg)
      BY <2>2, OldFits DEF Sealed
    <2>4. Opened(old.msg, old.password).test = DefaultAddress(x, FALSE)
      <3> HIDE DEF old
      <3> QED
        BY <2>3 DEF Opened, RestoreWallet
    <2> HIDE DEF old
    <2>5. SeedOf(mine[id]) = x /\ mine[id].address = DefaultAddress(x, FALSE)
      BY <2>1, <2>4 DEF Seen, SeedOf
    <2> QED
      BY <2>5
  <1>3. state.session.seed = None
    BY <1>1 DEF Locked
  <1>4. Keys(state, {}, mine)
    BY <1>1, <1>2, <1>3 DEF Keys
  <1> QED
    BY <1>1, <1>4 DEF KeysInv, KeysNow

(* The keys in the session of a user who waits are those of the wallet that*)
(* is active, as its user knows it, made from mnemonic and password.       *)
THEOREM KeysInvariant == Spec => []KeysInv
  <1>1. VaultInv /\ SyncInv /\ KeysInv /\ [Next]_vars => KeysInv'
    BY KeysStep
  <1> QED
    BY KeysInit, VaultInvariant, SyncInvariant, <1>1, PTL DEF Spec

(* An address decodes to the keys it was made of.                          *)
LEMMA DecodedAddress ==
  ASSUME NEW x, NEW b \in BOOLEAN
  PROVE  LET a == Decode(DefaultAddress(x, b))
         IN  /\ a.view = DeriveBip44(x, 0, 0, 0).view /\ a.spend = DeriveBip44(x, 0, 0, 0).spend
             /\ a.version = IF b THEN 1 ELSE 2
  <1> DEFINE k == DeriveBip44(x, 0, 0, 0)
             body == [version |-> IF b THEN 1 ELSE 2, view |-> k.view, spend |-> k.spend]
  <1>1. DefaultAddress(x, b) = [body |-> body, checksum |-> body]
    BY DEF DefaultAddress, DeriveKey, Encode
  <1>2. body.version \in {1, 2} /\ body.version = IF b THEN 1 ELSE 2
    OBVIOUS
  <1>3. body.view = k.view /\ body.spend = k.spend
    OBVIOUS
  <1> HIDE DEF k, body
  <1>4. Decode(DefaultAddress(x, b)) = body
    BY <1>1, <1>2 DEF Decode
  <1> QED
    BY <1>2, <1>3, <1>4 DEF k

(* UnlockReopens: the address shown after unlocking, and after a change of *)
(* network, holds the keys of the address the user was shown when the      *)
(* wallet was made.                                                        *)
THEOREM UnlockingReopens == Spec => []UnlockReopens
  <1>1. ASSUME KeysInv, overlaps = 0, IsUnlocked, state.active \in DOMAIN mine
        PROVE  LET now == Decode(state.session.address)
                   before == Decode(mine[state.active].address)
               IN  /\ now.view = before.view /\ now.spend = before.spend
                   /\ now.spend = DeriveBip44(state.session.seed, 0, 0, 0).spend
                   /\ now.version = 1 <=> state.network = "mainnet"
    <2> DEFINE x == state.session.seed
               b == state.network = "mainnet"
               a == state.session.address
               o == mine[state.active].address
    <2>1. x = SeedOf(mine[state.active]) /\ a = DefaultAddress(x, b)
      BY <1>1 DEF KeysInv, KeysNow, Keys, IsUnlocked, NetAddress
    <2>2. PICK f \in BOOLEAN : o = DefaultAddress(x, f)
      <3>1. o \in {DefaultAddress(SeedOf(mine[state.active]), TRUE),
                   DefaultAddress(SeedOf(mine[state.active]), FALSE)}
        BY <1>1 DEF KeysInv, KeysNow, Keys
      <3> QED
        BY <2>1, <3>1
    <2>3. b \in BOOLEAN
      OBVIOUS
    <2> HIDE DEF x, b, a, o
    <2>4. /\ Decode(a).view = DeriveBip44(x, 0, 0, 0).view
          /\ Decode(a).spend = DeriveBip44(x, 0, 0, 0).spend
          /\ Decode(a).version = IF b THEN 1 ELSE 2
      BY <2>1, <2>3, DecodedAddress
    <2>5. /\ Decode(o).view = DeriveBip44(x, 0, 0, 0).view
          /\ Decode(o).spend = DeriveBip44(x, 0, 0, 0).spend
      BY <2>2, DecodedAddress
    <2>6. Decode(a).version = 1 <=> b
      BY <2>4
    <2> QED
      BY <2>4, <2>5, <2>6 DEF x, b, a, o
  <1>2. KeysInv => UnlockReopens
    BY <1>1 DEF UnlockReopens
  <1> QED
    BY <1>2, KeysInvariant, PTL
-----------------------------------------------------------------------------
(* Signatures.  Checksum folds over the digits as TransactionBuilder's     *)
(* Total does over outputs: by a recursive function on sets of positions.  *)
Some(T) == CHOOSE k \in T : TRUE
IsChecks(f, q, S) ==
  f = [T \in SUBSET S |-> IF T = {} THEN 0 ELSE f[T \ {Some(T)}] + CHAIN_MAX - q[Some(T)]]
Checks(q, S) == CHOOSE f : IsChecks(f, q, S)

(* Checksum is that function's value for all positions.                    *)
LEMMA ChecksumFolds ==
  ASSUME NEW q
  PROVE  Checksum(q) = Checks(q, DOMAIN q)[DOMAIN q]
  BY Zenon DEF Checksum, FoldFunction, FoldFunctionOnSet, MapThenFoldSet, Checks, IsChecks, Some

(* The function exists for every finite set.                               *)
LEMMA ChecksExist ==
  ASSUME NEW q, NEW S, IsFiniteSet(S)
  PROVE  IsChecks(Checks(q, S), q, S)
  <1> DEFINE D(n) == {U \in SUBSET S : Cardinality(U) <= n}
             Eq(f, n) == f = [T \in D(n) |-> IF T = {} THEN 0
                                 ELSE f[T \ {Some(T)}] + CHAIN_MAX - q[Some(T)]]
             N == {n \in Nat : \E f : Eq(f, n)}
  <1>1. \A U \in SUBSET S : IsFiniteSet(U) /\ Cardinality(U) \in Nat
    BY FS_Subset, FS_CardinalityType
  <1>2. \A U \in SUBSET S : U # {} =>
          /\ Some(U) \in U /\ U \ {Some(U)} \in SUBSET S
          /\ Cardinality(U \ {Some(U)}) = Cardinality(U) - 1
    <2> TAKE U \in SUBSET S
    <2> HAVE U # {}
    <2>1. Some(U) \in U
      BY DEF Some
    <2>2. IsFiniteSet(U)
      BY <1>1
    <2>3. Cardinality(U \ {Some(U)}) = Cardinality(U) - 1
      BY <2>1, <2>2, FS_RemoveElement
    <2> QED
      BY <2>1, <2>3
  <1>3. 0 \in N
    <2>1. \A T \in D(0) : T = {}
      <3>1. \A T \in D(0) : IsFiniteSet(T) /\ Cardinality(T) = 0
        BY <1>1
      <3> QED
        BY <3>1, FS_EmptySet
    <2>2. Eq([T \in D(0) |-> 0], 0)
      BY <2>1
    <2> QED
      BY <2>2
  <1>4. ASSUME NEW n \in Nat, n \in N PROVE n + 1 \in N
    <2>1. PICK f : Eq(f, n)
      BY <1>4
    <2> DEFINE g == [T \in D(n + 1) |-> IF T = {} THEN 0
                       ELSE f[T \ {Some(T)}] + CHAIN_MAX - q[Some(T)]]
    <2>2. \A T \in D(n) : T \in D(n + 1)
      BY <1>1
    <2>3. \A T \in D(n) : f[T] = g[T]
      BY <2>1, <2>2
    <2>4. \A T \in D(n + 1) : T # {} => T \ {Some(T)} \in D(n)
      BY <1>1, <1>2
    <2>5. Eq(g, n + 1)
      BY <2>3, <2>4
    <2> HIDE DEF Eq, g
    <2>6. \E k : Eq(k, n + 1)
      BY <2>5
    <2> QED
      BY <2>6
  <1>5. Nat \subseteq N
    <2> HIDE DEF N
    <2> QED BY <1>3, <1>4, NumberInduction
  <1>6. Cardinality(S) \in N
    BY <1>1, <1>5
  <1>7. D(Cardinality(S)) = SUBSET S
    <2>1. \A U \in SUBSET S : Cardinality(U) <= Cardinality(S)
      BY FS_Subset
    <2> QED
      BY <2>1
  <1>8. \E f : IsChecks(f, q, S)
    BY <1>6, <1>7 DEF IsChecks
  <1> QED
    BY <1>8 DEF Checks

(* So the checksum of a hash is a number, and no digit leaves more than 15. *)
LEMMA ChecksumBounds ==
  ASSUME NEW q, q \in Seq(0..CHAIN_MAX)
  PROVE  Checksum(q) \in 0..(15 * Len(q))
  <1> DEFINE S == DOMAIN q
             f == Checks(q, S)
  <1>1. S = 1..Len(q) /\ Len(q) \in Nat /\ \A k \in S : q[k] \in 0..15
    BY DEF CHAIN_MAX, W
  <1>2. IsFiniteSet(S) /\ Cardinality(S) = Len(q)
    <2> HIDE DEF S
    <2>1. ASSUME NEW n \in Nat PROVE IsFiniteSet(1..n) /\ Cardinality(1..n) = n
      <3>1. 1 \in Int /\ n \in Int
        OBVIOUS
      <3>2. IsFiniteSet(1..n) /\ Cardinality(1..n) = IF 1 > n THEN 0 ELSE n - 1 + 1
        BY <3>1, FS_Interval, SMTT(30)
      <3>3. (IF 1 > n THEN 0 ELSE n - 1 + 1) = n
        OBVIOUS
      <3> QED
        BY <3>2, <3>3
    <2> QED
      BY <1>1, <2>1
  <1>3. IsChecks(f, q, S)
    BY <1>2, ChecksExist
  <1>4. \A U \in SUBSET S : f[U] = IF U = {} THEN 0 ELSE f[U \ {Some(U)}] + CHAIN_MAX - q[Some(U)]
    <2> HIDE DEF f, S
    <2> QED
      BY <1>3 DEF IsChecks
  <1>5. Checksum(q) = f[S]
    BY ChecksumFolds
  <1> DEFINE N == {n \in Nat : \A U \in SUBSET S : Cardinality(U) = n => f[U] \in 0..(15 * n)}
  <1> HIDE DEF f, S
  <1>6. \A U \in SUBSET S : IsFiniteSet(U) /\ Cardinality(U) \in Nat
    BY <1>2, FS_Subset, FS_CardinalityType
  <1>7. 0 \in N
    <2>1. \A U \in SUBSET S : Cardinality(U) = 0 => U = {}
      BY <1>6, FS_EmptySet
    <2>2. \A U \in SUBSET S : U = {} => f[U] = 0
      BY <1>4
    <2>3. \A U \in SUBSET S : Cardinality(U) = 0 => f[U] = 0
      BY <2>1, <2>2
    <2> QED
      BY <2>3
  <1>8. ASSUME NEW n \in Nat, n \in N PROVE n + 1 \in N
    <2> SUFFICES ASSUME NEW U \in SUBSET S, Cardinality(U) = n + 1
                 PROVE  f[U] \in 0..(15 * (n + 1))
      OBVIOUS
    <2>1. U # {}
      BY FS_EmptySet
    <2>2. Some(U) \in U /\ IsFiniteSet(U)
      BY <1>6, <2>1 DEF Some
    <2>3. Cardinality(U \ {Some(U)}) = Cardinality(U) - 1
      BY <2>2, FS_RemoveElement
    <2>4. U \ {Some(U)} \in SUBSET S /\ Cardinality(U \ {Some(U)}) = n
      BY <2>3
    <2>5. f[U \ {Some(U)}] \in 0..(15 * n)
      BY <1>8, <2>4
    <2>6. q[Some(U)] \in 0..15
      BY <1>1, <2>2
    <2>7. f[U] = f[U \ {Some(U)}] + CHAIN_MAX - q[Some(U)]
      BY <1>4, <2>1
    <2>8. CHAIN_MAX = 15
      BY DEF CHAIN_MAX, W
    <2>9. \A x \in 0..(15 * n), y \in 0..15 : x + 15 - y \in 0..(15 * (n + 1))
      OBVIOUS
    <2> QED
      BY <2>5, <2>6, <2>7, <2>8, <2>9
  <1>9. Nat \subseteq N
    <2> HIDE DEF N
    <2> QED BY <1>7, <1>8, NumberInduction
  <1>10. f[S] \in 0..(15 * Len(q))
    BY <1>1, <1>2, <1>9
  <1> QED
    BY <1>5, <1>10

(* Joined sequences add their lengths.                                     *)
LEMMA ListsJoin ==
  ASSUME NEW T, NEW a \in Seq(T), NEW b \in Seq(T)
  PROVE  Len(a \o b) = Len(a) + Len(b)
  OBVIOUS

(* What stands where in them.                                              *)
LEMMA ListsJoined ==
  ASSUME NEW a \in Seq(Int), NEW b \in Seq(Int)
  PROVE  /\ \A i \in 1..Len(a) : (a \o b)[i] = a[i]
         /\ \A i \in 1..Len(b) : (a \o b)[Len(a) + i] = b[i]
  OBVIOUS

(* The three digits appended to a hash of at most 64 digits are 0, 0 and   *)
(* the checksum from its bit 8 up.                                         *)
LEMMA AppendedDigits ==
  ASSUME NEW c \in 0..960
  PROVE  /\ (c * 16) \div 65536 = 0
         /\ ((c * 16) \div 256) % 256 \in 0..255
         /\ (((c * 16) \div 256) % 256) \div 16 = c \div 256
  <1>1. (c * 16) \div 65536 = 0
    OBVIOUS
  <1>2. (c * 16) \div 256 = c \div 16 /\ c \div 16 \in 0..60
    OBVIOUS
  <1>3. ((c * 16) \div 256) % 256 = c \div 16
    BY <1>2
  <1>4. (c \div 16) \div 16 = c \div 256
    OBVIOUS
  <1> QED
    BY <1>1, <1>2, <1>3, <1>4

(* The digits signed are those of the hash, two zeros and what is left of  *)
(* the checksum.                                                           *)
LEMMA BaseWShape ==
  ASSUME NEW q, q \in Seq(0..CHAIN_MAX), Len(q) <= 64
  PROVE  /\ Len(q) \in Nat
         /\ DOMAIN BaseW(q) = 1..(Len(q) + 3) /\ Len(BaseW(q)) = Len(q) + 3
         /\ \A i \in 1..(Len(q) + 3) : BaseW(q)[i] \in Int
         /\ \A i \in 1..Len(q) : BaseW(q)[i] = q[i]
         /\ BaseW(q)[Len(q) + 3] = Checksum(q) \div 256
  <1> DEFINE z == Checksum(q) \div 256
             t == <<0, 0, z>>
             r == q \o t
  <1>1. Len(q) \in Nat /\ q \in Seq(Int)
    BY DEF CHAIN_MAX, W
  <1>2. Checksum(q) \in 0..960
    <2>1. \A k \in Nat : k <= 64 => \A x \in 0..(15 * k) : x \in 0..960
      OBVIOUS
    <2>2. Checksum(q) \in 0..(15 * Len(q))
      BY ChecksumBounds
    <2> QED
      BY <1>1, <2>1, <2>2
  <1>3. BaseW(q) = q \o <<0, 0, z>>
    <2> DEFINE c == Checksum(q)
    <2>0. c \in 0..960
      BY <1>2
    <2> HIDE DEF c
    <2>1. /\ (c * 16) \div 65536 = 0
          /\ ((c * 16) \div 256) % 256 \in 0..255
          /\ (((c * 16) \div 256) % 256) \div 16 = c \div 256
      BY <2>0, AppendedDigits
    <2>2. ((c * 16) \div 65536) % 256 = 0
      BY <2>1
    <2>3. 0 \div 16 = 0 /\ 0 % 16 = 0
      OBVIOUS
    <2>4. BaseW(q) = q \o <<(((c * 16) \div 65536) % 256) \div 16,
                            (((c * 16) \div 65536) % 256) % 16,
                            (((c * 16) \div 256) % 256) \div 16>>
      BY DEF BaseW, W, c
    <2> QED
      BY <2>1, <2>2, <2>3, <2>4 DEF c
  <1>4. z \in Int
    <2>1. \A c \in 0..960 : c \div 256 \in Int
      OBVIOUS
    <2> QED
      BY <1>2, <2>1
  <1> HIDE DEF z
  <1>5. t \in Seq(Int) /\ Len(t) = 3 /\ t[3] = z
    BY <1>4
  <1>6. BaseW(q) = r
    BY <1>3
  <1> HIDE DEF t
  <1>7. r \in Seq(Int) /\ Len(r) = Len(q) + 3
    <2>1. r \in Seq(Int)
      BY <1>1, <1>5
    <2>2. Len(r) = Len(q) + Len(t)
      BY <1>1, <1>5, ListsJoin
    <2> QED
      BY <1>5, <2>1, <2>2
  <1>8. (\A i \in 1..Len(q) : r[i] = q[i]) /\ r[Len(q) + 3] = t[3]
    <2>1. \A i \in 1..Len(q) : (q \o t)[i] = q[i]
      BY <1>1, <1>5, ListsJoined
    <2>2. \A i \in 1..Len(t) : (q \o t)[Len(q) + i] = t[i]
      BY <1>1, <1>5, ListsJoined
    <2>3. 3 \in 1..Len(t)
      BY <1>5
    <2>4. (q \o t)[Len(q) + 3] = t[3]
      BY <2>2, <2>3
    <2> QED
      BY <2>1, <2>4
  <1> HIDE DEF r
  <1>9. DOMAIN r = 1..(Len(q) + 3) /\ \A i \in 1..(Len(q) + 3) : r[i] \in Int
    BY <1>1, <1>7
  <1> QED
    BY <1>1, <1>5, <1>6, <1>7, <1>8, <1>9 DEF z

(* A chain continued from where it was left ends; from elsewhere it does   *)
(* not.                                                                    *)
LEMMA ChainEnds ==
  ASSUME NEW key, NEW i, NEW m \in Int, NEW n \in Int
  PROVE  Chain(Chain(Secret(key, i), 0, m), n, CHAIN_MAX - n)
           = Chain(Secret(key, i), 0, CHAIN_MAX) <=> m = n
  <1>1. \A k \in Int : Chain(Secret(key, i), 0, k) = [key |-> key, chain |-> i, at |-> k]
    BY DEF Chain, Secret
  <1>2. CHAIN_MAX = 15
    BY DEF CHAIN_MAX, W
  <1>3. Chain([key |-> key, chain |-> i, at |-> m], n, CHAIN_MAX - n)
          = [key |-> key, chain |-> i, at |-> IF m = n THEN n + (CHAIN_MAX - n) ELSE -1]
    BY DEF Chain
  <1>4. [key |-> key, chain |-> i, at |-> IF m = n THEN n + (CHAIN_MAX - n) ELSE -1]
          = [key |-> key, chain |-> i, at |-> CHAIN_MAX] <=> m = n
    <2>1. CASE m = n
      BY <1>2, <2>1
    <2>2. CASE m # n
      <3>1. [key |-> key, chain |-> i, at |-> -1].at # [key |-> key, chain |-> i, at |-> CHAIN_MAX].at
        BY <1>2
      <3> QED
        BY <2>2, <3>1
    <2> QED
      BY <2>1, <2>2
  <1> QED
    BY <1>1, <1>2, <1>3, <1>4

(* Values on the n chains of a key, each at a place of its own.            *)
OnChains(key, n, at) == [i \in 1..n |-> Chain(Secret(key, i), 0, at[i])]

(* What verify asks of values that lie on the chains.                      *)
LEMMA WotsOnChains ==
  ASSUME NEW key, NEW n \in Nat, NEW at, \A i \in 1..n : at[i] \in Int,
         NEW d, d \in Seq(0..CHAIN_MAX), Len(d) <= 64
  PROVE  WotsVerify(OnChains(key, n, at), d, PublicKey(key, n)) <=>
           n = Len(d) + 3 /\ \A i \in 1..n : at[i] = BaseW(d)[i]
  <1> DEFINE b == BaseW(d)
             sig == OnChains(key, n, at)
  <1>0. sig = [i \in 1..n |-> Chain(Secret(key, i), 0, at[i])]
    BY DEF OnChains
  <1>1. Len(d) \in Nat /\ Len(b) = Len(d) + 3 /\ \A i \in 1..(Len(d) + 3) : b[i] \in Int
    BY BaseWShape
  <1>2. PublicKey(key, n) = [i \in 1..n |-> Chain(Secret(key, i), 0, CHAIN_MAX)]
    BY DEF PublicKey
  <1>3. WotsVerify(sig, d, PublicKey(key, n)) <=>
          /\ Len(sig) = Len(b)
          /\ [i \in DOMAIN sig |-> Chain(sig[i], b[i], CHAIN_MAX - b[i])] = PublicKey(key, n)
    BY DEF WotsVerify
  <1>4. DOMAIN sig = 1..n /\ Len(sig) = n
    <2> HIDE DEF sig
    <2>1. sig \in Seq({sig[i] : i \in 1..n})
      BY <1>0
    <2> QED
      BY <1>0, <2>1
  <1> HIDE DEF b, sig
  <1>5. WotsVerify(sig, d, PublicKey(key, n)) <=>
          /\ n = Len(d) + 3
          /\ \A i \in 1..n : Chain(Chain(Secret(key, i), 0, at[i]), b[i], CHAIN_MAX - b[i])
                               = Chain(Secret(key, i), 0, CHAIN_MAX)
    BY <1>0, <1>1, <1>2, <1>3, <1>4
  <1>6. ASSUME n = Len(d) + 3
        PROVE  \A i \in 1..n : Chain(Chain(Secret(key, i), 0, at[i]), b[i], CHAIN_MAX - b[i])
                                 = Chain(Secret(key, i), 0, CHAIN_MAX) <=> at[i] = b[i]
    <2> TAKE i \in 1..n
    <2>1. at[i] \in Int /\ b[i] \in Int
      BY <1>1, <1>6
    <2> QED
      BY <2>1, ChainEnds
  <1> QED
    BY <1>5, <1>6 DEF b, sig

(* sign leaves every chain at the digit it signs.                          *)
LEMMA WotsSigned ==
  ASSUME NEW key, NEW q, q \in Seq(0..CHAIN_MAX), Len(q) <= 64
  PROVE  WotsSign(key, q) = OnChains(key, Len(q) + 3, BaseW(q))
  <1>1. DOMAIN BaseW(q) = 1..(Len(q) + 3)
    BY BaseWShape
  <1> QED
    BY <1>1 DEF WotsSign, OnChains

(* What a chain value is, and where it is once carried on.                 *)
LEMMA ChainValue ==
  ASSUME NEW key, NEW i, NEW m \in Int, NEW k \in Int
  PROVE  /\ Chain(Secret(key, i), 0, m).at = m
         /\ Chain(Chain(Secret(key, i), 0, m), m, k - m) = Chain(Secret(key, i), 0, k)
  <1>1. \A n \in Int : Chain(Secret(key, i), 0, n) = [key |-> key, chain |-> i, at |-> n]
    BY DEF Chain, Secret
  <1>2. Chain([key |-> key, chain |-> i, at |-> m], m, k - m)
          = [key |-> key, chain |-> i, at |-> m + (k - m)]
    BY DEF Chain
  <1>3. m + (k - m) = k
    OBVIOUS
  <1> QED
    BY <1>1, <1>2, <1>3

(* A signature verifies for the digits it was made of and no others.       *)
LEMMA WotsBinds ==
  ASSUME NEW key, NEW q, q \in Seq(0..CHAIN_MAX), Len(q) <= 64,
         NEW d, d \in Seq(0..CHAIN_MAX), Len(d) <= 64
  PROVE  WotsVerify(WotsSign(key, q), d, PublicKey(key, Len(q) + 3)) <=> d = q
  <1> DEFINE n == Len(q) + 3
             a == BaseW(q)
             b == BaseW(d)
  <1>1. /\ Len(q) \in Nat /\ DOMAIN a = 1..n /\ \A i \in 1..n : a[i] \in Int
        /\ \A i \in 1..Len(q) : a[i] = q[i]
    BY BaseWShape
  <1>2. Len(d) \in Nat /\ \A i \in 1..Len(d) : b[i] = d[i]
    BY BaseWShape
  <1>3. WotsSign(key, q) = OnChains(key, n, a)
    BY WotsSigned
  <1>4. q = d => a = b
    OBVIOUS
  <1>5. n \in Nat
    BY <1>1
  <1> HIDE DEF a, b
  <1>6. WotsVerify(WotsSign(key, q), d, PublicKey(key, n)) <=>
          n = Len(d) + 3 /\ \A i \in 1..n : a[i] = b[i]
    <2>1. \A i \in 1..n : a[i] \in Int
      BY <1>1
    <2> QED
      BY <1>3, <1>5, <2>1, WotsOnChains DEF b
  <1>7. ASSUME n = Len(d) + 3, \A i \in 1..n : a[i] = b[i]
        PROVE  d = q
    <2>1. Len(d) = Len(q) /\ \A i \in 1..Len(q) : i \in 1..n
      BY <1>1, <1>2, <1>7
    <2>2. \A i \in 1..Len(q) : d[i] = q[i]
      BY <1>1, <1>2, <1>7, <2>1
    <2> QED
      BY <2>1, <2>2
  <1> QED
    BY <1>4, <1>6, <1>7

(* Carried on to the digits of another hash, the values of a signature     *)
(* verify for it only if no digit of it is smaller, nor what the appended  *)
(* digits hold of its checksum.                                            *)
LEMMA CarriedBinds ==
  ASSUME NEW key, NEW q, q \in Seq(0..CHAIN_MAX), Len(q) <= 64,
         NEW d, d \in Seq(0..CHAIN_MAX), Len(d) <= 64,
         WotsVerify(CarriedOn(WotsSign(key, q), d), d, PublicKey(key, Len(q) + 3))
  PROVE  /\ Len(d) = Len(q) /\ \A i \in DOMAIN d : q[i] <= d[i]
         /\ Checksum(q) \div 256 <= Checksum(d) \div 256
  <1> DEFINE n == Len(q) + 3
             a == BaseW(q)
             b == BaseW(d)
             at == [i \in 1..n |-> IF i \in DOMAIN b /\ a[i] <= b[i] THEN b[i] ELSE a[i]]
             sig == WotsSign(key, q)
  <1>1. /\ Len(q) \in Nat /\ DOMAIN a = 1..n /\ \A i \in 1..n : a[i] \in Int
        /\ \A i \in 1..Len(q) : a[i] = q[i]
        /\ a[n] = Checksum(q) \div 256
    BY BaseWShape
  <1>2. /\ Len(d) \in Nat /\ DOMAIN b = 1..(Len(d) + 3)
        /\ \A i \in 1..(Len(d) + 3) : b[i] \in Int
        /\ \A i \in 1..Len(d) : b[i] = d[i]
        /\ b[Len(d) + 3] = Checksum(d) \div 256
    BY BaseWShape
  <1>3. sig = [i \in 1..n |-> Chain(Secret(key, i), 0, a[i])]
    BY WotsSigned DEF OnChains
  <1>4. n \in Nat
    BY <1>1
  <1> HIDE DEF a, b, sig
  <1>5. \A i \in 1..n : at[i] \in Int
    BY <1>1, <1>2
  <1>6. CarriedOn(sig, d) = OnChains(key, n, at)
    <2>1. CarriedOn(sig, d) =
            [i \in DOMAIN sig |->
               IF i \in DOMAIN b /\ sig[i].at <= b[i]
               THEN Chain(sig[i], sig[i].at, b[i] - sig[i].at) ELSE sig[i]]
      BY DEF CarriedOn, b
    <2>2. \A i \in 1..n : sig[i] = Chain(Secret(key, i), 0, a[i]) /\ sig[i].at = a[i]
      BY <1>1, <1>3, ChainValue
    <2>3. ASSUME NEW i \in 1..n
          PROVE  (IF i \in DOMAIN b /\ sig[i].at <= b[i]
                  THEN Chain(sig[i], sig[i].at, b[i] - sig[i].at) ELSE sig[i])
                   = Chain(Secret(key, i), 0, at[i])
      <3>1. a[i] \in Int /\ sig[i] = Chain(Secret(key, i), 0, a[i]) /\ sig[i].at = a[i]
        BY <1>1, <2>2
      <3>2. CASE i \in DOMAIN b /\ a[i] <= b[i]
        <4>1. b[i] \in Int /\ at[i] = b[i]
          BY <1>2, <3>2
        <4> HIDE DEF at
        <4>2. Chain(sig[i], sig[i].at, b[i] - sig[i].at) = Chain(Secret(key, i), 0, b[i])
          BY <3>1, <4>1, ChainValue
        <4> QED
          BY <3>1, <3>2, <4>1, <4>2
      <3>3. CASE ~(i \in DOMAIN b /\ a[i] <= b[i])
        <4>1. at[i] = a[i]
          BY <3>3
        <4> HIDE DEF at
        <4> QED
          BY <3>1, <3>3, <4>1
      <3> QED
        BY <3>2, <3>3
    <2>4. DOMAIN sig = 1..n
      BY <1>3
    <2> HIDE DEF at
    <2> QED
      BY <2>1, <2>3, <2>4 DEF OnChains
  <1> HIDE DEF at
  <1>7. n = Len(d) + 3 /\ \A i \in 1..n : at[i] = b[i]
    <2>1. WotsVerify(CarriedOn(sig, d), d, PublicKey(key, n))
      BY DEF sig
    <2> HIDE DEF n
    <2> QED
      BY <1>4, <1>5, <1>6, <2>1, WotsOnChains DEF b
  <1>8. \A i \in 1..n : a[i] <= b[i]
    <2> SUFFICES ASSUME NEW i \in 1..n PROVE a[i] <= b[i]
      OBVIOUS
    <2>1. at[i] = b[i] /\ i \in DOMAIN b /\ a[i] \in Int /\ b[i] \in Int
      BY <1>1, <1>2, <1>7
    <2>2. at[i] = IF i \in DOMAIN b /\ a[i] <= b[i] THEN b[i] ELSE a[i]
      BY DEF at
    <2> QED
      BY <2>1, <2>2
  <1>9. Len(d) = Len(q) /\ n \in 1..n /\ \A i \in 1..Len(q) : i \in 1..n
    BY <1>1, <1>2, <1>7
  <1>10. DOMAIN d = 1..Len(d)
    OBVIOUS
  <1>11. a[n] <= b[n] /\ b[n] = Checksum(d) \div 256
    BY <1>2, <1>7, <1>8, <1>9
  <1> QED
    BY <1>1, <1>2, <1>8, <1>9, <1>10, <1>11

(* Carried on to its own digits, a signature is what it was.              *)
LEMMA CarriedSame ==
  ASSUME NEW key, NEW q, q \in Seq(0..CHAIN_MAX), Len(q) <= 64
  PROVE  CarriedOn(WotsSign(key, q), q) = WotsSign(key, q)
  <1> DEFINE n == Len(q) + 3
             a == BaseW(q)
             sig == WotsSign(key, q)
  <1>1. DOMAIN a = 1..n /\ \A i \in 1..n : a[i] \in Int
    BY BaseWShape
  <1>2. sig = [i \in 1..n |-> Chain(Secret(key, i), 0, a[i])]
    BY WotsSigned DEF OnChains
  <1>3. CarriedOn(sig, q) =
          [i \in DOMAIN sig |->
             IF i \in DOMAIN a /\ sig[i].at <= a[i]
             THEN Chain(sig[i], sig[i].at, a[i] - sig[i].at) ELSE sig[i]]
    BY DEF CarriedOn
  <1> HIDE DEF a, sig, n
  <1>4. \A i \in 1..n : sig[i] = Chain(Secret(key, i), 0, a[i])
    BY <1>2
  <1>5. \A i \in 1..n : sig[i].at = a[i]
    BY <1>1, <1>4, ChainValue
  <1>6. ASSUME NEW i \in 1..n PROVE Chain(sig[i], a[i], 0) = sig[i]
    <2>1. a[i] \in Int /\ a[i] - a[i] = 0
      BY <1>1
    <2>2. Chain(sig[i], a[i], a[i] - a[i]) = sig[i]
      BY <1>4, <2>1, ChainValue
    <2> QED
      BY <2>1, <2>2
  <1>7. \A i \in 1..n : a[i] - a[i] = 0
    BY <1>1
  <1>8. DOMAIN sig = 1..n
    BY <1>2
  <1>9. CarriedOn(sig, q) = [i \in DOMAIN sig |-> sig[i]]
    BY <1>3, <1>5, <1>6, <1>7, <1>8
  <1>10. sig = [i \in DOMAIN sig |-> sig[i]]
    BY <1>2
  <1> QED
    BY <1>9, <1>10 DEF sig

(* A message signature is one made of a hash.                              *)
SignedInv == signed # None => \E key : \E d \in Hashes : signed = HybridSign(key, d)

(* Only signMessage makes a signature.                                     *)
LEMMA SignedStep ==
  ASSUME SignedInv, [Next]_vars
  PROVE  SignedInv'
  <1>1. CASE signed' = signed
    BY <1>1 DEF SignedInv
  <1>2. CASE signed' = None
    BY <1>2 DEF SignedInv
  <1>3. CASE \E d \in Hashes : Sign(d)
    <2>1. PICK d \in Hashes : Sign(d)
      BY <1>3
    <2>2. signed' = HybridSign(DeriveKey(state.session.seed, 0, 0, 0, FALSE).signing, d)
      BY <2>1 DEF Sign
    <2> QED
      BY <2>2 DEF SignedInv
  <1>4. ASSUME NEW c \in calls,
               \/ ReadList(c) \/ WriteList(c) \/ WriteActive(c) \/ Reload(c) \/ Publish(c)
               \/ Restored(c) \/ Discard(c) \/ NextActive(c) \/ StaysActive(c) \/ Deleted(c)
               \/ Renamed(c) \/ Switched(c) \/ Unlocked(c)
               \/ NetworkStored(c) \/ NetworkDerived(c)
        PROVE  signed' = signed
    BY <1>4 DEF ReadList, WriteList, WriteActive, Reload, Publish, Restored, Discard,
         NextActive, StaysActive, Deleted, Renamed, Switched, Unlocked, NetworkStored,
         NetworkDerived
  <1>5. CASE StartCreate \/ \E p \in Typed \cup {shown}, w \in Passwords :
                              p # None /\ StartRestore(p, w)
    BY <1>1, <1>5 DEF StartCreate, StartRestore, Make
  <1>6. CASE \/ \E id \in Ids(state.wallets) \cup {state.active} :
                  DeleteWalletById(id) \/ StartRename(id) \/ StartSwitch(id)
             \/ \E w \in Passwords : StartUnlock(w)
             \/ \E net \in Networks : StartNetwork(net)
    BY <1>1, <1>6 DEF DeleteWalletById, StartRename, StartSwitch, StartUnlock, StartNetwork
  <1>7. CASE Lock \/ Close \/ Crash \/ (\E k \in DOMAIN list : Damage(k)) \/ UNCHANGED vars
    BY <1>1, <1>2, <1>7 DEF Lock, Close, Crash, Damage, vars
  <1> QED
    BY <1>1, <1>3, <1>4, <1>5, <1>6, <1>7 DEF Next

(* SignatureBinds: a signature verifies for its message alone, as made in  *)
(* both halves, and with chain values carried on as a whole; those values  *)
(* alone verify for no hash with a smaller digit or a smaller checksum     *)
(* from bit 8 up.  For all hashes of at most 64 digits.                    *)
THEOREM SignaturesBind == Spec => []SignatureBinds
  <1>1. Init => SignedInv
    BY DEF Init, SignedInv
  <1>2. ASSUME SignedInv, signed # None, NEW e \in Hashes
        PROVE  LET msg == signed.ed.msg
                   carried == CarriedOn(signed.wots, e)
               IN  /\ HybridVerify(signed, e) <=> e = msg
                   /\ WotsVerify(signed.wots, e, signed.wotsKey) <=> e = msg
                   /\ HybridVerify([signed EXCEPT !.wots = carried], e) <=> e = msg
                   /\ WotsVerify(carried, e, signed.wotsKey) =>
                        /\ Len(e) = Len(msg) /\ \A i \in DOMAIN e : msg[i] <= e[i]
                        /\ Checksum(msg) \div 256 <= Checksum(e) \div 256
    <2> DEFINE carried == CarriedOn(signed.wots, e)
    <2>1. PICK key : \E d \in Hashes : signed = HybridSign(key, d)
      BY <1>2 DEF SignedInv
    <2>2. PICK d \in Hashes : signed = HybridSign(key, d)
      BY <2>1
    <2>3. /\ signed.ed = [key |-> key, msg |-> d] /\ signed.edKey = key
          /\ signed.ed.msg = d
          /\ signed.wots = WotsSign(key, d) /\ signed.wotsKey = PublicKey(key, Len(d) + 3)
      BY <2>2 DEF HybridSign
    <2>4. /\ d \in Seq(0..CHAIN_MAX) /\ e \in Seq(0..CHAIN_MAX)
          /\ Len(d) <= 64 /\ Len(e) <= 64
      BY HashAssumption
    <2>5. WotsVerify(signed.wots, e, signed.wotsKey) <=> e = d
      BY <2>3, <2>4, WotsBinds
    <2>6. HybridVerify(signed, e) <=>
            [key |-> key, msg |-> d] = [key |-> key, msg |-> e]
            /\ WotsVerify(signed.wots, e, signed.wotsKey)
      BY <2>3 DEF HybridVerify
    <2>7. [key |-> key, msg |-> d] = [key |-> key, msg |-> e] <=> d = e
      OBVIOUS
    <2>8. WotsVerify(carried, e, signed.wotsKey) =>
            /\ Len(e) = Len(d) /\ \A i \in DOMAIN e : d[i] <= e[i]
            /\ Checksum(d) \div 256 <= Checksum(e) \div 256
      BY <2>3, <2>4, CarriedBinds
    <2>9. HybridVerify([signed EXCEPT !.wots = carried], e) <=> e = d
      <3> DEFINE s == [signed EXCEPT !.wots = carried]
      <3>1. s.ed = signed.ed /\ s.edKey = key /\ s.wotsKey = signed.wotsKey /\ s.wots = carried
        BY <2>2 DEF HybridSign
      <3>2. HybridVerify(s, e) <=> e = d /\ WotsVerify(carried, e, signed.wotsKey)
        BY <2>3, <2>7, <3>1 DEF HybridVerify
      <3>3. e = d => carried = signed.wots
        BY <2>3, <2>4, CarriedSame
      <3> QED
        BY <2>5, <3>2, <3>3
    <2> HIDE DEF carried
    <2>10. signed.ed.msg = d
      BY <2>3
    <2> QED
      BY <2>5, <2>6, <2>7, <2>8, <2>9, <2>10 DEF carried
  <1>3. SignedInv => SignatureBinds
    BY <1>2 DEF SignatureBinds
  <1>4. SignedInv /\ [Next]_vars => SignedInv'
    BY SignedStep
  <1> QED
    BY <1>1, <1>3, <1>4, PTL DEF Spec
=============================================================================
