---------------------- MODULE TransactionBuilderProofs ----------------------
(***************************************************************************)
(* Theorems about TransactionBuilder, for any requests, caches and nodes.  *)
(* Three parts of it are about data and need induction: what the values of *)
(* some outputs add up to, in which order select_inputs takes them, and    *)
(* what it therefore selects.                                              *)
(***************************************************************************)
EXTENDS TransactionBuilder, SetInduction

-----------------------------------------------------------------------------
(* Sums.  Total folds over a set by a recursive function on its subsets;   *)
(* it exists, and what it yields for a set does not depend on the set it   *)
(* was made for nor on the order in which elements are picked.             *)
Pick(T) == CHOOSE k \in T : TRUE
IsSums(f, o, S) ==
  f = [T \in SUBSET S |-> IF T = {} THEN 0 ELSE o[Pick(T)].value + f[T \ {Pick(T)}]]
Sums(o, S) == CHOOSE f : IsSums(f, o, S)
Valued(o, S) == \A k \in S : o[k].value \in Nat

(* Total is that function's value for the whole set.                       *)
LEMMA TotalIsSums ==
  ASSUME NEW o, NEW S
  PROVE  Total(o, S) = Sums(o, S)[S]
  BY Zenon DEF Total, MapThenSumSet, MapThenFoldSet, Sums, IsSums, Pick

(* The function exists for every finite set.                               *)
LEMMA SumsExist ==
  ASSUME NEW o, NEW S, IsFiniteSet(S)
  PROVE  IsSums(Sums(o, S), o, S)
  <1> DEFINE D(n) == {U \in SUBSET S : Cardinality(U) <= n}
             Eq(f, n) == f = [T \in D(n) |-> IF T = {} THEN 0
                                 ELSE o[Pick(T)].value + f[T \ {Pick(T)}]]
             N == {n \in Nat : \E f : Eq(f, n)}
  <1>1. \A U \in SUBSET S : IsFiniteSet(U) /\ Cardinality(U) \in Nat
    BY FS_Subset, FS_CardinalityType
  <1>2. \A U \in SUBSET S : U # {} =>
          /\ Pick(U) \in U /\ U \ {Pick(U)} \in SUBSET S
          /\ Cardinality(U \ {Pick(U)}) = Cardinality(U) - 1
    <2> TAKE U \in SUBSET S
    <2> HAVE U # {}
    <2>1. Pick(U) \in U
      BY DEF Pick
    <2>2. IsFiniteSet(U)
      BY <1>1
    <2>3. Cardinality(U \ {Pick(U)}) = Cardinality(U) - 1
      BY <2>1, <2>2, FS_RemoveElement
    <2> QED
      BY <2>1, <2>3
  <1>3. 0 \in N
    <2>1. \A T \in D(0) : T = {}
      <3>1. \A T \in D(0) : IsFiniteSet(T) /\ Cardinality(T) = 0
        BY <1>1
      <3> QED
        BY <3>1, FS_EmptySet
    <2>2. Eq([T \in D(0) |-> 0], 0)
      BY <2>1
    <2> QED
      BY <2>2
  <1>4. ASSUME NEW n \in Nat, n \in N PROVE n + 1 \in N
    <2>1. PICK f : Eq(f, n)
      BY <1>4
    <2> DEFINE g == [T \in D(n + 1) |-> IF T = {} THEN 0
                       ELSE o[Pick(T)].value + f[T \ {Pick(T)}]]
    <2>2. \A T \in D(n) : T \in D(n + 1)
      BY <1>1
    <2>3. \A T \in D(n) : f[T] = g[T]
      BY <2>1, <2>2
    <2>4. \A T \in D(n + 1) : T # {} => T \ {Pick(T)} \in D(n)
      BY <1>1, <1>2
    <2>5. Eq(g, n + 1)
      BY <2>3, <2>4
    <2> HIDE DEF Eq, g
    <2>6. \E k : Eq(k, n + 1)
      BY <2>5
    <2> QED
      BY <2>6
  <1>5. Nat \subseteq N
    <2> HIDE DEF N
    <2> QED BY <1>3, <1>4, NumberInduction
  <1>6. Cardinality(S) \in N
    BY <1>1, <1>5
  <1>7. D(Cardinality(S)) = SUBSET S
    <2>1. \A U \in SUBSET S : Cardinality(U) <= Cardinality(S)
      BY FS_Subset
    <2> QED
      BY <2>1
  <1>8. \E f : IsSums(f, o, S)
    BY <1>6, <1>7 DEF IsSums
  <1> QED
    BY <1>8 DEF Sums

(* The sums over a set and over a larger one agree.                        *)
LEMMA SumsAgree ==
  ASSUME NEW o, NEW S, IsFiniteSet(S), NEW R \in SUBSET S, NEW f, NEW g,
         IsSums(f, o, R), IsSums(g, o, S)
  PROVE  \A U \in SUBSET R : f[U] = g[U]
  <1> DEFINE P == {n \in Nat : \A U \in SUBSET R : Cardinality(U) = n => f[U] = g[U]}
  <1>1. \A U \in SUBSET R : IsFiniteSet(U) /\ Cardinality(U) \in Nat /\ U \in SUBSET S
    BY FS_Subset, FS_CardinalityType
  <1>2. /\ \A U \in SUBSET R : f[U] = IF U = {} THEN 0 ELSE o[Pick(U)].value + f[U \ {Pick(U)}]
        /\ \A U \in SUBSET R : g[U] = IF U = {} THEN 0 ELSE o[Pick(U)].value + g[U \ {Pick(U)}]
    BY DEF IsSums
  <1>3. 0 \in P
    BY <1>1, <1>2, FS_EmptySet
  <1>4. ASSUME NEW n \in Nat, n \in P PROVE n + 1 \in P
    <2> SUFFICES ASSUME NEW U \in SUBSET R, Cardinality(U) = n + 1 PROVE f[U] = g[U]
      OBVIOUS
    <2>1. U # {}
      BY FS_EmptySet
    <2>2. Pick(U) \in U /\ IsFiniteSet(U)
      BY <1>1, <2>1 DEF Pick
    <2>3. Cardinality(U \ {Pick(U)}) = Cardinality(U) - 1
      BY <2>2, FS_RemoveElement
    <2>4. U \ {Pick(U)} \in SUBSET R /\ Cardinality(U \ {Pick(U)}) = n
      BY <2>3
    <2>5. f[U \ {Pick(U)}] = g[U \ {Pick(U)}]
      BY <1>4, <2>4
    <2> QED
      BY <1>2, <2>1, <2>5
  <1>5. Nat \subseteq P
    <2> HIDE DEF P
    <2> QED BY <1>3, <1>4, NumberInduction
  <1> QED
    BY <1>1, <1>5

(* The empty sum, and a sum with its first pick split off.                 *)
LEMMA TotalUnfolds ==
  ASSUME NEW o, NEW S, IsFiniteSet(S)
  PROVE  Total(o, S) = IF S = {} THEN 0 ELSE o[Pick(S)].value + Total(o, S \ {Pick(S)})
  <1> DEFINE R == S \ {Pick(S)}
  <1>1. IsSums(Sums(o, S), o, S)
    BY SumsExist
  <1>2. IsFiniteSet(R) /\ R \in SUBSET S
    BY FS_Subset
  <1>3. IsSums(Sums(o, R), o, R)
    BY <1>2, SumsExist
  <1> HIDE DEF R
  <1>4. Sums(o, R)[R] = Sums(o, S)[R]
    BY <1>1, <1>2, <1>3, SumsAgree
  <1>5. Sums(o, S)[S] = IF S = {} THEN 0 ELSE o[Pick(S)].value + Sums(o, S)[R]
    BY <1>1 DEF IsSums, R
  <1>6. Total(o, S) = Sums(o, S)[S] /\ Total(o, R) = Sums(o, R)[R]
    BY TotalIsSums
  <1> QED
    BY <1>4, <1>5, <1>6 DEF R

(* Values are no debts, and neither is their sum.                          *)
LEMMA TotalIsNat ==
  ASSUME NEW o, NEW S, IsFiniteSet(S), Valued(o, S)
  PROVE  Total(o, S) \in Nat
  <1> DEFINE P == {n \in Nat : \A U \in SUBSET S : Cardinality(U) = n => Total(o, U) \in Nat}
  <1>1. \A U \in SUBSET S : IsFiniteSet(U) /\ Cardinality(U) \in Nat
    BY FS_Subset, FS_CardinalityType
  <1>2. 0 \in P
    BY <1>1, TotalUnfolds, FS_EmptySet
  <1>3. ASSUME NEW n \in Nat, n \in P PROVE n + 1 \in P
    <2> SUFFICES ASSUME NEW U \in SUBSET S, Cardinality(U) = n + 1 PROVE Total(o, U) \in Nat
      OBVIOUS
    <2>1. U # {}
      BY FS_EmptySet
    <2>2. Pick(U) \in U /\ IsFiniteSet(U)
      BY <1>1, <2>1 DEF Pick
    <2>3. Cardinality(U \ {Pick(U)}) = Cardinality(U) - 1
      BY <2>2, FS_RemoveElement
    <2>4. Total(o, U \ {Pick(U)}) \in Nat
      BY <1>3, <2>3
    <2>5. Total(o, U) = o[Pick(U)].value + Total(o, U \ {Pick(U)})
      BY <2>1, <2>2, TotalUnfolds
    <2> QED
      BY <2>2, <2>4, <2>5 DEF Valued
  <1>4. Nat \subseteq P
    <2> HIDE DEF P
    <2> QED BY <1>2, <1>3, NumberInduction
  <1> QED
    BY <1>1, <1>4

(* One more output adds its value, whichever it is.                        *)
LEMMA TotalAdds ==
  ASSUME NEW o, NEW S, IsFiniteSet(S), Valued(o, S), NEW A \in SUBSET S, NEW x \in S \ A
  PROVE  Total(o, A \cup {x}) = Total(o, A) + o[x].value
  <1> DEFINE P == {n \in Nat : \A U \in SUBSET S : \A y \in S \ U : Cardinality(U) = n =>
                     Total(o, U \cup {y}) = Total(o, U) + o[y].value}
  <1>1. \A U \in SUBSET S : /\ IsFiniteSet(U) /\ Cardinality(U) \in Nat
                            /\ Total(o, U) \in Nat
    <2> TAKE U \in SUBSET S
    <2>1. IsFiniteSet(U) /\ Valued(o, U)
      BY FS_Subset DEF Valued
    <2> QED
      BY <2>1, FS_CardinalityType, TotalIsNat
  <1>2. ASSUME NEW U \in SUBSET S, NEW y \in S \ U,
               \A V \in SUBSET S : \A z \in S \ V : Cardinality(V) + 1 = Cardinality(U) =>
                  Total(o, V \cup {z}) = Total(o, V) + o[z].value
        PROVE  Total(o, U \cup {y}) = Total(o, U) + o[y].value
    <2> DEFINE W == U \cup {y}
               p == Pick(W)
    <2>1. p \in W /\ IsFiniteSet(W) /\ W \in SUBSET S
      BY <1>1 DEF Pick
    <2>2. Total(o, W) = o[p].value + Total(o, W \ {p})
      BY <2>1, TotalUnfolds
    <2>3. \A k \in S : o[k].value \in Nat
      BY DEF Valued
    <2> HIDE DEF p
    <2>4. CASE p = y
      <3>1. W \ {p} = U
        BY <2>4
      <3>2. Total(o, W) = o[y].value + Total(o, U)
        BY <2>2, <2>4, <3>1
      <3>3. Total(o, U) \in Nat /\ o[y].value \in Nat
        BY <1>1, <2>3
      <3> HIDE DEF W
      <3>4. Total(o, W) = Total(o, U) + o[y].value
        BY <3>2, <3>3
      <3> QED
        BY <3>4 DEF W
    <2>5. CASE p # y
      <3> DEFINE V == U \ {p}
      <3>1. /\ p \in U /\ V \in SUBSET S /\ W \ {p} = V \cup {y} /\ U = V \cup {p}
            /\ y \in S \ V /\ p \in S \ V
        BY <2>1, <2>5
      <3>2. Cardinality(V) + 1 = Cardinality(U)
        <4>1. Cardinality(V) = Cardinality(U) - 1
          BY <1>1, <3>1, FS_RemoveElement
        <4> QED
          BY <1>1, <4>1
      <3> HIDE DEF V, W
      <3>3. Total(o, V \cup {y}) = Total(o, V) + o[y].value
        BY <1>2, <3>1, <3>2
      <3>4. Total(o, V \cup {p}) = Total(o, V) + o[p].value
        BY <1>2, <3>1, <3>2
      <3>5. Total(o, V) \in Nat /\ o[y].value \in Nat /\ o[p].value \in Nat
        BY <1>1, <2>3, <3>1
      <3>6. Total(o, W) = o[p].value + (Total(o, V) + o[y].value)
        BY <2>2, <3>1, <3>3
      <3>7. Total(o, U) = Total(o, V) + o[p].value
        BY <3>1, <3>4
      <3> QED
        BY <3>5, <3>6, <3>7 DEF W
    <2> QED
      BY <2>4, <2>5
  <1>3. 0 \in P
    <2> SUFFICES ASSUME NEW U \in SUBSET S, NEW y \in S \ U, Cardinality(U) = 0
                 PROVE  Total(o, U \cup {y}) = Total(o, U) + o[y].value
      OBVIOUS
    <2>1. \A V \in SUBSET S : Cardinality(V) + 1 # Cardinality(U)
      BY <1>1
    <2> QED
      BY <1>2, <2>1
  <1>4. ASSUME NEW n \in Nat, n \in P PROVE n + 1 \in P
    <2> SUFFICES ASSUME NEW U \in SUBSET S, NEW y \in S \ U, Cardinality(U) = n + 1
                 PROVE  Total(o, U \cup {y}) = Total(o, U) + o[y].value
      OBVIOUS
    <2>1. \A V \in SUBSET S : Cardinality(V) + 1 = Cardinality(U) => Cardinality(V) = n
      BY <1>1
    <2> QED
      BY <1>2, <1>4, <2>1
  <1>5. Nat \subseteq P
    <2> HIDE DEF P
    <2> QED BY <1>3, <1>4, NumberInduction
  <1>6. Cardinality(A) \in P
    BY <1>1, <1>5
  <1> QED
    BY <1>6

(* More outputs are worth no less.                                         *)
LEMMA TotalGrows ==
  ASSUME NEW o, NEW S, IsFiniteSet(S), Valued(o, S), NEW A \in SUBSET S
  PROVE  Total(o, A) <= Total(o, S)
  <1> DEFINE P == {U \in SUBSET S : Total(o, A) <= Total(o, A \cup U)}
  <1>1. \A U \in SUBSET S : Total(o, A \cup U) \in Nat
    <2> TAKE U \in SUBSET S
    <2>1. IsFiniteSet(A \cup U) /\ Valued(o, A \cup U)
      BY FS_Subset DEF Valued
    <2> QED
      BY <2>1, TotalIsNat
  <1>2. {} \in P
    <2>1. A \cup {} = A
      OBVIOUS
    <2> QED
      BY <1>1, <2>1
  <1>3. ASSUME NEW U \in SUBSET S, NEW x \in S, U \in P, x \notin U
        PROVE  U \cup {x} \in P
    <2>1. CASE x \in A
      <3>1. A \cup (U \cup {x}) = A \cup U
        BY <2>1
      <3> QED
        BY <1>3, <3>1
    <2>2. CASE x \notin A
      <3>1. A \cup (U \cup {x}) = (A \cup U) \cup {x} /\ A \cup U \in SUBSET S
            /\ x \in S \ (A \cup U)
        BY <1>3, <2>2
      <3>2. Total(o, (A \cup U) \cup {x}) = Total(o, A \cup U) + o[x].value
        BY <3>1, TotalAdds
      <3>3. o[x].value \in Nat
        BY DEF Valued
      <3> QED
        <4>1. Total(o, A) \in Nat
          <5>1. A \cup {} = A
            OBVIOUS
          <5> QED BY <1>1, <5>1
        <4> QED
          BY <1>1, <1>3, <3>1, <3>2, <3>3, <4>1
    <2> QED
      BY <2>1, <2>2
  <1>4. S \in P
    <2> HIDE DEF P
    <2> QED BY <1>2, <1>3, SubsetInduction
  <1>5. A \cup S = S
    OBVIOUS
  <1> QED
    BY <1>4, <1>5

-----------------------------------------------------------------------------
(* The order in which outputs are taken.  The place of an output is one    *)
(* more than the number of outputs ahead of it: no two share a place, so   *)
(* every place is taken, and Ranked is the sequence sorted by places.      *)
Place(o, k) == Cardinality(Ahead(o, k)) + 1
Top(o, n) == {Ranked(o)[j] : j \in 1..n}

(* No two outputs have one place, and the larger value comes first.        *)
LEMMA PlacesDiffer ==
  ASSUME NEW o, NEW N \in Nat, DOMAIN o = 1..N, Valued(o, 1..N)
  PROVE  /\ \A k \in 1..N : Place(o, k) \in 1..N
         /\ \A j, k \in 1..N : j # k => Place(o, j) # Place(o, k)
         /\ \A j, k \in 1..N : Place(o, j) <= Place(o, k) => o[j].value >= o[k].value
  <1>1. \A k \in 1..N : o[k].value \in Nat
    BY DEF Valued
  <1>2. IsFiniteSet(1..N) /\ Cardinality(1..N) = N
    BY FS_Interval
  <1>3. \A k \in 1..N : /\ Ahead(o, k) \in SUBSET (1..N) /\ k \notin Ahead(o, k)
                        /\ IsFiniteSet(Ahead(o, k)) /\ Cardinality(Ahead(o, k)) \in Nat
    <2> TAKE k \in 1..N
    <2>1. Ahead(o, k) \in SUBSET (1..N) /\ k \notin Ahead(o, k)
      BY <1>1 DEF Ahead
    <2> QED
      BY <1>2, <2>1, FS_Subset, FS_CardinalityType
  <1>4. ASSUME NEW k \in 1..N PROVE Place(o, k) \in 1..N
    <2>1. Cardinality(Ahead(o, k)) <= Cardinality(1..N)
      BY <1>2, <1>3, FS_Subset
    <2>2. Ahead(o, k) # 1..N
      BY <1>3
    <2>3. Cardinality(Ahead(o, k)) # Cardinality(1..N)
      BY <1>2, <1>3, <2>2, FS_Subset
    <2>4. Cardinality(Ahead(o, k)) \in Nat /\ Cardinality(Ahead(o, k)) < N
      BY <1>2, <1>3, <2>1, <2>3
    <2> QED
      BY <2>4 DEF Place
  <1>5. ASSUME NEW j \in 1..N, NEW k \in 1..N, j \in Ahead(o, k)
        PROVE  Place(o, j) < Place(o, k)
    <2>1. Ahead(o, j) \in SUBSET Ahead(o, k)
      BY <1>1, <1>5 DEF Ahead
    <2>2. Ahead(o, j) # Ahead(o, k)
      BY <1>3, <1>5
    <2>3. /\ Cardinality(Ahead(o, j)) <= Cardinality(Ahead(o, k))
          /\ Cardinality(Ahead(o, k)) = Cardinality(Ahead(o, j)) => Ahead(o, k) = Ahead(o, j)
      BY <1>3, <2>1, FS_Subset
    <2> QED
      BY <1>3, <2>2, <2>3 DEF Place
  <1>6. \A j, k \in 1..N : j # k => j \in Ahead(o, k) \/ k \in Ahead(o, j)
    BY <1>1 DEF Ahead
  <1>7. \A j, k \in 1..N : k \in Ahead(o, j) => o[j].value <= o[k].value
    BY <1>1 DEF Ahead
  <1>8. \A k \in 1..N : Place(o, k) \in Nat
    BY <1>4
  <1>9. ASSUME NEW j \in 1..N, NEW k \in 1..N, Place(o, j) <= Place(o, k)
        PROVE  o[j].value >= o[k].value
    <2>1. CASE j = k
      BY <1>1, <2>1
    <2>2. CASE j \in Ahead(o, k)
      BY <1>1, <1>7, <2>2
    <2>3. CASE k \in Ahead(o, j)
      BY <1>5, <1>8, <1>9, <2>3
    <2> QED
      BY <1>6, <2>1, <2>2, <2>3
  <1>10. \A j, k \in 1..N : j # k => Place(o, j) # Place(o, k)
    BY <1>5, <1>6, <1>8
  <1> QED
    BY <1>4, <1>9, <1>10

(* Ranked is the inverse of Place.                                         *)
LEMMA RankedInverts ==
  ASSUME NEW o, NEW N \in Nat, DOMAIN o = 1..N, Valued(o, 1..N)
  PROVE  /\ \A n \in 1..N : Ranked(o)[n] \in 1..N /\ Place(o, Ranked(o)[n]) = n
         /\ \A k \in 1..N : Ranked(o)[Place(o, k)] = k
  <1> DEFINE p == [k \in 1..N |-> Place(o, k)]
  <1>1. IsFiniteSet(1..N)
    BY FS_Interval
  <1>2. p \in Injection(1..N, 1..N)
    BY PlacesDiffer DEF Injection, IsInjective
  <1> HIDE DEF p
  <1>3. p \in Surjection(1..N, 1..N)
    BY <1>1, <1>2, FS_Injection
  <1>4. \A n \in 1..N : \E k \in 1..N : Place(o, k) = n
    BY <1>3 DEF Surjection, p
  <1>5. \A k \in 1..N : Cardinality(Ahead(o, k)) \in Int
    BY FS_CardinalityType, FS_Subset, <1>1 DEF Ahead
  <1>6. ASSUME NEW n \in 1..N
        PROVE  Ranked(o)[n] \in 1..N /\ Place(o, Ranked(o)[n]) = n
    <2> DEFINE r == CHOOSE k \in 1..N : Cardinality(Ahead(o, k)) = n - 1
    <2>1. \E k \in 1..N : Cardinality(Ahead(o, k)) = n - 1
      <3>1. PICK k \in 1..N : Place(o, k) = n
        BY <1>4
      <3>2. Cardinality(Ahead(o, k)) \in Int /\ Cardinality(Ahead(o, k)) + 1 = n
        BY <1>5, <3>1 DEF Place
      <3>3. Cardinality(Ahead(o, k)) = n - 1
        BY <3>2
      <3> QED
        BY <3>3
    <2>2. r \in 1..N /\ Cardinality(Ahead(o, r)) = n - 1
      BY <2>1
    <2>3. Ranked(o)[n] = r
      BY DEF Ranked
    <2> HIDE DEF r
    <2> QED
      BY <2>2, <2>3 DEF Place
  <1>7. ASSUME NEW k \in 1..N
        PROVE  Ranked(o)[Place(o, k)] = k
    BY <1>6, PlacesDiffer
  <1> QED
    BY <1>6, <1>7

(* The first n outputs taken.                                              *)
LEMMA TopTakes ==
  ASSUME NEW o, NEW N \in Nat, DOMAIN o = 1..N, Valued(o, 1..N), NEW n \in 0..N
  PROVE  /\ Top(o, n) \in SUBSET (1..N)
         /\ \A k \in 1..N : k \in Top(o, n) <=> Place(o, k) <= n
         /\ IsFiniteSet(Top(o, n)) /\ Cardinality(Top(o, n)) <= n
         /\ n < N => /\ Top(o, n + 1) = Top(o, n) \cup {Ranked(o)[n + 1]}
                     /\ Ranked(o)[n + 1] \in (1..N) \ Top(o, n)
  <1>1. /\ \A j \in 1..N : Ranked(o)[j] \in 1..N /\ Place(o, Ranked(o)[j]) = j
        /\ \A k \in 1..N : Ranked(o)[Place(o, k)] = k /\ Place(o, k) \in 1..N
    BY RankedInverts, PlacesDiffer
  <1>2. Top(o, n) \in SUBSET (1..N)
    BY <1>1 DEF Top
  <1>3. \A k \in 1..N : k \in Top(o, n) <=> Place(o, k) <= n
    BY <1>1, SMTT(30) DEF Top
  <1>4. IsFiniteSet(1..n) /\ Cardinality(1..n) = n
    BY FS_Interval
  <1>5. [j \in 1..n |-> Ranked(o)[j]] \in Surjection(1..n, Top(o, n))
    BY DEF Surjection, Top
  <1>6. IsFiniteSet(Top(o, n)) /\ Cardinality(Top(o, n)) <= n
    BY <1>4, <1>5, FS_Surjection
  <1>7. ASSUME n < N
        PROVE  /\ Top(o, n + 1) = Top(o, n) \cup {Ranked(o)[n + 1]}
               /\ Ranked(o)[n + 1] \in (1..N) \ Top(o, n)
    <2>1. 1..(n + 1) = (1..n) \cup {n + 1}
      OBVIOUS
    <2>2. Top(o, n + 1) = Top(o, n) \cup {Ranked(o)[n + 1]}
      BY <2>1 DEF Top
    <2>3. n + 1 \in 1..N
      BY <1>7
    <2> QED
      BY <1>1, <1>3, <2>2, <2>3
  <1> QED
    BY <1>2, <1>3, <1>6, <1>7

(* No other choice of as many outputs is worth more.                       *)
LEMMA TopIsBest ==
  ASSUME NEW o, NEW N \in Nat, DOMAIN o = 1..N, Valued(o, 1..N),
         NEW S \in SUBSET (1..N)
  PROVE  /\ Cardinality(S) \in 0..N
         /\ Total(o, S) <= Total(o, Top(o, Cardinality(S)))
  <1> DEFINE P == {n \in Nat : \A U \in SUBSET (1..N) : Cardinality(U) = n =>
                     Total(o, U) <= Total(o, Top(o, n))}
  <1>1. IsFiniteSet(1..N) /\ Cardinality(1..N) = N
    BY FS_Interval
  <1>2. \A U \in SUBSET (1..N) : /\ IsFiniteSet(U) /\ Cardinality(U) \in 0..N
                                 /\ Total(o, U) \in Nat
    <2> TAKE U \in SUBSET (1..N)
    <2>1. IsFiniteSet(U) /\ Valued(o, U)
      BY <1>1, FS_Subset DEF Valued
    <2>2. Cardinality(U) \in Nat /\ Cardinality(U) <= N
      <3>1. Cardinality(U) <= Cardinality(1..N)
        BY <1>1, FS_Subset
      <3>2. Cardinality(U) \in Nat
        BY <2>1, FS_CardinalityType
      <3> QED
        BY <1>1, <3>1, <3>2
    <2> QED
      BY <2>1, <2>2, TotalIsNat
  <1>3. 0 \in P
    <2> SUFFICES ASSUME NEW U \in SUBSET (1..N), Cardinality(U) = 0
                 PROVE  Total(o, U) <= Total(o, Top(o, 0))
      OBVIOUS
    <2>1. Top(o, 0) = {}
      BY DEF Top
    <2>2. U = {}
      BY <1>2, FS_EmptySet
    <2>3. Total(o, U) = Total(o, Top(o, 0)) /\ Total(o, U) \in Nat
      BY <1>2, <2>1, <2>2
    <2> QED
      BY <2>3
  <1>4. ASSUME NEW n \in Nat, n \in P PROVE n + 1 \in P
    <2> SUFFICES ASSUME NEW U \in SUBSET (1..N), Cardinality(U) = n + 1
                 PROVE  Total(o, U) <= Total(o, Top(o, n + 1))
      OBVIOUS
    <2>1. n + 1 \in 0..N /\ n \in 0..N /\ n < N
      BY <1>2
    <2>2. /\ Top(o, n) \in SUBSET (1..N)
          /\ \A k \in 1..N : k \in Top(o, n) <=> Place(o, k) <= n
          /\ IsFiniteSet(Top(o, n)) /\ Cardinality(Top(o, n)) <= n
          /\ Top(o, n + 1) = Top(o, n) \cup {Ranked(o)[n + 1]}
          /\ Ranked(o)[n + 1] \in (1..N) \ Top(o, n)
      BY <2>1, TopTakes
    <2>3. U \notin SUBSET Top(o, n)
      <3>1. U \in SUBSET Top(o, n) => Cardinality(U) <= Cardinality(Top(o, n))
        BY <2>2, FS_Subset
      <3>2. Cardinality(Top(o, n)) \in Nat
        BY <2>2, FS_CardinalityType
      <3> QED
        BY <2>2, <3>1, <3>2
    <2>4. PICK x \in U : Place(o, x) > n
      BY <2>2, <2>3, PlacesDiffer
    <2> DEFINE V == U \ {x}
               r == Ranked(o)[n + 1]
    <2>5. V \in SUBSET (1..N) /\ x \in (1..N) \ V /\ U = V \cup {x} /\ Cardinality(V) = n
      <3>1. Cardinality(V) = Cardinality(U) - 1
        BY <1>2, FS_RemoveElement
      <3> QED
        BY <3>1
    <2>6. Total(o, V) <= Total(o, Top(o, n))
      BY <1>4, <2>5
    <2>7. n + 1 \in 1..N
      BY <2>1
    <2>8. r \in 1..N /\ Place(o, r) = n + 1
      BY <2>7, RankedInverts
    <2>9. o[x].value <= o[r].value /\ o[x].value \in Nat /\ o[r].value \in Nat
      <3>1. Place(o, x) \in Nat
        BY <2>5, PlacesDiffer
      <3>2. Place(o, r) <= Place(o, x)
        BY <2>4, <2>8, <3>1
      <3> QED
        BY <2>5, <2>8, <3>2, PlacesDiffer DEF Valued
    <2> HIDE DEF V, r
    <2>10. Total(o, U) = Total(o, V) + o[x].value
      BY <1>1, <2>5, TotalAdds
    <2>11. Total(o, Top(o, n + 1)) = Total(o, Top(o, n)) + o[r].value
      BY <1>1, <2>2, TotalAdds DEF r
    <2>12. Total(o, V) \in Nat /\ Total(o, Top(o, n)) \in Nat
      BY <1>2, <2>2, <2>5
    <2> QED
      BY <2>6, <2>9, <2>10, <2>11, <2>12
  <1>5. Nat \subseteq P
    <2> HIDE DEF P
    <2> QED BY <1>3, <1>4, NumberInduction
  <1>6. Cardinality(S) \in P
    BY <1>2, <1>5
  <1> QED
    BY <1>2, <1>6

-----------------------------------------------------------------------------
(* What select_inputs selects. *)

(* A cache as the lemmas above need it.                                    *)
LEMMA CacheTypes ==
  ASSUME NEW o \in Caches
  PROVE  /\ Len(o) \in Nat /\ DOMAIN o = 1..Len(o) /\ Valued(o, 1..Len(o))
         /\ \A k \in 1..Len(o) : /\ o[k] \in [index : Nat, height : Nat, value : 0..MAX, key : STRING]
                                 /\ o[k].index \in Nat /\ o[k].height \in Nat
         /\ \A j, k \in 1..Len(o) : o[j].index = o[k].index => j = k
  <1> DEFINE Out == [index : Nat, height : Nat, value : 0..MAX, key : STRING]
  <1>1. o \in Seq(Out) /\ \A j, k \in DOMAIN o : o[j].index = o[k].index => j = k
    BY CacheAssumption
  <1>2. \A x \in Out : x.index \in Nat /\ x.height \in Nat /\ x.value \in Nat
    BY BuilderAssumption
  <1> HIDE DEF Out
  <1>3. Len(o) \in Nat /\ DOMAIN o = 1..Len(o) /\ \A k \in 1..Len(o) : o[k] \in Out
    BY <1>1
  <1> QED
    BY <1>1, <1>2, <1>3 DEF Valued, Out

(* The first n outputs select_inputs takes, as a set.                      *)
LEMMA RankedPrefix ==
  ASSUME NEW o \in Caches, NEW n \in 0..Len(o)
  PROVE  ToSet(SubSeq(Ranked(o), 1, n)) = Top(o, n)
  <1> DEFINE r == Ranked(o)
             p == SubSeq(r, 1, n)
  <1>1. Len(o) \in Nat /\ DOMAIN o = 1..Len(o) /\ \A j \in 1..Len(o) : r[j] \in 1..Len(o)
    BY CacheTypes, RankedInverts
  <1>2. r = [j \in 1..Len(o) |-> r[j]]
    BY <1>1 DEF Ranked
  <1> HIDE DEF r
  <1>3. r \in Seq(1..Len(o)) /\ Len(r) = Len(o)
    BY <1>1, <1>2
  <1>4. DOMAIN p = 1..n /\ \A j \in 1..n : p[j] = r[j]
    BY <1>1, <1>3
  <1> HIDE DEF p
  <1>5. ToSet(p) = {r[j] : j \in 1..n}
    BY <1>4 DEF ToSet
  <1> QED
    BY <1>5 DEF Top, r, p

(* The number of outputs selected is the least that covers what is needed. *)
LEMMA SelectsLeast ==
  ASSUME NEW o \in Caches, NEW needed \in Nat, Counts(o, needed) # {}
  PROVE  LET n == Min(Counts(o, needed))
         IN  /\ n \in 1..Len(o) /\ Total(o, Top(o, n)) >= needed
             /\ ToSet(SubSeq(Ranked(o), 1, n)) = Top(o, n)
             /\ \A m \in 1..Len(o) : Total(o, Top(o, m)) >= needed => n <= m
  <1> DEFINE C == Counts(o, needed)
             n == Min(C)
  <1>1. C = {m \in 1..Len(o) : Total(o, Top(o, m)) >= needed}
    <2>1. \A m \in 1..Len(o) : m \in 0..Len(o)
      BY CacheTypes
    <2>2. \A m \in 1..Len(o) : ToSet(SubSeq(Ranked(o), 1, m)) = Top(o, m)
      BY <2>1, RankedPrefix
    <2> QED
      BY <2>2 DEF Counts
  <1>2. C \subseteq Nat
    BY <1>1, CacheTypes
  <1> HIDE DEF C
  <1>3. \E m \in C : \A k \in C : m <= k
    BY <1>2, LeastNatural DEF C
  <1>4. n \in C /\ \A k \in C : n <= k
    BY <1>3 DEF Min
  <1> HIDE DEF n
  <1>5. n \in 1..Len(o) /\ n \in 0..Len(o) /\ Total(o, Top(o, n)) >= needed
    BY <1>1, <1>4, CacheTypes
  <1>6. ToSet(SubSeq(Ranked(o), 1, n)) = Top(o, n)
    BY <1>5, RankedPrefix
  <1>7. \A m \in 1..Len(o) : Total(o, Top(o, m)) >= needed => n <= m
    BY <1>1, <1>4
  <1> QED
    BY <1>5, <1>6, <1>7 DEF n, C

(* Any other choice that covers what is needed takes as many outputs.      *)
LEMMA SelectsFewest ==
  ASSUME NEW o \in Caches, NEW needed \in Nat, needed > 0, Counts(o, needed) # {},
         NEW S \in SUBSET DOMAIN o, Total(o, S) >= needed
  PROVE  Cardinality(S) >= Min(Counts(o, needed))
  <1> DEFINE n == Min(Counts(o, needed))
             N == Len(o)
             m == Cardinality(S)
  <1>1. N \in Nat /\ DOMAIN o = 1..N /\ Valued(o, 1..N)
    BY CacheTypes
  <1>2. n \in 1..N /\ \A k \in 1..N : Total(o, Top(o, k)) >= needed => n <= k
    BY SelectsLeast
  <1>3. m \in 0..N /\ Total(o, S) <= Total(o, Top(o, m))
    BY <1>1, TopIsBest
  <1>4. IsFiniteSet(1..N)
    BY <1>1, FS_Interval
  <1>5. Total(o, S) \in Nat /\ Total(o, Top(o, m)) \in Nat
    <2>1. Top(o, m) \in SUBSET (1..N)
      BY <1>1, <1>3, TopTakes
    <2>2. \A U \in SUBSET (1..N) : IsFiniteSet(U) /\ Valued(o, U)
      BY <1>1, <1>4, FS_Subset DEF Valued
    <2> QED
      BY <1>1, <2>1, <2>2, TotalIsNat
  <1> HIDE DEF n, N, m
  <1>6. Total(o, Top(o, m)) >= needed
    BY <1>3, <1>5
  <1>7. CASE m \in 1..N
    <2>1. n <= m
      BY <1>2, <1>6, <1>7
    <2>2. n \in Int /\ m \in Int
      BY <1>1, <1>2, <1>3
    <2> QED
      BY <2>1, <2>2 DEF n, m
  <1>8. CASE m = 0
    <2>1. Top(o, m) = {}
      BY <1>8 DEF Top
    <2>2. IsFiniteSet({})
      BY FS_EmptySet
    <2>3. Total(o, Top(o, m)) = 0
      BY <2>1, <2>2, TotalUnfolds
    <2> QED
      BY <1>6, <2>3
  <1>9. m = 0 \/ m \in 1..N
    BY <1>1, <1>3
  <1> QED
    BY <1>7, <1>8, <1>9 DEF n, m

(* A payment is refused only if all outputs together do not cover it, or   *)
(* are worth more than a u64 holds.                                        *)
LEMMA RefusesRightly ==
  ASSUME NEW o \in Caches, NEW needed \in Nat, needed > 0, ~Selects(o, needed)
  PROVE  Total(o, DOMAIN o) < needed \/ Total(o, DOMAIN o) > MAX
  <1> DEFINE N == Len(o)
  <1>1. N \in Nat /\ DOMAIN o = 1..N /\ Valued(o, 1..N)
    BY CacheTypes
  <1>2. IsFiniteSet(1..N)
    BY <1>1, FS_Interval
  <1>3. \A U \in SUBSET (1..N) : Total(o, U) \in Nat /\ Total(o, U) <= Total(o, 1..N)
    <2>1. \A U \in SUBSET (1..N) : IsFiniteSet(U) /\ Valued(o, U)
      BY <1>1, <1>2, FS_Subset DEF Valued
    <2> QED
      BY <1>1, <1>2, <2>1, TotalIsNat, TotalGrows
  <1>4. 1..N \in SUBSET (1..N)
    OBVIOUS
  <1>5. MAX \in Nat
    BY BuilderAssumption
  <1>6. CASE Counts(o, needed) = {}
    <2>1. CASE N = 0
      <3>1. 1..N = {}
        BY <2>1
      <3>2. Total(o, {}) = 0
        BY FS_EmptySet, TotalUnfolds
      <3> QED
        BY <1>1, <3>1, <3>2
    <2>2. CASE N # 0
      <3>1. N \in 1..N /\ N \in 0..N
        BY <1>1, <2>2
      <3>2. Top(o, N) = 1..N
        <4>1. \A k \in 1..N : Place(o, k) <= N
          BY <1>1, PlacesDiffer
        <4>2. Top(o, N) \in SUBSET (1..N) /\ \A k \in 1..N : k \in Top(o, N)
          BY <1>1, <3>1, <4>1, TopTakes
        <4> QED
          BY <4>2
      <3>3. ToSet(SubSeq(Ranked(o), 1, N)) = 1..N
        BY <3>1, <3>2, RankedPrefix
      <3>4. ~(Total(o, 1..N) >= needed)
        BY <1>6, <3>1, <3>3 DEF Counts
      <3> HIDE DEF N
      <3>5. Total(o, 1..N) \in Nat
        BY <1>3, <1>4
      <3> QED
        BY <1>1, <3>4, <3>5
    <2> QED
      BY <2>1, <2>2
  <1>7. CASE Counts(o, needed) # {}
    <2> DEFINE n == Min(Counts(o, needed))
    <2>1. n \in 1..N /\ ToSet(SubSeq(Ranked(o), 1, n)) = Top(o, n)
      BY <1>7, SelectsLeast
    <2>2. ~(Total(o, Top(o, n)) <= MAX)
      BY <1>7, <2>1 DEF Selects
    <2> HIDE DEF n
    <2>3. n \in 0..N
      BY <1>1, <2>1
    <2>4. Top(o, n) \in SUBSET (1..N)
      BY <1>1, <2>3, TopTakes
    <2> HIDE DEF N
    <2> QED
      BY <1>1, <1>3, <1>4, <1>5, <2>2, <2>4
  <1> QED
    BY <1>6, <1>7

(* What is selected is the first n outputs in their order, and adds up to  *)
(* the same.                                                               *)
LEMMA SelectedIsTop ==
  ASSUME NEW o \in Caches, NEW needed \in Nat, Counts(o, needed) # {}
  PROVE  LET n == Min(Counts(o, needed))
             s == Selected(o, needed)
         IN  /\ n \in 1..Len(o) /\ Len(s) = n /\ DOMAIN s = 1..n
             /\ \A k \in 1..n : s[k] = o[Ranked(o)[k]] /\ Ranked(o)[k] \in 1..Len(o)
             /\ Total(s, 1..n) = Total(o, Top(o, n))
             /\ Top(o, n) \in SUBSET (1..Len(o))
  <1> DEFINE n == Min(Counts(o, needed))
             s == Selected(o, needed)
             N == Len(o)
  <1>1. N \in Nat /\ DOMAIN o = 1..N /\ Valued(o, 1..N)
    BY CacheTypes
  <1>2. n \in 1..N
    BY SelectsLeast
  <1>3. s = [k \in 1..n |-> o[Ranked(o)[k]]]
    BY DEF Selected
  <1> HIDE DEF n, s, N
  <1>4. n \in Nat /\ \A k \in 1..n : k \in 1..N
    BY <1>1, <1>2
  <1>5. /\ Len(s) = n /\ DOMAIN s = 1..n
        /\ \A k \in 1..n : s[k] = o[Ranked(o)[k]] /\ Ranked(o)[k] \in 1..N
    <2>1. \A k \in 1..n : Ranked(o)[k] \in 1..N
      BY <1>1, <1>4, RankedInverts
    <2>2. DOMAIN s = 1..n /\ \A k \in 1..n : s[k] = o[Ranked(o)[k]]
      BY <1>3
    <2>3. Len(s) = n
      BY <1>3, <1>4
    <2> QED
      BY <2>1, <2>2, <2>3
  <1>6. Valued(s, 1..n)
    BY <1>1, <1>5 DEF Valued
  <1> DEFINE P == {m \in Nat : m <= n => Total(s, 1..m) = Total(o, Top(o, m))}
  <1>7. 0 \in P
    <2>1. 1..0 = {} /\ Top(o, 0) = {}
      BY DEF Top
    <2>2. Total(s, {}) = 0 /\ Total(o, {}) = 0
      BY FS_EmptySet, TotalUnfolds
    <2> QED
      BY <2>1, <2>2
  <1>8. ASSUME NEW m \in Nat, m \in P PROVE m + 1 \in P
    <2> SUFFICES ASSUME m + 1 <= n PROVE Total(s, 1..(m + 1)) = Total(o, Top(o, m + 1))
      OBVIOUS
    <2>1. m \in 0..N /\ m < N /\ m + 1 \in 1..n /\ m <= n
      BY <1>1, <1>2, <1>4
    <2>2. Total(s, 1..m) = Total(o, Top(o, m))
      BY <1>8, <2>1
    <2>3. 1..(m + 1) = (1..m) \cup {m + 1} /\ 1..m \in SUBSET (1..n) /\ m + 1 \in (1..n) \ (1..m)
      BY <1>4, <2>1
    <2>4. Total(s, (1..m) \cup {m + 1}) = Total(s, 1..m) + s[m + 1].value
      <3> DEFINE A == 1..m
                 B == 1..n
                 x == m + 1
      <3>1. IsFiniteSet(B) /\ Valued(s, B)
        BY <1>4, <1>6, FS_Interval
      <3>2. A \in SUBSET B /\ x \in B \ A
        BY <2>3
      <3> HIDE DEF A, B, x
      <3>3. Total(s, A \cup {x}) = Total(s, A) + s[x].value
        BY <3>1, <3>2, TotalAdds
      <3> QED
        BY <3>3 DEF A, B, x
    <2>5. /\ Top(o, m + 1) = Top(o, m) \cup {Ranked(o)[m + 1]}
          /\ Ranked(o)[m + 1] \in (1..N) \ Top(o, m) /\ Top(o, m) \in SUBSET (1..N)
      BY <1>1, <2>1, TopTakes
    <2>6. Total(o, Top(o, m + 1)) = Total(o, Top(o, m)) + o[Ranked(o)[m + 1]].value
      <3>1. IsFiniteSet(1..N)
        BY <1>1, FS_Interval
      <3> QED
        BY <1>1, <2>5, <3>1, TotalAdds
    <2>7. s[m + 1] = o[Ranked(o)[m + 1]]
      BY <1>5, <2>1
    <2> QED
      BY <2>2, <2>3, <2>4, <2>6, <2>7
  <1>9. Nat \subseteq P
    <2> HIDE DEF P
    <2> QED BY <1>7, <1>8, NumberInduction
  <1>10. Total(s, 1..n) = Total(o, Top(o, n))
    BY <1>4, <1>9
  <1>11. Top(o, n) \in SUBSET (1..N)
    <2>1. n \in 0..N
      BY <1>1, <1>2
    <2> QED
      BY <1>1, <2>1, TopTakes
  <1> QED
    BY <1>2, <1>5, <1>10, <1>11 DEF n, s, N

-----------------------------------------------------------------------------
(* The outputs of a transaction, one or two, added up. *)
IsFold(f, q) ==
  f = [T \in SUBSET DOMAIN q |-> IF T = {} THEN 0 ELSE f[T \ {Max(T)}] + q[Max(T)]]
Folded(q) == (CHOOSE f : IsFold(f, q))[DOMAIN q]

(* FoldLeft is that function's value for the whole sequence.               *)
LEMMA FoldIsFolded ==
  ASSUME NEW q
  PROVE  FoldLeft(+, 0, q) = Folded(q)
  BY Zenon DEF FoldLeft, MapThenFoldSet, Folded, IsFold

(* Two sequences of one.                                                   *)
LEMMA PairJoins ==
  ASSUME NEW a \in Nat, NEW c \in Nat
  PROVE  <<a>> \o <<c>> = <<a, c>>
  <1> DEFINE s == <<a>> \o <<c>>
             t == <<a, c>>
  <1>1. <<a>> \in Seq(Nat) /\ Len(<<a>>) = 1 /\ <<a>>[1] = a
    OBVIOUS
  <1>2. <<c>> \in Seq(Nat) /\ Len(<<c>>) = 1 /\ <<c>>[1] = c
    OBVIOUS
  <1>3. s \in Seq(Nat) /\ Len(s) = 2 /\ s[1] = a /\ s[2] = c
    BY <1>1, <1>2
  <1>4. t \in Seq(Nat) /\ Len(t) = 2 /\ t[1] = a /\ t[2] = c
    OBVIOUS
  <1> HIDE DEF s, t
  <1>5. \A i \in 1..2 : s[i] = t[i]
    BY <1>3, <1>4
  <1>6. s = t
    BY <1>3, <1>4, <1>5
  <1> QED
    BY <1>6 DEF s, t

(* A transaction has one or two outputs: what they add up to.              *)
LEMMA FoldsPair ==
  ASSUME NEW a \in Nat, NEW b \in Nat
  PROVE  Folded(<<a>>) = a /\ Folded(<<a, b>>) = a + b
  <1>1. Max({1}) = 1 /\ Max({2}) = 2 /\ Max({1, 2}) = 2
    <2>1. ASSUME NEW x \in {1, 2}, NEW S \in SUBSET {1, 2}, x \in S, \A y \in S : x >= y
          PROVE  Max(S) = x
      <3>1. Max(S) \in S /\ \A y \in S : Max(S) >= y
        BY <2>1 DEF Max
      <3> DEFINE m == Max(S)
      <3> HIDE DEF m
      <3>2. x >= m /\ m >= x
        BY <2>1, <3>1 DEF m
      <3>3. m \in {1, 2}
        BY <3>1 DEF m
      <3>4. m = x
        BY <3>2, <3>3
      <3> QED
        BY <3>4 DEF m
    <2> QED
      BY <2>1
  <1>2. Folded(<<a>>) = a
    <2> DEFINE q == <<a>>
               f == [T \in SUBSET {1} |-> IF T = {} THEN 0 ELSE a]
    <2>1. DOMAIN q = {1} /\ q[1] = a
      OBVIOUS
    <2>2. \A T \in SUBSET {1} : T = {} \/ T = {1}
      OBVIOUS
    <2>3. IsFold(f, q)
      <3>1. \A T \in SUBSET {1} :
              f[T] = IF T = {} THEN 0 ELSE f[T \ {Max(T)}] + q[Max(T)]
        <4>1. {1} \ {1} = {} /\ f[{}] = 0 /\ f[{1}] = a
          OBVIOUS
        <4>2. f[{1}] = f[{1} \ {Max({1})}] + q[Max({1})]
          BY <1>1, <2>1, <4>1
        <4> HIDE DEF f, q
        <4> QED
          BY <2>2, <4>1, <4>2
      <3> QED
        BY <2>1, <3>1 DEF IsFold
    <2> DEFINE g == CHOOSE h : IsFold(h, q)
    <2>4. IsFold(g, q)
      <3> HIDE DEF f, q
      <3> QED BY <2>3
    <2> HIDE DEF g, f
    <2>5. g[{1}] = g[{1} \ {1}] + q[1] /\ g[{}] = 0
      <3>1. \A T \in SUBSET {1} :
              g[T] = IF T = {} THEN 0 ELSE g[T \ {Max(T)}] + q[Max(T)]
        BY <2>1, <2>4 DEF IsFold
      <3>2. {1} \in SUBSET {1} /\ {} \in SUBSET {1} /\ {1} # {}
        OBVIOUS
      <3> QED
        BY <1>1, <3>1, <3>2
    <2>6. {1} \ {1} = {}
      OBVIOUS
    <2> QED
      BY <2>1, <2>5, <2>6 DEF Folded, g
  <1>3. Folded(<<a, b>>) = a + b
    <2> DEFINE q == <<a, b>>
               f == [T \in SUBSET {1, 2} |-> IF T = {} THEN 0 ELSE IF T = {1} THEN a
                                             ELSE IF T = {2} THEN b ELSE a + b]
    <2>1. DOMAIN q = {1, 2} /\ q[1] = a /\ q[2] = b
      OBVIOUS
    <2>2. \A T \in SUBSET {1, 2} : T = {} \/ T = {1} \/ T = {2} \/ T = {1, 2}
      OBVIOUS
    <2>3. {1} \ {1} = {} /\ {2} \ {2} = {} /\ {1, 2} \ {2} = {1}
      OBVIOUS
    <2>4. f[{}] = 0 /\ f[{1}] = a /\ f[{2}] = b /\ f[{1, 2}] = a + b
      OBVIOUS
    <2>5. \A T \in SUBSET {1, 2} :
            f[T] = IF T = {} THEN 0 ELSE f[T \ {Max(T)}] + q[Max(T)]
      <3> HIDE DEF f, q
      <3>1. f[{1}] = f[{1} \ {Max({1})}] + q[Max({1})]
        BY <1>1, <2>1, <2>3, <2>4
      <3>2. f[{2}] = f[{2} \ {Max({2})}] + q[Max({2})]
        BY <1>1, <2>1, <2>3, <2>4
      <3>3. f[{1, 2}] = f[{1, 2} \ {Max({1, 2})}] + q[Max({1, 2})]
        BY <1>1, <2>1, <2>3, <2>4
      <3>4. {1} # {} /\ {2} # {} /\ {1, 2} # {}
        OBVIOUS
      <3> QED
        BY <2>2, <2>4, <3>1, <3>2, <3>3, <3>4
    <2>6. IsFold(f, q)
      <3> HIDE DEF q
      <3> QED BY <2>1, <2>5 DEF IsFold
    <2> DEFINE g == CHOOSE h : IsFold(h, q)
    <2>7. IsFold(g, q)
      <3> HIDE DEF f, q
      <3> QED BY <2>6
    <2> HIDE DEF g, f
    <2>8. g[{1, 2}] = g[{1}] + b /\ g[{1}] = g[{}] + a /\ g[{}] = 0
      <3>1. \A T \in SUBSET {1, 2} :
              g[T] = IF T = {} THEN 0 ELSE g[T \ {Max(T)}] + q[Max(T)]
        BY <2>1, <2>7 DEF IsFold
      <3>2. /\ {1} \in SUBSET {1, 2} /\ {} \in SUBSET {1, 2} /\ {1, 2} \in SUBSET {1, 2}
            /\ {1} # {} /\ {1, 2} # {}
        OBVIOUS
      <3> HIDE DEF q
      <3>3. g[{1, 2}] = g[{1, 2} \ {Max({1, 2})}] + q[Max({1, 2})]
        BY <3>1, <3>2
      <3>4. g[{1}] = g[{1} \ {Max({1})}] + q[Max({1})]
        BY <3>1, <3>2
      <3>5. g[{}] = 0
        BY <3>1, <3>2
      <3>6. g[{1, 2}] = g[{1}] + b
        BY <1>1, <2>1, <2>3, <3>3
      <3>7. g[{1}] = g[{}] + a
        BY <1>1, <2>1, <2>3, <3>4
      <3> QED
        BY <3>5, <3>6, <3>7
    <2> QED
      BY <2>1, <2>8 DEF Folded, g
  <1> QED
    BY <1>2, <1>3

-----------------------------------------------------------------------------
(* What the request and the cache are once the inputs are selected. *)
Chosen ==
  /\ req \in Requests /\ owned \in Caches
  /\ pc = "idle" => sel = <<>>
  /\ pc \in Reading \cup {"build", "done"} => sel # <<>>
  /\ pc = "unfunded" => Needed(req) > 0 /\ ~Selects(owned, Needed(req))
  /\ sel # <<>> => /\ req.amount > 0 /\ req.fee > 0 /\ Needed(req) <= MAX
                   /\ Selects(owned, Needed(req))
                   /\ sel = Selected(owned, Needed(req))

(* What was built from them.                                               *)
Built ==
  pc = "done" =>
    tx = [ins |-> {sel[k].index : k \in DOMAIN sel},
          outs |-> <<req.amount>> \o (IF Change > 0 THEN <<Change>> ELSE <<>>),
          fee |-> req.fee]

(* What was selected and built stays as it is until the build ends.        *)
LEMMA ChosenStep ==
  ASSUME Chosen, Built, [Next]_vars
  PROVE  Chosen' /\ Built'
  <1>1. CASE Begin
    <2>1. /\ req \in Requests /\ owned \in Caches
          /\ req.amount \in Nat /\ req.fee \in Nat /\ MAX \in Nat
      BY BuilderAssumption DEF Chosen
    <2>2. req' = req /\ owned' = owned /\ pc' \in {"failed", "unfunded", "connect"}
      BY <1>1 DEF Begin
    <2>3. Built'
      BY <2>2 DEF Built
    <2>4. CASE req.amount = 0 \/ req.fee = 0 \/ Needed(req) > MAX
      <3>1. pc' = "failed" /\ sel' = <<>>
        BY <1>1, <2>4 DEF Begin
      <3> QED
        BY <2>1, <2>2, <2>3, <3>1 DEF Chosen, Reading
    <2>5. CASE ~(req.amount = 0 \/ req.fee = 0 \/ Needed(req) > MAX)
      <3>1. req.amount > 0 /\ req.fee > 0 /\ Needed(req) <= MAX /\ Needed(req) \in Nat
        BY <2>1, <2>5 DEF Needed
      <3>2. CASE ~Selects(owned, Needed(req))
        <4>1. pc' = "unfunded" /\ sel' = <<>>
          BY <1>1, <2>5, <3>2 DEF Begin
        <4> QED
          BY <2>1, <2>2, <2>3, <3>1, <3>2, <4>1 DEF Chosen, Reading, Needed
      <3>3. CASE Selects(owned, Needed(req))
        <4>1. sel' = Selected(owned, Needed(req)) /\ pc' \in {"failed", "connect"}
          BY <1>1, <2>5, <3>3 DEF Begin
        <4>2. sel' # <<>>
          <5>1. Counts(owned, Needed(req)) # {}
            BY <3>3 DEF Selects
          <5>2. /\ Min(Counts(owned, Needed(req))) \in 1..Len(owned)
                /\ Len(sel') = Min(Counts(owned, Needed(req)))
            BY <2>1, <3>1, <4>1, <5>1, SelectedIsTop
          <5>3. Len(sel') # 0
            BY <2>1, <5>2, CacheTypes
          <5> QED
            BY <5>3
        <4> QED
          BY <2>1, <2>2, <2>3, <3>1, <3>3, <4>1, <4>2 DEF Chosen, Needed
      <3> QED
        BY <3>2, <3>3
    <2> QED
      BY <2>4, <2>5
  <1>2. CASE Connect \/ ReadInfo \/ VerifyOutputs \/ FetchDecoys \/ RpcFails
    <2>1. /\ UNCHANGED <<req, owned, sel>> /\ pc \in Reading
          /\ pc' \in Reading \cup {"build", "failed"}
      BY <1>2 DEF Connect, ReadInfo, VerifyOutputs, FetchDecoys, Tried, RpcFails, input, Reading
    <2> QED
      BY <2>1 DEF Chosen, Built, Reading, Needed
  <1>3. CASE Build
    BY <1>3 DEF Build, input, Chosen, Built, Reading, Needed, Change
  <1>4. CASE Extend \/ \E i \in DOMAIN node.outs : Replace(i)
    BY <1>4 DEF Extend, Replace, input, Chosen, Built, Reading, Needed, Change
  <1>5. CASE UNCHANGED vars
    BY <1>5 DEF vars, input, Chosen, Built, Reading, Needed, Change
  <1> QED
    BY <1>1, <1>2, <1>3, <1>4, <1>5 DEF Next

(* Every input is one of the outputs of the wallet.                        *)
LEMMA InputsOwned ==
  ASSUME NEW o \in Caches, NEW r \in Requests, NEW s,
         s = <<>> \/ (Selects(o, Needed(r)) /\ s = Selected(o, Needed(r)))
  PROVE  /\ Len(s) \in Nat /\ DOMAIN s = 1..Len(s) /\ (s # <<>> => Len(s) > 0)
         /\ \A k \in DOMAIN s : \E j \in 1..Len(o) : s[k] = o[j]
  <1>1. CASE s = <<>>
    BY <1>1
  <1>2. CASE Selects(o, Needed(r)) /\ s = Selected(o, Needed(r))
    <2>1. Needed(r) \in Nat /\ Counts(o, Needed(r)) # {}
      BY <1>2, BuilderAssumption DEF Selects, Needed
    <2>2. /\ Len(s) \in 1..Len(o) /\ DOMAIN s = 1..Len(s)
          /\ \A k \in 1..Len(s) : s[k] = o[Ranked(o)[k]] /\ Ranked(o)[k] \in 1..Len(o)
      BY <1>2, <2>1, SelectedIsTop
    <2>3. Len(o) \in Nat
      BY CacheTypes
    <2>4. Len(s) \in Nat /\ Len(s) > 0
      BY <2>2, <2>3
    <2> QED
      BY <2>2, <2>4
  <1> QED
    BY <1>1, <1>2

(* SelectionIsExact, from what select_inputs takes first.                  *)
LEMMA ChosenExact ==
  ASSUME Chosen
  PROVE  SelectionIsExact
  <1> DEFINE needed == Needed(req)
  <1>1. /\ req.amount \in Nat /\ req.fee \in Nat /\ needed \in Nat /\ owned \in Caches
        /\ needed = req.amount + req.fee
    BY BuilderAssumption DEF Chosen, Needed
  <1>2. ASSUME sel # <<>>, NEW S \in SUBSET DOMAIN owned, Total(owned, S) >= needed
        PROVE  Cardinality(S) >= Len(sel)
    <2>1. Counts(owned, needed) # {} /\ sel = Selected(owned, needed) /\ needed > 0
      BY <1>1, <1>2 DEF Chosen, Selects
    <2>2. Len(sel) = Min(Counts(owned, needed))
      BY <1>1, <2>1, SelectedIsTop
    <2>3. Cardinality(S) >= Min(Counts(owned, needed))
      BY <1>1, <1>2, <2>1, SelectsFewest
    <2> QED
      BY <2>2, <2>3
  <1>3. ASSUME pc = "unfunded"
        PROVE  Total(owned, DOMAIN owned) < needed \/ Total(owned, DOMAIN owned) > MAX
    <2>1. needed > 0 /\ ~Selects(owned, needed)
      BY <1>3 DEF Chosen
    <2> QED
      BY <1>1, <2>1, RefusesRightly
  <1> QED
    BY <1>1, <1>2, <1>3 DEF SelectionIsExact

(* The selected outputs are those of the cache the transaction spends, and *)
(* what is left of them after amount and fee is the change.                *)
LEMMA ChosenConserves ==
  ASSUME Chosen, Built
  PROVE  ValueConserved
  <1> SUFFICES ASSUME pc = "done"
               PROVE  LET ins == {k \in DOMAIN owned : owned[k].index \in tx.ins}
                          outs == FoldLeft(+, 0, tx.outs)
                      IN  /\ Total(owned, ins) = outs + tx.fee
                          /\ outs + tx.fee <= MAX /\ Head(tx.outs) = req.amount
                          /\ \A k \in DOMAIN tx.outs : tx.outs[k] > 0
    BY DEF ValueConserved
  <1> DEFINE needed == Needed(req)
             n == Min(Counts(owned, needed))
             N == Len(owned)
             ins == {k \in DOMAIN owned : owned[k].index \in tx.ins}
             sum == Total(owned, Top(owned, n))
  <1>1. /\ req.amount \in Nat /\ req.fee \in Nat /\ needed \in Nat /\ owned \in Caches
        /\ needed = req.amount + req.fee /\ MAX \in Nat
    BY BuilderAssumption DEF Chosen, Needed
  <1>2. /\ sel = Selected(owned, needed) /\ Selects(owned, needed)
        /\ req.amount > 0 /\ req.fee > 0
    BY DEF Chosen
  <1>3. Counts(owned, needed) # {}
    BY <1>2 DEF Selects
  <1>4. /\ n \in 1..N /\ sum >= needed
        /\ ToSet(SubSeq(Ranked(owned), 1, n)) = Top(owned, n)
    BY <1>1, <1>3, SelectsLeast
  <1>5. /\ DOMAIN sel = 1..n
        /\ \A k \in 1..n : sel[k] = owned[Ranked(owned)[k]] /\ Ranked(owned)[k] \in 1..N
        /\ Total(sel, 1..n) = sum
        /\ Top(owned, n) \in SUBSET (1..N)
    BY <1>1, <1>2, <1>3, SelectedIsTop
  <1>6. sum <= MAX
    BY <1>2, <1>4 DEF Selects
  <1>7. /\ N \in Nat /\ DOMAIN owned = 1..N /\ Valued(owned, 1..N)
        /\ \A j, k \in 1..N : owned[j].index = owned[k].index => j = k
    BY <1>1, CacheTypes
  <1>8. sum \in Nat
    <2>1. IsFiniteSet(1..N)
      BY <1>7, FS_Interval
    <2>2. IsFiniteSet(Top(owned, n)) /\ Valued(owned, Top(owned, n))
      BY <1>5, <1>7, <2>1, FS_Subset DEF Valued
    <2> QED
      BY <2>2, TotalIsNat
  <1>9. /\ tx.ins = {sel[k].index : k \in DOMAIN sel} /\ tx.fee = req.fee
        /\ tx.outs = <<req.amount>> \o (IF Change > 0 THEN <<Change>> ELSE <<>>)
    BY DEF Built
  <1>10. ins = Top(owned, n)
    <2> HIDE DEF n, N
    <2>1. \A k \in 1..N : owned[k].index \in tx.ins <=> \E j \in 1..n : k = Ranked(owned)[j]
      BY <1>5, <1>7, <1>9, SMTT(30)
    <2> QED
      BY <1>5, <1>7, <2>1 DEF Top
  <1> HIDE DEF ins, sum, n, N, needed
  <1>11. Change = sum - needed /\ Change \in Nat
    <2>1. Change = sum - needed
      BY <1>5 DEF Change, needed
    <2> QED
      BY <1>1, <1>4, <1>8, <2>1
  <1>12. Total(owned, ins) = sum
    BY <1>10 DEF sum
  <1>13. CASE Change > 0
    <2>1. tx.outs = <<req.amount, Change>>
      <3> DEFINE a == req.amount
                 c == Change
      <3>1. tx.outs = <<a>> \o <<c>>
        BY <1>9, <1>13
      <3>2. a \in Nat /\ c \in Nat
        BY <1>1, <1>11
      <3> HIDE DEF a, c
      <3>3. <<a>> \o <<c>> = <<a, c>>
        BY <3>2, PairJoins
      <3> QED
        BY <3>1, <3>3 DEF a, c
    <2>2. FoldLeft(+, 0, tx.outs) = req.amount + Change
      <3>1. FoldLeft(+, 0, tx.outs) = Folded(tx.outs)
        BY FoldIsFolded
      <3>2. Folded(tx.outs) = req.amount + Change
        <4>1. Folded(<<req.amount, Change>>) = req.amount + Change
          BY <1>1, <1>11, FoldsPair
        <4> QED
          BY <2>1, <4>1
      <3> QED
        BY <3>1, <3>2
    <2>3. req.amount + Change + tx.fee = sum
      BY <1>1, <1>8, <1>9, <1>11
    <2>4. Head(tx.outs) = req.amount /\ \A k \in DOMAIN tx.outs : tx.outs[k] > 0
      BY <1>2, <1>13, <2>1
    <2> QED
      BY <1>6, <1>12, <2>2, <2>3, <2>4 DEF ins
  <1>14. CASE ~(Change > 0)
    <2>1. tx.outs = <<req.amount>>
      BY <1>9, <1>14
    <2>2. FoldLeft(+, 0, tx.outs) = req.amount
      <3>1. FoldLeft(+, 0, tx.outs) = Folded(tx.outs)
        BY FoldIsFolded
      <3>2. Folded(tx.outs) = req.amount
        BY <1>1, <2>1, FoldsPair
      <3> QED
        BY <3>1, <3>2
    <2>3. req.amount + tx.fee = sum
      BY <1>1, <1>8, <1>9, <1>11, <1>14
    <2>4. Head(tx.outs) = req.amount /\ \A k \in DOMAIN tx.outs : tx.outs[k] > 0
      BY <1>2, <2>1
    <2> QED
      BY <1>6, <1>12, <2>2, <2>3, <2>4 DEF ins
  <1> QED
    BY <1>13, <1>14

-----------------------------------------------------------------------------
(* The rules a network asks for. *)

(* A number divided by another reaches what fits below it.                 *)
LEMMA QuotientReaches ==
  ASSUME NEW a \in Nat, NEW b \in Nat, NEW c \in Nat, b > 0, b * c <= a
  PROVE  a \div b >= c
  <1> DEFINE d == a \div b
  <1>1. d \in Int /\ b * d <= a /\ a < b * (d + 1)
    BY Z3
  <1> HIDE DEF d
  <1>2. ~(d + 1 <= c)
    <2> SUFFICES ASSUME d + 1 <= c PROVE FALSE
      OBVIOUS
    <2>1. b * (d + 1) <= b * c
      BY <1>1, Z3
    <2> QED
      BY <1>1, <2>1, Z3
  <1> QED
    BY <1>1, <1>2 DEF d

(* The parameters of the networks are in range.                            *)
LEMMA TargetTypes ==
  ASSUME NEW mainnet \in BOOLEAN
  PROVE  LET t == Target(mainnet)
         IN  /\ t.span \in Nat /\ t.bands \in {2, 3} /\ t.width \in Nat /\ t.width > 0
             /\ t.active \in Nat /\ t.active > t.span /\ t.active >= 3
             /\ t.bps \in Nat /\ t.ring \in Nat
  BY DEF Target

(* What the chain offers bounds what the adapted rules ask for.            *)
LEMMA RulesFeasible ==
  ASSUME info.tip \in Nat, info.total \in Nat
  PROVE  RulesAreFeasible
  <1> SUFFICES ASSUME info.tip >= Params.active
               PROVE  /\ Params.span < info.tip
                      /\ info.tip \div Params.width + 1 >= Params.bands
                      /\ info.total > 0 => Params.bps <= ((info.total - 1) * 10000) \div info.total
    BY DEF RulesAreFeasible
  <1> DEFINE m == NamedMainnet(info.claim)
             t == Target(m)
             tip == info.tip
             total == info.total
  <1>1. m \in BOOLEAN
    BY DEF NamedMainnet
  <1>2. /\ t.span \in Nat /\ t.bands \in {2, 3} /\ t.width \in Nat /\ t.width > 0
        /\ t.active \in Nat /\ t.active > t.span /\ t.active >= 3
    BY <1>1, TargetTypes
  <1>3. /\ Params.span = Least(t.span, Most(tip - 1, 0))
        /\ Params.bands = t.bands /\ Params.active = t.active
        /\ Params.width = BandWidth(t, tip) /\ Params.bps = IndexBps(t, total)
    BY DEF Params, VreParams
  <1>4. tip \in Nat /\ total \in Nat /\ tip >= t.active
    BY <1>3
  <1> HIDE DEF t, tip, total, m
  <1>5. Params.span < tip
    BY <1>2, <1>3, <1>4 DEF Least, Most
  <1>6. tip \div Params.width + 1 >= Params.bands
    <2> DEFINE q == tip \div t.bands
               w == Params.width
    <2>1. q \in Nat /\ q >= 1 /\ t.bands * q <= tip
      BY <1>2, <1>4
    <2>2. w \in Nat /\ w > 0 /\ w <= q
      <3> HIDE DEF q
      <3>1. BandWidth(t, tip) = Least(t.width, Most(q, 1))
        BY <1>2, <1>4 DEF BandWidth, q
      <3> QED
        BY <1>2, <1>3, <2>1, <3>1 DEF Least, Most
    <2> HIDE DEF q, w
    <2>3. w * t.bands <= tip
      BY <1>2, <1>4, <2>1, <2>2
    <2>4. tip \div w >= t.bands
      BY <1>2, <1>4, <2>2, <2>3, QuotientReaches
    <2>5. tip \div w \in Int
      BY <1>4, <2>2
    <2> QED
      BY <1>2, <1>3, <2>4, <2>5 DEF w
  <1>7. ASSUME total > 0 PROVE Params.bps <= ((total - 1) * 10000) \div total
    <2> DEFINE c == ((total - 1) * 10000) \div total
               e == (t.bps * total * total) \div (total * total + (t.ring * 64) * (t.ring * 64))
    <2>1. CASE total > 1
      <3>1. IndexBps(t, total) = Least(e, c)
        BY <2>1 DEF IndexBps
      <3>2. c \in Int
        BY <1>4, <1>7
      <3>3. e \in Int
        <4>1. t.bps \in Nat /\ t.ring \in Nat
          BY <1>1, TargetTypes DEF t
        <4> DEFINE den == total * total + (t.ring * 64) * (t.ring * 64)
                   num == t.bps * total * total
        <4>2. num \in Nat /\ total * total \in Nat /\ (t.ring * 64) * (t.ring * 64) \in Nat
          BY <1>4, <4>1
        <4>3. total * total > 0
          BY <1>4, <1>7
        <4>4. den \in Nat /\ den > 0
          BY <4>2, <4>3
        <4> HIDE DEF den, num
        <4>5. num \div den \in Int
          BY <4>2, <4>4
        <4> QED
          BY <4>5 DEF num, den
      <3> HIDE DEF c, e
      <3>4. Least(e, c) <= c
        BY <3>2, <3>3 DEF Least
      <3> QED
        BY <1>3, <3>1, <3>4 DEF c
    <2>2. CASE total = 1
      <3>1. IndexBps(t, total) = 0
        BY <2>2 DEF IndexBps
      <3>2. ((total - 1) * 10000) \div total = 0
        BY <2>2
      <3> QED
        BY <1>3, <3>1, <3>2
    <2> QED
      BY <1>4, <1>7, <2>1, <2>2
  <1> QED
    BY <1>5, <1>6, <1>7 DEF tip, total

-----------------------------------------------------------------------------
(* Rings. *)

LEMMA ChoicesChoose ==
  ASSUME NEW Sets, NEW S \in Choices(Sets)
  PROVE  S \subseteq UNION Sets
  <1>1. PICK f \in [Sets -> UNION Sets] : S = Range(f)
    BY DEF Choices
  <1> QED
    BY <1>1 DEF Range

(* An attempt selects candidates, and as many as it was asked for.         *)
LEMMA SelectionCounts ==
  ASSUME NEW C, IsFiniteSet(C), NEW real, NEW count \in Nat, NEW p,
         NEW d \in Selections(C, real, count, p)
  PROVE  d \in SUBSET C /\ IsFiniteSet(d) /\ Cardinality(d) \in Nat /\ Cardinality(d) >= count
  <1> DEFINE top == Max(Heights(C \cup {real}))
             BandOf(m) == Band(top, m.height, p)
             others == {BandOf(c) : c \in C} \ {BandOf(real)}
             young == {b \in others : Cardinality({a \in others : a < b}) < p.bands - 1}
             groups == {{c \in C : BandOf(c) = b} : b \in young}
             Fill(S) == {F \in SUBSET (C \ S) : Cardinality(F) = Most(count - Cardinality(S), 0)}
  <1>1. d \in UNION {{S \cup F : F \in Fill(S)} : S \in Choices(groups)}
    BY DEF Selections
  <1>2. UNION groups \subseteq C
    OBVIOUS
  <1> HIDE DEF groups
  <1>31. PICK S \in Choices(groups) : \E F \in Fill(S) : d = S \cup F
    BY <1>1
  <1>3. PICK F \in SUBSET (C \ S) :
          Cardinality(F) = Most(count - Cardinality(S), 0) /\ d = S \cup F
    BY <1>31
  <1>4. S \in SUBSET C
    BY <1>2, ChoicesChoose
  <1>5. d \in SUBSET C /\ S \cap F = {}
    BY <1>3, <1>4
  <1>6. IsFiniteSet(d) /\ IsFiniteSet(S) /\ IsFiniteSet(F)
    BY <1>3, <1>4, <1>5, FS_Subset
  <1>7. Cardinality(d) = Cardinality(S) + Cardinality(F) - Cardinality(S \cap F)
    BY <1>3, <1>6, FS_Union
  <1>8. Cardinality(S \cap F) = 0
    BY <1>5, FS_EmptySet
  <1>9. Cardinality(d) \in Nat /\ Cardinality(S) \in Nat /\ Cardinality(F) \in Nat
    BY <1>6, FS_CardinalityType
  <1>10. Cardinality(d) >= count
    BY <1>3, <1>7, <1>8, <1>9 DEF Most
  <1> QED
    BY <1>5, <1>6, <1>9, <1>10

(* The node and what it answers from.                                      *)
NodeTyped ==
  /\ node = [claim |-> node.claim, tip |-> node.tip, total |-> node.total,
             outs |-> node.outs]
  /\ node.outs = [i \in DOMAIN node.outs |->
                    [height |-> node.outs[i].height, key |-> node.outs[i].key]]
  /\ node.tip \in Nat /\ node.total \in Nat
  /\ \A i \in DOMAIN node.outs : i \in 0..(node.total - 1) /\ node.outs[i].height \in Nat
  /\ moves \in 0..MaxMoves

(* What the builder knows of it once it has read the chain info.           *)
Informed ==
  /\ info.tip \in Nat /\ info.total \in Nat
  /\ pc \in {"verify", "ring", "build", "done"} =>
       /\ Verified(info.claim) /\ (req.to = "mainnet") = MagicIsMainnet(info.claim)
       /\ info.claim = node.claim
       /\ node.tip - info.tip = node.total - info.total
       /\ DOMAIN node.outs \subseteq 0..(info.total - 1)

(* And once it has compared its inputs.                                    *)
Compared ==
  pc \in {"ring", "build", "done"} =>
    /\ \A k \in DOMAIN sel : sel[k].index \in DOMAIN node.outs
    /\ ~replaced => \A k \in DOMAIN sel : OnChain(sel[k])

(* A ring for input k keeps the rules as the builder knows them.           *)
Spread(k, ring) ==
  Cardinality(ring) > 3 /\ info.total >= 10 =>
    Cardinality({i \div (info.total \div 10) : i \in Indices(ring) \ {sel[k].index}}) > 1
GoodRing(k, ring) ==
  /\ sel[k].index \in Indices(ring)
  /\ Cardinality(Indices(ring)) = Cardinality(ring)
  /\ Cardinality(ring) >= Most(req.ring, 2)
  /\ Indices(ring) \subseteq 0..(info.total - 1)
  /\ Spread(k, ring)
  /\ RingValid(ring, info.total, Params)

Drawn ==
  /\ pc \in Reading \cup {"idle", "build", "failed", "unfunded", "done"}
  /\ attempt \in 0..MaxRetries /\ (pc = "ring" => attempt < MaxRetries)
  /\ replaced \in BOOLEAN
  /\ rings \in Seq(SUBSET [index : Nat, height : Nat])
  /\ pc \in {"idle", "connect", "info", "verify"} => rings = <<>> /\ attempt = 0
  /\ Len(rings) <= Len(sel)
  /\ pc = "ring" => Len(rings) < Len(sel)
  /\ pc \in {"build", "done"} => Len(rings) = Len(sel)
  /\ \A k \in 1..Len(rings) : GoodRing(k, rings[k])

BuilderInv == Chosen /\ Built /\ NodeTyped /\ Informed /\ Compared /\ Drawn

(* Decoys that pass the audit are not all in one tenth of the outputs.     *)
LEMMA AuditSpreads ==
  ASSUME NEW decoys, IsFiniteSet(decoys), NEW total \in Nat,
         Cardinality(decoys) >= 3, total >= 10, AuditPasses(decoys, total)
  PROVE  Cardinality({i \div (total \div 10) : i \in Indices(decoys)}) > 1
  <1> DEFINE tenth == total \div 10
             Cell(i) == i \div tenth
             cells == {Cell(i) : i \in Indices(decoys)}
             n == Cardinality(decoys)
  <1>1. n \in Nat /\ n >= 3
    BY FS_CardinalityType
  <1>2. \A d \in decoys : Cardinality({e \in decoys : Cell(e.index) = Cell(d.index)}) <= DivCeil(n, 2)
    BY <1>1 DEF AuditPasses
  <1>3. DivCeil(n, 2) < n /\ DivCeil(n, 2) \in Int
    <2> HIDE DEF n
    <2> QED BY <1>1 DEF DivCeil
  <1> HIDE DEF tenth
  <1>4. cells = {Cell(d.index) : d \in decoys}
    BY DEF Indices
  <1> HIDE DEF Cell
  <1>5. [d \in decoys |-> Cell(d.index)] \in Surjection(decoys, cells)
    BY <1>4 DEF Surjection
  <1> HIDE DEF cells
  <1>6. IsFiniteSet(cells) /\ Cardinality(cells) \in Nat
    BY <1>5, FS_Surjection, FS_CardinalityType
  <1>7. decoys # {}
    BY <1>1, FS_EmptySet
  <1>8. PICK d \in decoys : TRUE
    BY <1>7
  <1>9. Cell(d.index) \in cells
    BY <1>4
  <1>10. Cardinality(cells) # 0
    BY <1>6, <1>9, FS_EmptySet
  <1>11. Cardinality(cells) # 1
    <2> SUFFICES ASSUME Cardinality(cells) = 1 PROVE FALSE
      OBVIOUS
    <2>1. PICK x : cells = {x}
      BY <1>6, FS_Singleton
    <2>2. \A e \in decoys : Cell(e.index) = Cell(d.index)
      BY <1>4, <2>1
    <2>3. {e \in decoys : Cell(e.index) = Cell(d.index)} = decoys
      BY <2>2
    <2> HIDE DEF n
    <2>4. n <= DivCeil(n, 2)
      BY <1>2, <2>3 DEF n
    <2> QED
      BY <1>1, <1>3, <2>4
  <1>12. Cardinality(cells) > 1
    BY <1>6, <1>10, <1>11
  <1> QED
    BY <1>12 DEF cells, Cell, tenth

(* A ring fetch_decoys accepts keeps the rules; its members differ in their *)
(* index, and the real one is not among the decoys.                        *)
LEMMA RingIsGood ==
  ASSUME Chosen, NodeTyped, Informed, Compared, pc = "ring",
         NEW k \in DOMAIN sel, NEW cands \in SUBSET Candidates(k),
         NEW decoys \in Selections(cands, Real(k), Decoys, Params),
         RingValid(decoys \cup {Real(k)}, info.total, Params),
         AuditPasses(decoys, info.total)
  PROVE  /\ decoys \cup {Real(k)} \in SUBSET [index : Nat, height : Nat]
         /\ GoodRing(k, decoys \cup {Real(k)})
  <1> DEFINE x == sel[k].index
             ring == decoys \cup {Real(k)}
             J == {j \in DOMAIN node.outs : j < info.total /\ j # x}
             at == [j \in J |-> [index |-> j, height |-> node.outs[j].height]]
  <1>1. info.total \in Nat /\ DOMAIN node.outs \subseteq 0..(info.total - 1)
    BY DEF Informed
  <1>2. x \in DOMAIN node.outs /\ x \in 0..(info.total - 1)
    BY <1>1 DEF Compared
  <1>3. sel[k].height \in Nat
    <2>1. owned \in Caches
      BY DEF Chosen
    <2>4. \E j \in 1..Len(owned) : sel[k] = owned[j]
      BY <2>1, InputsOwned DEF Chosen
    <2>5. \A j \in 1..Len(owned) : owned[j].height \in Nat
      BY <2>1, CacheTypes
    <2> QED
      BY <2>4, <2>5
  <1>4. \A j \in DOMAIN node.outs : j \in Nat /\ node.outs[j].height \in Nat
    BY <1>1 DEF NodeTyped
  <1>5. IsFiniteSet(J)
    <2>1. IsFiniteSet(0..(info.total - 1))
      BY <1>1, FS_Interval
    <2> QED
      BY <1>1, <2>1, FS_Subset
  <1>6. Candidates(k) = {at[j] : j \in J}
    BY DEF Candidates
  <1>7. IsFiniteSet(Candidates(k))
    <2>1. at \in Surjection(J, Candidates(k))
      BY <1>6 DEF Surjection
    <2> HIDE DEF at, J
    <2> QED
      BY <1>5, <2>1, FS_Surjection
  <1>8. \A c \in Candidates(k) :
          /\ c.index \in 0..(info.total - 1) /\ c.index # x
          /\ c = [index |-> c.index, height |-> node.outs[c.index].height]
          /\ c \in [index : Nat, height : Nat]
    <2> TAKE c \in Candidates(k)
    <2>1. PICK j \in J : c = [index |-> j, height |-> node.outs[j].height]
      BY <1>6
    <2>2. /\ c.index = j /\ c.height = node.outs[j].height
          /\ j \in DOMAIN node.outs /\ j # x
      BY <2>1
    <2>3. j \in 0..(info.total - 1) /\ j \in Nat /\ node.outs[j].height \in Nat
      BY <1>1, <1>4, <2>2
    <2> HIDE DEF J, x
    <2> QED
      BY <2>1, <2>2, <2>3
  <1>9. Real(k) = [index |-> x, height |-> sel[k].height]
    BY DEF Real
  <1>10. Real(k) \in [index : Nat, height : Nat] /\ Real(k).index = x
    BY <1>2, <1>3, <1>4, <1>9
  <1>11. req.ring \in Nat
    BY BuilderAssumption DEF Chosen
  <1>12. Decoys \in Nat /\ Decoys + 1 = Most(req.ring, 2)
    BY <1>11 DEF Decoys, Most
  <1> HIDE DEF J, at, x
  <1>13. /\ decoys \in SUBSET Candidates(k) /\ IsFiniteSet(decoys)
         /\ Cardinality(decoys) \in Nat /\ Cardinality(decoys) >= Decoys
    <2>1. IsFiniteSet(cands)
      BY <1>7, FS_Subset
    <2>2. /\ decoys \in SUBSET cands /\ IsFiniteSet(decoys)
          /\ Cardinality(decoys) \in Nat /\ Cardinality(decoys) >= Decoys
      BY <1>12, <2>1, SelectionCounts
    <2> QED
      BY <2>2
  <1>14. \A d \in decoys : d.index \in 0..(info.total - 1) /\ d.index # x
    BY <1>8, <1>13
  <1>15. Real(k) \notin decoys
    BY <1>10, <1>14
  <1>16. IsFiniteSet(ring) /\ Cardinality(ring) = Cardinality(decoys) + 1
    BY <1>13, <1>15, FS_AddElement
  <1>17. \A c, d \in ring : c.index = d.index => c = d
    BY <1>8, <1>10, <1>13
  <1>18. /\ Indices(ring) = {c.index : c \in ring}
         /\ Indices(ring) \subseteq 0..(info.total - 1) /\ x \in Indices(ring)
         /\ Indices(ring) \ {x} = Indices(decoys)
    BY <1>2, <1>10, <1>14 DEF Indices
  <1>19. Cardinality(Indices(ring)) = Cardinality(ring)
    <2> HIDE DEF ring
    <2> DEFINE num == [c \in ring |-> c.index]
    <2>1. num \in Surjection(ring, Indices(ring))
      BY <1>18 DEF Surjection
    <2>2. num \in Injection(ring, Indices(ring))
      BY <1>17, <1>18 DEF Injection, IsInjective
    <2> HIDE DEF num
    <2> QED
      BY <1>16, <2>1, <2>2, FS_Surjection
  <1>20. Spread(k, ring)
    <2> SUFFICES ASSUME Cardinality(ring) > 3, info.total >= 10
                 PROVE  Cardinality({i \div (info.total \div 10) :
                                       i \in Indices(ring) \ {sel[k].index}}) > 1
      BY DEF Spread
    <2>1. Cardinality(decoys) >= 3
      BY <1>13, <1>16
    <2>2. Cardinality({i \div (info.total \div 10) : i \in Indices(decoys)}) > 1
      BY <1>1, <1>13, <2>1, AuditSpreads
    <2> QED
      BY <1>18, <2>2 DEF x
  <1>21. Cardinality(ring) >= Most(req.ring, 2)
    BY <1>12, <1>13, <1>16
  <1>22. ring \in SUBSET [index : Nat, height : Nat]
    BY <1>8, <1>10, <1>13
  <1> QED
    BY <1>18, <1>19, <1>20, <1>21, <1>22 DEF GoodRing, x

-----------------------------------------------------------------------------
(* What the other steps leave alone. *)

(* The chain of the node may move: it keeps its outputs, but for the key   *)
(* of one that is replaced, and its tip and its count move together.       *)
LEMMA NodeStep ==
  ASSUME NodeTyped, [Next]_vars
  PROVE  /\ NodeTyped'
         /\ node'.claim = node.claim /\ DOMAIN node'.outs = DOMAIN node.outs
         /\ node'.tip - node.tip = node'.total - node.total
         /\ node'.outs = node.outs \/ replaced'
  <1>1. /\ node.tip \in Nat /\ node.total \in Nat /\ moves \in Nat /\ moves <= MaxMoves
        /\ \A i \in DOMAIN node.outs :
             i \in 0..(node.total - 1) /\ node.outs[i].height \in Nat
        /\ node = [claim |-> node.claim, tip |-> node.tip, total |-> node.total,
                   outs |-> node.outs]
        /\ MaxMoves \in Nat
    BY BuilderAssumption DEF NodeTyped
  <1>2. CASE Extend
    <2>1. /\ node' = [claim |-> node.claim, tip |-> node.tip + 1,
                      total |-> node.total + 1, outs |-> node.outs]
          /\ moves' = moves + 1 /\ moves < MaxMoves
      BY <1>1, <1>2 DEF Extend
    <2>2. \A i \in DOMAIN node.outs : i \in 0..(node.total + 1 - 1)
      BY <1>1
    <2>3. moves' \in 0..MaxMoves
      BY <1>1, <2>1
    <2> QED
      BY <1>1, <2>1, <2>2, <2>3 DEF NodeTyped
  <1>3. ASSUME NEW i \in DOMAIN node.outs, Replace(i)
        PROVE  /\ NodeTyped'
               /\ node'.claim = node.claim /\ DOMAIN node'.outs = DOMAIN node.outs
               /\ node'.tip - node.tip = node'.total - node.total
               /\ node'.outs = node.outs \/ replaced'
    <2> DEFINE outs == [node.outs EXCEPT ![i].key = "replaced"]
    <2>1. /\ node' = [claim |-> node.claim, tip |-> node.tip,
                      total |-> node.total, outs |-> outs]
          /\ moves' = moves + 1 /\ moves < MaxMoves /\ replaced' = TRUE
      BY <1>1, <1>3 DEF Replace
    <2>2. outs = [j \in DOMAIN node.outs |-> [height |-> node.outs[j].height,
                     key |-> IF j = i THEN "replaced" ELSE node.outs[j].key]]
      <3> DEFINE f == node.outs
                 r == node.outs[i]
                 out == [r EXCEPT !.key = "replaced"]
      <3>1. \A j \in DOMAIN f : f[j] = [height |-> f[j].height, key |-> f[j].key]
        BY DEF NodeTyped
      <3>2. r = [height |-> r.height, key |-> r.key]
        BY <3>1
      <3>3. out = [height |-> r.height, key |-> "replaced"]
        <4> HIDE DEF r
        <4> QED BY <3>2
      <3>4. outs = [j \in DOMAIN f |-> IF j = i THEN out ELSE f[j]]
        OBVIOUS
      <3> HIDE DEF out, f, outs
      <3>5. \A j \in DOMAIN f : (IF j = i THEN out ELSE f[j]) =
              [height |-> f[j].height, key |-> IF j = i THEN "replaced" ELSE f[j].key]
        BY <3>1, <3>3 DEF f
      <3> QED
        BY <3>4, <3>5 DEF f
    <2>3. /\ DOMAIN outs = DOMAIN node.outs
          /\ \A j \in DOMAIN outs : outs[j].height = node.outs[j].height
          /\ outs = [j \in DOMAIN outs |-> [height |-> outs[j].height, key |-> outs[j].key]]
      <3> HIDE DEF outs
      <3> QED BY <2>2
    <2>4. moves' \in 0..MaxMoves
      BY <1>1, <2>1
    <2> HIDE DEF outs
    <2> QED
      BY <1>1, <2>1, <2>2, <2>3, <2>4 DEF NodeTyped
  <1>4. CASE UNCHANGED <<node, moves>>
    BY <1>1, <1>4 DEF NodeTyped
  <1>5. Extend \/ (\E i \in DOMAIN node.outs : Replace(i)) \/ UNCHANGED <<node, moves>>
    BY DEF Next, Begin, Connect, ReadInfo, VerifyOutputs, FetchDecoys, Build, RpcFails, vars
  <1> QED
    BY <1>2, <1>3, <1>4, <1>5

(* The chain info stays that of a verified node, and the chain only grows  *)
(* past it.                                                                *)
LEMMA InformedStep ==
  ASSUME NodeTyped, Informed, [Next]_vars
  PROVE  Informed'
  <1>1. CASE ReadInfo
    <2>1. /\ info' = [claim |-> node.claim, tip |-> node.tip, total |-> node.total]
          /\ node' = node /\ req' = req
      BY <1>1 DEF ReadInfo, input
    <2>2. /\ node.tip \in Nat /\ node.total \in Nat
          /\ DOMAIN node.outs \subseteq 0..(node.total - 1)
      BY DEF NodeTyped
    <2>3. pc' \in {"verify", "ring", "build", "done"} =>
            Verified(node.claim) /\ (req.to = "mainnet") = MagicIsMainnet(node.claim)
      BY <1>1 DEF ReadInfo
    <2>4. /\ info'.claim = node.claim /\ info'.tip = node.tip /\ info'.total = node.total
      BY <2>1
    <2>5. node'.tip - info'.tip = node'.total - info'.total
      BY <2>1, <2>2, <2>4
    <2> QED
      BY <2>1, <2>2, <2>3, <2>4, <2>5 DEF Informed
  <1>2. CASE ~ReadInfo
    <2>1. /\ info' = info /\ req' = req
          /\ pc' \in {"verify", "ring", "build", "done"} =>
               pc \in {"verify", "ring", "build", "done"}
      BY <1>2 DEF Next, Begin, Connect, VerifyOutputs, FetchDecoys, Tried, Build, RpcFails,
                  Extend, Replace, vars, input
    <2>2. /\ node'.claim = node.claim /\ DOMAIN node'.outs = DOMAIN node.outs
          /\ node'.tip - node.tip = node'.total - node.total
          /\ node'.tip \in Nat /\ node'.total \in Nat /\ node.tip \in Nat /\ node.total \in Nat
      <3>1. NodeTyped'
        BY NodeStep
      <3> QED
        BY <3>1, NodeStep DEF NodeTyped
    <2>3. info.tip \in Nat /\ info.total \in Nat
      BY DEF Informed
    <2>4. node.tip - info.tip = node.total - info.total =>
            node'.tip - info.tip = node'.total - info.total
      <3> DEFINE t == node.tip
                 n == node.total
                 t1 == node'.tip
                 n1 == node'.total
                 a == info.tip
                 b == info.total
      <3>1. /\ t \in Nat /\ n \in Nat /\ t1 \in Nat /\ n1 \in Nat /\ a \in Nat /\ b \in Nat
            /\ t1 - t = n1 - n
        BY <2>2, <2>3
      <3> HIDE DEF t, n, t1, n1, a, b
      <3>2. t - a = n - b => t1 - a = n1 - b
        BY <3>1
      <3> QED
        BY <3>2 DEF t, n, t1, n1, a, b
    <2> QED
      BY <2>1, <2>2, <2>3, <2>4 DEF Informed
  <1> QED
    BY <1>1, <1>2

(* Inputs once compared stay as they were, unless a block is replaced.     *)
LEMMA ComparedStep ==
  ASSUME NodeTyped, Compared, [Next]_vars
  PROVE  Compared'
  <1>1. DOMAIN node'.outs = DOMAIN node.outs /\ (node'.outs = node.outs \/ replaced')
    BY NodeStep
  <1>2. CASE VerifyOutputs
    <2>1. node' = node /\ sel' = sel /\ (pc' = "ring" => \A k \in DOMAIN sel : OnChain(sel[k]))
          /\ pc' \in {"ring", "failed"}
      BY <1>2 DEF VerifyOutputs, input
    <2> QED
      BY <2>1 DEF Compared, OnChain
  <1>3. CASE ~VerifyOutputs
    <2>1. /\ pc' \in {"ring", "build", "done"} => pc \in {"ring", "build", "done"} /\ sel' = sel
          /\ replaced => replaced'
      BY <1>3 DEF Next, Begin, Connect, ReadInfo, FetchDecoys, Tried, Build, RpcFails,
                  Extend, Replace, vars, input
    <2>2. CASE node'.outs = node.outs
      BY <2>1, <2>2 DEF Compared, OnChain
    <2>3. CASE replaced'
      BY <1>1, <2>1, <2>3 DEF Compared, OnChain
    <2> QED
      BY <1>1, <2>2, <2>3
  <1> QED
    BY <1>2, <1>3

(* One attempt adds a ring that keeps the rules, or none.                  *)
LEMMA DrawStep ==
  ASSUME Chosen, NodeTyped, Informed, Compared, Drawn, FetchDecoys
  PROVE  Drawn'
  <1>1. /\ pc = "ring" /\ attempt \in Nat /\ attempt < MaxRetries
        /\ MaxRetries \in Nat /\ MaxRetries > 0
        /\ replaced \in BOOLEAN /\ rings \in Seq(SUBSET [index : Nat, height : Nat])
        /\ Len(rings) < Len(sel) /\ \A k \in 1..Len(rings) : GoodRing(k, rings[k])
    BY BuilderAssumption DEF FetchDecoys, Drawn
  <1>2. UNCHANGED <<node, req, owned, sel, info, replaced>>
    BY DEF FetchDecoys, input
  <1>4. DOMAIN sel = 1..Len(sel) /\ Len(sel) \in Nat
    BY InputsOwned DEF Chosen
  <1>3. rings' = rings =>
          (\A k \in 1..Len(rings) : GoodRing(k, rings[k]))'
    BY <1>1, <1>2 DEF GoodRing, Spread, Params
  <1> DEFINE k == Len(rings) + 1
  <1>5. k \in DOMAIN sel /\ k \in Nat /\ Len(rings) \in Nat
    BY <1>1, <1>4
  <1>6. PICK cands \in SUBSET Candidates(k) :
          \/ Tried
          \/ \E decoys \in Selections(cands, Real(k), Decoys, Params) :
               IF ~RingValid(decoys \cup {Real(k)}, info.total, Params)
               THEN Tried
               ELSE IF ~AuditPasses(decoys, info.total)
               THEN pc' = "failed" /\ UNCHANGED <<rings, attempt>>
               ELSE /\ rings' = Append(rings, decoys \cup {Real(k)})
                    /\ attempt' = 0
                    /\ pc' = IF k = Len(sel) THEN "build" ELSE "ring"
    BY DEF FetchDecoys
  <1>7. CASE Tried
    <2>1. /\ rings' = rings /\ attempt' \in 0..MaxRetries /\ pc' \in {"failed", "ring"}
          /\ pc' = "ring" => attempt' < MaxRetries
      BY <1>1, <1>7 DEF Tried
    <2> QED
      BY <1>1, <1>2, <1>3, <2>1 DEF Drawn, Reading
  <1>8. CASE pc' = "failed" /\ UNCHANGED <<rings, attempt>>
    BY <1>1, <1>2, <1>3, <1>8 DEF Drawn, Reading
  <1>9. ASSUME NEW ring, ring \in SUBSET [index : Nat, height : Nat], GoodRing(k, ring),
               rings' = Append(rings, ring), attempt' = 0,
               pc' = IF k = Len(sel) THEN "build" ELSE "ring"
        PROVE  Drawn'
    <2>1. rings' \in Seq(SUBSET [index : Nat, height : Nat]) /\ Len(rings') = k
          /\ rings'[k] = ring /\ \A j \in 1..Len(rings) : rings'[j] = rings[j]
      <3> DEFINE T == SUBSET [index : Nat, height : Nat]
      <3>1. rings \in Seq(T) /\ ring \in T
        BY <1>1, <1>9
      <3> HIDE DEF T
      <3>2. /\ Append(rings, ring) \in Seq(T) /\ Len(Append(rings, ring)) = Len(rings) + 1
            /\ Append(rings, ring)[Len(rings) + 1] = ring
            /\ \A j \in 1..Len(rings) : Append(rings, ring)[j] = rings[j]
        BY <3>1
      <3> QED
        BY <1>9, <3>2 DEF T
    <2>2. \A j \in 1..k : GoodRing(j, rings'[j])
      <3> TAKE j \in 1..k
      <3>1. CASE j = k
        BY <1>9, <2>1, <3>1
      <3>2. CASE j # k
        <4>1. j \in 1..Len(rings)
          BY <1>5, <3>2
        <4> QED
          BY <1>1, <2>1, <4>1
      <3> QED
        BY <3>1, <3>2
    <2>3. (\A j \in 1..Len(rings) : GoodRing(j, rings[j]))'
      <3> HIDE DEF k
      <3>1. \A j \in 1..Len(rings') : GoodRing(j, rings'[j])
        BY <2>1, <2>2
      <3> QED
        BY <1>2, <3>1 DEF GoodRing, Spread, Params
    <2>4. /\ pc' \in {"build", "ring"} /\ k <= Len(sel)
          /\ pc' = "ring" => k < Len(sel)
          /\ pc' = "build" => k = Len(sel)
      <3> DEFINE n == Len(sel)
                 l == Len(rings)
      <3>1. l \in Nat /\ n \in Nat /\ l < n
        BY <1>1, <1>4, <1>5
      <3> HIDE DEF n, l
      <3>2. l + 1 <= n /\ (l + 1 # n => l + 1 < n)
        BY <3>1
      <3>3. k <= n /\ (k # n => k < n)
        BY <3>2 DEF l
      <3> QED
        BY <1>9, <3>3 DEF n
    <2>5. attempt' \in 0..MaxRetries /\ attempt' < MaxRetries
      BY <1>1, <1>9
    <2> HIDE DEF k
    <2>6. Len(rings') <= Len(sel)' /\ (pc' = "ring" => Len(rings') < Len(sel)')
          /\ (pc' = "build" => Len(rings') = Len(sel)')
      BY <1>2, <2>1, <2>4
    <2>7. replaced' \in BOOLEAN /\ pc' \in {"build", "ring"}
      BY <1>1, <1>2, <2>4
    <2> QED
      BY <2>1, <2>3, <2>5, <2>6, <2>7 DEF Drawn, Reading
  <1>10. CASE \E decoys \in Selections(cands, Real(k), Decoys, Params) :
                /\ RingValid(decoys \cup {Real(k)}, info.total, Params)
                /\ AuditPasses(decoys, info.total)
                /\ rings' = Append(rings, decoys \cup {Real(k)})
                /\ attempt' = 0
                /\ pc' = IF k = Len(sel) THEN "build" ELSE "ring"
    <2>1. PICK decoys \in Selections(cands, Real(k), Decoys, Params) :
                /\ RingValid(decoys \cup {Real(k)}, info.total, Params)
                /\ AuditPasses(decoys, info.total)
                /\ rings' = Append(rings, decoys \cup {Real(k)})
                /\ attempt' = 0
                /\ pc' = IF k = Len(sel) THEN "build" ELSE "ring"
      BY <1>10
    <2> HIDE DEF k
    <2>2. /\ decoys \cup {Real(k)} \in SUBSET [index : Nat, height : Nat]
          /\ GoodRing(k, decoys \cup {Real(k)})
      BY <1>1, <1>5, <1>6, <2>1, RingIsGood
    <2> QED
      BY <1>9, <2>1, <2>2
  <1> HIDE DEF k
  <1> QED
    BY <1>6, <1>7, <1>8, <1>10

(* Rings drawn so far keep the rules, for they were checked when drawn.    *)
LEMMA DrawnStep ==
  ASSUME Chosen, NodeTyped, Informed, Compared, Drawn, Chosen', [Next]_vars
  PROVE  Drawn'
  <1>1. /\ rings \in Seq(SUBSET [index : Nat, height : Nat])
        /\ attempt \in 0..MaxRetries /\ replaced \in BOOLEAN
        /\ MaxRetries \in Nat /\ MaxRetries > 0 /\ 0 \in 0..MaxRetries
    BY BuilderAssumption DEF Drawn
  <1>2. Len(sel') \in Nat /\ (sel' # <<>> => Len(sel') > 0)
    BY InputsOwned DEF Chosen
  <1>3. ASSUME rings = <<>>, attempt = 0, rings' = rings, attempt' = attempt,
               replaced' \in BOOLEAN,
               pc' \in Reading \cup {"failed", "unfunded"}
        PROVE  Drawn'
    <2>1. Len(rings') = 0 /\ 1..Len(rings') = {} /\ Len(rings') <= Len(sel')
      BY <1>2, <1>3
    <2>2. pc' = "ring" => sel' # <<>>
      BY DEF Chosen, Reading
    <2>3. pc' = "ring" => Len(rings') < Len(sel') /\ attempt' < MaxRetries
      BY <1>1, <1>2, <1>3, <2>1, <2>2
    <2>4. (\A k \in 1..Len(rings) : GoodRing(k, rings[k]))'
      BY <2>1
    <2>5. pc' \notin {"build", "done"}
      BY <1>3 DEF Reading
    <2> QED
      BY <1>1, <1>3, <2>1, <2>3, <2>4, <2>5 DEF Drawn
  <1>4. CASE Begin
    <2>1. /\ rings = <<>> /\ attempt = 0 /\ rings' = rings /\ attempt' = attempt
          /\ replaced' = replaced /\ pc' \in {"failed", "unfunded", "connect"}
      BY <1>4 DEF Begin, Drawn
    <2> QED
      BY <1>1, <1>3, <2>1 DEF Reading
  <1>5. CASE Connect
    <2>1. /\ rings = <<>> /\ attempt = 0 /\ rings' = rings /\ attempt' = attempt
          /\ replaced' = replaced /\ pc' \in {"failed", "info"}
      BY <1>5 DEF Connect, Drawn
    <2> QED
      BY <1>1, <1>3, <2>1 DEF Reading
  <1>6. CASE ReadInfo
    <2>1. /\ rings = <<>> /\ attempt = 0 /\ rings' = rings /\ attempt' = attempt
          /\ replaced' = replaced /\ pc' \in {"failed", "verify"}
      BY <1>6 DEF ReadInfo, Drawn
    <2> QED
      BY <1>1, <1>3, <2>1 DEF Reading
  <1>7. CASE VerifyOutputs
    <2>1. /\ rings = <<>> /\ attempt = 0 /\ rings' = rings /\ attempt' = attempt
          /\ replaced' = FALSE /\ pc' \in {"failed", "ring"}
      BY <1>7 DEF VerifyOutputs, Drawn
    <2> QED
      BY <1>1, <1>3, <2>1 DEF Reading
  <1>8. CASE Build \/ RpcFails \/ Extend \/ (\E i \in DOMAIN node.outs : Replace(i)) \/ UNCHANGED vars
    <2>1. /\ UNCHANGED <<req, owned, sel, info, rings, attempt>>
          /\ replaced' \in BOOLEAN
          /\ pc' = pc \/ pc' = "failed" \/ (pc = "build" /\ pc' = "done")
      BY <1>1, <1>8 DEF Build, RpcFails, Extend, Replace, vars, input
    <2>2. (\A k \in 1..Len(rings) : GoodRing(k, rings[k]))'
      <3>1. \A k \in 1..Len(rings) : GoodRing(k, rings[k])
        BY DEF Drawn
      <3>2. Params' = Params
        BY <2>1 DEF Params
      <3>3. \A k, ring : Spread(k, ring)' <=> Spread(k, ring)
        BY <2>1 DEF Spread
      <3>4. \A k, ring : GoodRing(k, ring)' <=> GoodRing(k, ring)
        BY <2>1, <3>2, <3>3 DEF GoodRing
      <3> QED
        BY <2>1, <3>1, <3>4
    <2> QED
      BY <1>1, <2>1, <2>2 DEF Drawn, Reading
  <1>9. CASE FetchDecoys
    BY <1>9, DrawStep
  <1> QED
    BY <1>4, <1>5, <1>6, <1>7, <1>8, <1>9 DEF Next

-----------------------------------------------------------------------------
LEMMA BuilderStarts ==
  ASSUME Init
  PROVE  BuilderInv
  <1>1. /\ node \in Nodes /\ moves = 0 /\ pc = "idle" /\ sel = <<>>
        /\ info = [claim |-> node.claim, tip |-> 0, total |-> 0]
        /\ rings = <<>> /\ attempt = 0 /\ replaced = FALSE
        /\ req \in Requests /\ owned \in Caches
    BY DEF Init
  <1>2. Chosen /\ Built /\ Compared
    BY <1>1 DEF Chosen, Built, Compared, Reading
  <1>3. NodeTyped
    <2> DEFINE Out == [height : Nat, key : STRING]
    <2>1. /\ node \in [claim : {node.claim}, tip : Nat, total : Nat,
                       outs : [DOMAIN node.outs -> Out]]
          /\ DOMAIN node.outs \subseteq 0..(node.total - 1)
      BY <1>1, NodeAssumption
    <2>2. /\ node = [claim |-> node.claim, tip |-> node.tip, total |-> node.total,
                     outs |-> node.outs]
          /\ node.tip \in Nat /\ node.total \in Nat
          /\ node.outs \in [DOMAIN node.outs -> Out]
      BY <2>1
    <2>3. \A i \in DOMAIN node.outs : node.outs[i] \in Out
      <3> HIDE DEF Out
      <3> QED BY <2>2
    <2>4. \A i \in DOMAIN node.outs :
            /\ node.outs[i].height \in Nat
            /\ node.outs[i] = [height |-> node.outs[i].height, key |-> node.outs[i].key]
      BY <2>3
    <2>5. node.outs = [i \in DOMAIN node.outs |-> node.outs[i]]
      <3> HIDE DEF Out
      <3> QED BY <2>2
    <2>6. node.outs = [i \in DOMAIN node.outs |->
                        [height |-> node.outs[i].height, key |-> node.outs[i].key]]
      BY <2>4, <2>5
    <2>7. moves \in 0..MaxMoves
      BY <1>1, BuilderAssumption
    <2> QED
      BY <2>1, <2>2, <2>4, <2>6, <2>7 DEF NodeTyped
  <1>4. Informed
    BY <1>1 DEF Informed
  <1>5. Drawn
    <2>1. /\ rings \in Seq(SUBSET [index : Nat, height : Nat]) /\ Len(rings) = 0
          /\ 1..Len(rings) = {} /\ Len(rings) <= Len(sel)
      BY <1>1
    <2>2. attempt \in 0..MaxRetries
      BY <1>1, BuilderAssumption
    <2> QED
      BY <1>1, <2>1, <2>2 DEF Drawn
  <1> QED
    BY <1>2, <1>3, <1>4, <1>5 DEF BuilderInv

(* The parts together.                                                     *)
LEMMA BuilderStep ==
  ASSUME BuilderInv, [Next]_vars
  PROVE  BuilderInv'
  <1>1. Chosen' /\ Built'
    BY ChosenStep DEF BuilderInv
  <1>2. NodeTyped'
    BY NodeStep DEF BuilderInv
  <1>3. Informed' /\ Compared'
    BY InformedStep, ComparedStep DEF BuilderInv
  <1>4. Drawn'
    BY <1>1, DrawnStep DEF BuilderInv
  <1> QED
    BY <1>1, <1>2, <1>3, <1>4 DEF BuilderInv

(* At every step of a build, with the chain moving under it: the inputs    *)
(* are those select_inputs chose, the chain info is that of a verified     *)
(* node and of the recipient's network, the inputs were compared with the  *)
(* node's outputs, and the rings so far keep the rules.                    *)
THEOREM BuilderInvariant == Spec => []BuilderInv
  <1>1. Init => BuilderInv
    BY BuilderStarts
  <1>2. BuilderInv /\ [Next]_vars => BuilderInv'
    BY BuilderStep
  <1> QED
    BY <1>1, <1>2, PTL DEF Spec

(* Every variable holds a value of its type; what is selected was owned.   *)
THEOREM BuilderTypeCorrect == Spec => []TypeOK
  <1>1. BuilderInv => TypeOK
    <2> SUFFICES ASSUME BuilderInv PROVE TypeOK
      OBVIOUS
    <2>1. ToSet(sel) \subseteq ToSet(owned)
      <3>1. /\ owned \in Caches /\ req \in Requests
            /\ sel = <<>> \/ (Selects(owned, Needed(req)) /\ sel = Selected(owned, Needed(req)))
        BY DEF BuilderInv, Chosen
      <3>2. \A k \in DOMAIN sel : \E j \in 1..Len(owned) : sel[k] = owned[j]
        BY <3>1, InputsOwned
      <3>3. DOMAIN owned = 1..Len(owned)
        BY <3>1, CacheTypes
      <3> QED
        BY <3>2, <3>3 DEF ToSet
    <2> QED
      BY <2>1 DEF BuilderInv, TypeOK, Chosen, NodeTyped, Drawn
  <1> QED
    BY <1>1, BuilderInvariant, PTL

(* select_inputs takes the fewest outputs that pay, whatever the wallet    *)
(* holds, and refuses only what it cannot pay or cannot add up.            *)
THEOREM SelectionExact == Spec => []SelectionIsExact
  <1>1. BuilderInv => SelectionIsExact
    BY ChosenExact DEF BuilderInv
  <1> QED
    BY <1>1, BuilderInvariant, PTL

(* A finished transaction spends exactly what it pays, and no sum in it    *)
(* leaves the range of a u64.                                              *)
THEOREM TransactionConserves == Spec => []ValueConserved
  <1>1. BuilderInv => ValueConserved
    BY ChosenConserves DEF BuilderInv
  <1> QED
    BY <1>1, BuilderInvariant, PTL

(* A finished transaction spends outputs the node has, as the wallet       *)
(* remembers them, unless one was replaced after they were compared.       *)
THEOREM InputsAreOnChain == Spec => []InputsOnChain
  <1>1. BuilderInv => InputsOnChain
    BY DEF BuilderInv, Compared, InputsOnChain, OnChain
  <1> QED
    BY <1>1, BuilderInvariant, PTL

(* Address, magic and name agree on the network of a transaction.          *)
THEOREM NetworkIsOne == Spec => []OneNetwork
  <1>1. BuilderInv => OneNetwork
    <2> SUFFICES ASSUME BuilderInv, pc = "done" PROVE OneNetwork
      BY DEF OneNetwork
    <2>1. Verified(info.claim) /\ (req.to = "mainnet") = MagicIsMainnet(info.claim)
      BY DEF BuilderInv, Informed
    <2>2. MagicIsMainnet(info.claim) <=> NamedMainnet(info.claim)
      BY <2>1 DEF Verified, MagicIsMainnet, NamedMainnet, NetworkMagic
    <2>3. info.claim.genesis = info.claim.network
      BY <2>1 DEF Verified
    <2>4. MagicIsMainnet(info.claim) = NamedMainnet(info.claim)
      BY <2>2 DEF MagicIsMainnet, NamedMainnet
    <2> QED
      BY <2>1, <2>3, <2>4 DEF OneNetwork
  <1> QED
    BY <1>1, BuilderInvariant, PTL

(* The rings of a finished transaction keep the rules.                     *)
THEOREM RingsKeepTheRules == Spec => []RingsKeepRules
  <1>1. BuilderInv => RingsKeepRules
    <2> SUFFICES ASSUME BuilderInv, pc = "done" PROVE RingsKeepRules
      BY DEF RingsKeepRules
    <2>1. /\ Len(rings) = Len(sel)
          /\ \A k \in 1..Len(rings) : GoodRing(k, rings[k])
          /\ DOMAIN rings = 1..Len(rings)
      BY DEF BuilderInv, Drawn
    <2>2. info.tip = node.tip => node.total = info.total
      <3>1. /\ node.tip - info.tip = node.total - info.total
            /\ node.tip \in Nat /\ node.total \in Nat /\ info.tip \in Nat /\ info.total \in Nat
        BY DEF BuilderInv, Informed, NodeTyped
      <3> QED
        BY <3>1
    <2>3. info.tip = node.tip =>
            Params = VreParams(NamedMainnet(node.claim), node.tip, node.total)
      BY <2>2 DEF BuilderInv, Informed, Params
    <2> QED
      BY <2>1, <2>2, <2>3 DEF RingsKeepRules, GoodRing, Spread
  <1> QED
    BY <1>1, BuilderInvariant, PTL

(* The rules of a network can be met from its activation height on.        *)
THEOREM RulesCanBeMet == Spec => []RulesAreFeasible
  <1>1. BuilderInv => RulesAreFeasible
    BY RulesFeasible DEF BuilderInv, Informed
  <1> QED
    BY <1>1, BuilderInvariant, PTL
=============================================================================
