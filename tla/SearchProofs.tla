---------------------------- MODULE SearchProofs ----------------------------
(***************************************************************************)
(* Theorems about searching.                                               *)
(*                                                                         *)
(* The graph of Hnsw stays sound, and a search of it finds what it should, *)
(* for any vectors and any score, any number of points, neighbours and     *)
(* layers.  A search of a collection answers what it must, for any points, *)
(* filters, indexes and requests, any number of segments, and any history  *)
(* of writes, flushes and replacements.                                    *)
(*                                                                         *)
(* Both keep the first few of a set in a strict order: those lemmas come   *)
(* first.                                                                  *)
(***************************************************************************)
EXTENDS Search, Hnsw, SegmentsProofs, FiniteSetTheorems

-----------------------------------------------------------------------------
(***************************************************************************)
(* The first k of a finite set in a strict order, which is what a window,  *)
(* a heap and an answer hold.  The order is a set of pairs.                *)
(***************************************************************************)
Orders(R, S) ==
  /\ IsFiniteSet(S)
  /\ \A p, q \in S : p # q => <<p, q>> \in R \/ <<q, p>> \in R
  /\ \A p \in S : <<p, p>> \notin R
  /\ \A p, q, r \in S : <<p, q>> \in R /\ <<q, r>> \in R => <<p, r>> \in R

Ahead(R, S, p) == {q \in S : <<q, p>> \in R}

FirstOf(R, S, k) == {p \in S : Cardinality(Ahead(R, S, p)) < k}

LEMMA OrdersPart ==
  ASSUME NEW R, NEW S, Orders(R, S), NEW T \in SUBSET S
  PROVE  Orders(R, T)
<1>1. IsFiniteSet(T)
  BY FS_Subset DEF Orders
<1> QED BY <1>1 DEF Orders

LEMMA AheadIsFinite ==
  ASSUME NEW R, NEW S, Orders(R, S), NEW p \in S
  PROVE  /\ IsFiniteSet(Ahead(R, S, p)) /\ Cardinality(Ahead(R, S, p)) \in Nat
         /\ Cardinality(S) \in Nat
         /\ Cardinality(Ahead(R, S, p)) < Cardinality(S)
<1>1. IsFiniteSet(S) /\ Ahead(R, S, p) \in SUBSET S /\ p \notin Ahead(R, S, p)
  BY DEF Orders, Ahead
<1>2. IsFiniteSet(Ahead(R, S, p)) /\ Cardinality(Ahead(R, S, p)) \in Nat /\ Cardinality(S) \in Nat
  BY <1>1, FS_Subset, FS_CardinalityType
<1>3. Cardinality(Ahead(R, S, p)) <= Cardinality(S) /\ Cardinality(Ahead(R, S, p)) # Cardinality(S)
  BY <1>1, FS_Subset
<1> QED BY <1>2, <1>3

\* Who comes first has less before him.
LEMMA AheadGrows ==
  ASSUME NEW R, NEW S, Orders(R, S), NEW p \in S, NEW q \in S, <<p, q>> \in R
  PROVE  /\ Ahead(R, S, p) \subseteq Ahead(R, S, q)
         /\ Cardinality(Ahead(R, S, p)) < Cardinality(Ahead(R, S, q))
<1>1. Ahead(R, S, p) \subseteq Ahead(R, S, q) /\ p \in Ahead(R, S, q) /\ p \notin Ahead(R, S, p)
  BY DEF Orders, Ahead
<1>2. /\ IsFiniteSet(Ahead(R, S, q))
      /\ Cardinality(Ahead(R, S, p)) \in Nat /\ Cardinality(Ahead(R, S, q)) \in Nat
  BY AheadIsFinite
<1>3. /\ Cardinality(Ahead(R, S, p)) <= Cardinality(Ahead(R, S, q))
      /\ Cardinality(Ahead(R, S, p)) # Cardinality(Ahead(R, S, q))
  BY <1>1, <1>2, FS_Subset
<1> QED BY <1>1, <1>2, <1>3

\* In a set that is not empty one is before all others.
LEMMA FirstExists ==
  ASSUME NEW R, NEW S, Orders(R, S), S # {}
  PROVE  \E p \in S : \A q \in S \ {p} : <<p, q>> \in R
<1> DEFINE T == {Cardinality(Ahead(R, S, p)) : p \in S}
<1>1. T \in SUBSET Nat /\ T # {}
  BY AheadIsFinite
<1>2. PICK n \in T : \A m \in T : n <= m
  <2> HIDE DEF T
  <2> QED BY <1>1, LeastNat
<1>3. PICK p \in S : n = Cardinality(Ahead(R, S, p))
  BY <1>2
<1>4. ASSUME NEW q \in S \ {p} PROVE <<p, q>> \in R
  <2>1. CASE <<q, p>> \in R
    <3>1. Cardinality(Ahead(R, S, q)) < n
      BY <2>1, <1>3, AheadGrows
    <3>2. Cardinality(Ahead(R, S, q)) \in T
      OBVIOUS
    <3>3. n \in Nat /\ Cardinality(Ahead(R, S, q)) \in Nat
      BY <1>3, AheadIsFinite
    <3> QED BY <3>1, <3>2, <3>3, <1>2
  <2> QED BY <2>1 DEF Orders
<1> QED BY <1>4

Reversed(R, S) == {pair \in S \X S : <<pair[2], pair[1]>> \in R}

LEMMA LastExists ==
  ASSUME NEW R, NEW S, Orders(R, S), S # {}
  PROVE  \E p \in S : \A q \in S \ {p} : <<q, p>> \in R
<1>1. \A p, q \in S : <<p, q>> \in Reversed(R, S) <=> <<q, p>> \in R
  BY DEF Reversed
<1>2. Orders(Reversed(R, S), S)
  BY <1>1 DEF Orders
<1>3. PICK p \in S : \A q \in S \ {p} : <<p, q>> \in Reversed(R, S)
  BY <1>2, FirstExists
<1> QED BY <1>1, <1>3

\* The place of each in the order.
LEMMA PlacesAreTheirOwn ==
  ASSUME NEW R, NEW S, Orders(R, S)
  PROVE  LET place == [p \in S |-> Cardinality(Ahead(R, S, p))]
         IN  /\ place \in Injection(S, 0 .. Cardinality(S) - 1)
             /\ \A i \in 0 .. Cardinality(S) - 1 : \E p \in S : place[p] = i
             /\ \A p, q \in S : place[p] = place[q] => p = q
<1> DEFINE place == [p \in S |-> Cardinality(Ahead(R, S, p))]
           n == Cardinality(S)
<1>1. n \in Nat /\ IsFiniteSet(S)
  BY FS_CardinalityType DEF Orders
<1>2. \A p \in S : Cardinality(Ahead(R, S, p)) \in 0 .. n - 1
  BY AheadIsFinite
<1>3. \A p, q \in S : Cardinality(Ahead(R, S, p)) = Cardinality(Ahead(R, S, q)) => p = q
  <2> SUFFICES ASSUME NEW p \in S, NEW q \in S, p # q
               PROVE  Cardinality(Ahead(R, S, p)) # Cardinality(Ahead(R, S, q))
    OBVIOUS
  <2>1. <<p, q>> \in R \/ <<q, p>> \in R
    BY DEF Orders
  <2>2. Cardinality(Ahead(R, S, p)) \in Nat /\ Cardinality(Ahead(R, S, q)) \in Nat
    BY AheadIsFinite
  <2> QED BY <2>1, <2>2, AheadGrows
<1>4. place \in [S -> 0 .. n - 1]
  BY <1>2
<1>5. \A p, q \in S : place[p] = place[q] => p = q
  BY <1>3
<1> HIDE DEF place, n
<1>6. place \in Injection(S, 0 .. n - 1)
  <2>1. DOMAIN place = S
    BY <1>4
  <2> QED BY <1>4, <1>5, <2>1 DEF Injection, IsInjective
<1>7. IsFiniteSet(0 .. n - 1) /\ Cardinality(0 .. n - 1) = n
  BY <1>1, FS_Interval
<1>8. place \in Surjection(S, 0 .. n - 1)
  BY <1>6, <1>7, FS_Injection DEF n
<1>9. \A i \in 0 .. n - 1 : \E p \in S : place[p] = i
  BY <1>8 DEF Surjection
<1> QED BY <1>5, <1>6, <1>9 DEF place, n

\* They are no more than k.
LEMMA FirstAreFew ==
  ASSUME NEW R, NEW S, Orders(R, S), NEW k \in Nat
  PROVE  /\ FirstOf(R, S, k) \subseteq S
         /\ IsFiniteSet(FirstOf(R, S, k)) /\ Cardinality(FirstOf(R, S, k)) <= k
         /\ Cardinality(FirstOf(R, S, k)) \in Nat
<1> DEFINE K == FirstOf(R, S, k)
           place == [p \in S |-> Cardinality(Ahead(R, S, p))]
           rank == [p \in K |-> Cardinality(Ahead(R, S, p))]
<1>1. K \subseteq S
  BY DEF FirstOf
<1>2. \A p \in K : Cardinality(Ahead(R, S, p)) \in 0 .. k - 1
  BY AheadIsFinite DEF FirstOf
<1>3. \A p, q \in S : place[p] = place[q] => p = q
  BY PlacesAreTheirOwn
<1>4. \A p, q \in K : rank[p] = rank[q] => p = q
  BY <1>1, <1>3
<1>5. rank \in [K -> 0 .. k - 1]
  BY <1>2
<1> HIDE DEF rank, K
<1>6. rank \in Injection(K, 0 .. k - 1)
  <2>1. DOMAIN rank = K
    BY <1>5
  <2> QED BY <1>4, <1>5, <2>1 DEF Injection, IsInjective
<1>7. IsFiniteSet(0 .. k - 1) /\ Cardinality(0 .. k - 1) = k
  BY FS_Interval
<1>8. IsFiniteSet(K) /\ Cardinality(K) <= k
  BY <1>6, <1>7, FS_Injection
<1> QED BY <1>1, <1>8, FS_CardinalityType DEF K

\* If they do not include one of the set, they are k, and each is before that one.
LEMMA FirstAreFull ==
  ASSUME NEW R, NEW S, Orders(R, S), NEW k \in Nat, NEW z \in S \ FirstOf(R, S, k)
  PROVE  /\ Cardinality(FirstOf(R, S, k)) = k
         /\ \A p \in FirstOf(R, S, k) : <<p, z>> \in R
<1> DEFINE K == FirstOf(R, S, k)
           place == [p \in S |-> Cardinality(Ahead(R, S, p))]
           n == Cardinality(S)
           rank == [p \in K |-> place[p]]
<1>1. K \subseteq S
  BY DEF FirstOf
<1>2. n \in Nat /\ \A p \in S : place[p] \in 0 .. n - 1
  BY AheadIsFinite
<1>3. \A p \in S : p \in K <=> place[p] < k
  BY DEF FirstOf
<1>4. \A p, q \in S : place[p] = place[q] => p = q
  BY PlacesAreTheirOwn
<1>5. \A i \in 0 .. n - 1 : \E p \in S : place[p] = i
  BY PlacesAreTheirOwn
<1>6. \A p, q \in S : <<p, q>> \in R => place[p] < place[q]
  BY AheadGrows
<1> HIDE DEF K, place, n
<1>7. z \in S /\ place[z] >= k /\ k <= n - 1
  BY <1>2, <1>3 DEF K
<1>8. \A p \in K : rank[p] \in 0 .. k - 1
  BY <1>1, <1>2, <1>3
<1>9. \A p, q \in K : rank[p] = rank[q] => p = q
  BY <1>1, <1>4
<1>10. ASSUME NEW i \in 0 .. k - 1 PROVE \E p \in K : rank[p] = i
  <2>1. PICK p \in S : place[p] = i
    BY <1>2, <1>5, <1>7
  <2> QED BY <2>1, <1>3
<1>11. rank \in [K -> 0 .. k - 1] /\ DOMAIN rank = K
  BY <1>8
<1> HIDE DEF rank
<1>12. rank \in Injection(K, 0 .. k - 1) /\ rank \in Surjection(K, 0 .. k - 1)
  BY <1>9, <1>10, <1>11 DEF Injection, IsInjective, Surjection
<1>13. Cardinality(K) = k
  <2>1. IsFiniteSet(0 .. k - 1) /\ Cardinality(0 .. k - 1) = k
    BY FS_Interval
  <2> QED BY <1>12, <2>1, FS_Injection
<1>14. ASSUME NEW p \in K PROVE <<p, z>> \in R
  <2>1. p \in S /\ p # z
    BY <1>1 DEF K
  <2>2. ~ (<<z, p>> \in R)
    <3>1. <<z, p>> \in R => place[z] < place[p]
      BY <2>1, <1>6, <1>7
    <3>2. place[p] < k /\ place[p] \in Int /\ place[z] \in Int
      BY <2>1, <1>2, <1>3, <1>7
    <3> QED BY <3>1, <3>2, <1>7
  <2> QED BY <2>1, <2>2, <1>7 DEF Orders
<1> QED BY <1>13, <1>14 DEF K

\* If they are fewer than k, they are all.
LEMMA FewAreAll ==
  ASSUME NEW R, NEW S, Orders(R, S), NEW k \in Nat, Cardinality(FirstOf(R, S, k)) < k
  PROVE  FirstOf(R, S, k) = S
<1>1. FirstOf(R, S, k) \subseteq S
  BY DEF FirstOf
<1>2. ASSUME NEW z \in S \ FirstOf(R, S, k) PROVE FALSE
  <2>1. Cardinality(FirstOf(R, S, k)) = k
    BY FirstAreFull
  <2> QED BY <2>1
<1> QED BY <1>1, <1>2

\* What is not among them can be forgotten: a set that holds them has the same first.
LEMMA FirstOfPart ==
  ASSUME NEW R, NEW S, Orders(R, S), NEW k \in Nat,
         NEW T \in SUBSET S, FirstOf(R, S, k) \subseteq T
  PROVE  FirstOf(R, T, k) = FirstOf(R, S, k)
<1> DEFINE K == FirstOf(R, S, k)
<1>1. Orders(R, T)
  BY OrdersPart
<1>2. ASSUME NEW p \in K PROVE p \in FirstOf(R, T, k)
  <2>1. p \in S /\ p \in T /\ Cardinality(Ahead(R, S, p)) < k
    BY DEF FirstOf
  <2>2. Ahead(R, T, p) \in SUBSET Ahead(R, S, p)
    BY DEF Ahead
  <2>3. /\ IsFiniteSet(Ahead(R, S, p)) /\ Cardinality(Ahead(R, S, p)) \in Nat
        /\ Cardinality(Ahead(R, T, p)) \in Nat
    BY <1>1, <2>1, AheadIsFinite
  <2>4. Cardinality(Ahead(R, T, p)) <= Cardinality(Ahead(R, S, p))
    BY <2>2, <2>3, FS_Subset
  <2> QED BY <2>1, <2>3, <2>4 DEF FirstOf
<1>3. ASSUME NEW p \in FirstOf(R, T, k), p \notin K PROVE FALSE
  <2>1. p \in T /\ p \in S /\ Cardinality(Ahead(R, T, p)) < k
    BY DEF FirstOf
  <2>2. Cardinality(K) = k /\ \A q \in K : <<q, p>> \in R
    BY <2>1, <1>3, FirstAreFull
  <2>3. K \in SUBSET Ahead(R, T, p)
    BY <2>2 DEF Ahead
  <2>4. IsFiniteSet(Ahead(R, T, p)) /\ Cardinality(Ahead(R, T, p)) \in Nat
    BY <1>1, <2>1, AheadIsFinite
  <2> HIDE DEF K
  <2>5. Cardinality(K) <= Cardinality(Ahead(R, T, p))
    BY <2>3, <2>4, FS_Subset
  <2> QED BY <2>1, <2>2, <2>4, <2>5
<1> QED BY <1>2, <1>3

\* So they can be kept up to date as others come: those of a part, with the rest.
LEMMA FirstAndRest ==
  ASSUME NEW R, NEW T, Orders(R, T), NEW S \in SUBSET T, NEW W \in SUBSET T, NEW k \in Nat,
         FirstOf(R, S, k) \subseteq W, T \ S \subseteq W
  PROVE  FirstOf(R, W, k) = FirstOf(R, T, k)
<1>1. Orders(R, S)
  BY OrdersPart
<1>2. ASSUME NEW p \in FirstOf(R, T, k), p \in S PROVE p \in FirstOf(R, S, k)
  <2>1. p \in S /\ p \in T /\ Cardinality(Ahead(R, T, p)) < k
    BY <1>2 DEF FirstOf
  <2>2. Ahead(R, S, p) \in SUBSET Ahead(R, T, p)
    BY DEF Ahead
  <2>3. /\ IsFiniteSet(Ahead(R, T, p)) /\ Cardinality(Ahead(R, T, p)) \in Nat
        /\ Cardinality(Ahead(R, S, p)) \in Nat
    BY <1>1, <2>1, AheadIsFinite
  <2>4. Cardinality(Ahead(R, S, p)) <= Cardinality(Ahead(R, T, p))
    BY <2>2, <2>3, FS_Subset
  <2> QED BY <2>1, <2>3, <2>4 DEF FirstOf
<1>3. FirstOf(R, T, k) \subseteq T
  BY DEF FirstOf
<1>4. FirstOf(R, T, k) \subseteq W
  BY <1>2, <1>3
<1> QED BY <1>4, FirstOfPart

\* The first k of k are all, of k + 1 all but the last.
LEMMA FirstOfFew ==
  ASSUME NEW R, NEW S, Orders(R, S), NEW k \in Nat, Cardinality(S) <= k
  PROVE  FirstOf(R, S, k) = S
<1>1. ASSUME NEW p \in S PROVE Cardinality(Ahead(R, S, p)) < k
  BY AheadIsFinite
<1> QED BY <1>1 DEF FirstOf

LEMMA AllButTheLast ==
  ASSUME NEW R, NEW S, Orders(R, S), NEW k \in Nat, Cardinality(S) = k + 1,
         NEW z \in S, \A q \in S \ {z} : <<q, z>> \in R
  PROVE  FirstOf(R, S, k) = S \ {z}
<1>1. Ahead(R, S, z) = S \ {z}
  BY DEF Ahead, Orders
<1>2. Cardinality(S \ {z}) = k
  BY FS_RemoveElement DEF Orders
<1>3. ASSUME NEW p \in S \ {z} PROVE Cardinality(Ahead(R, S, p)) < k
  <2>1. Cardinality(Ahead(R, S, p)) < Cardinality(Ahead(R, S, z))
    BY AheadGrows
  <2> QED BY <2>1, <1>1, <1>2
<1>4. ~ (Cardinality(Ahead(R, S, z)) < k)
  BY <1>1, <1>2
<1> QED BY <1>3, <1>4 DEF FirstOf

-----------------------------------------------------------------------------
\* Where a constructor or a search is in the graph: in one layer, at points of that
\* layer, and not below the layer it may explore.
WalkInLayer ==
  /\ op = "idle" <=> step = "idle"
  /\ op # "idle" => vectors # <<>>
  /\ step \in {"descend", "explore", "connect"} => entry \in Members(layer)
  /\ step = "descend" => layer > Floor
  /\ step \in {"explore", "connect"} => layer <= Floor
  /\ step = "explore" =>
       /\ best \subseteq Members(layer) /\ frontier \subseteq Members(layer)
       /\ seen \subseteq Members(layer) /\ current \in Members(layer) \cup {None}
  /\ step = "connect" => op = "insert"
  /\ step = "answer" => op = "search"

\* The new point has no link below the layer it is being linked in, and its links
\* there and the neighbours still to connect are no more than M.
Budget ==
  /\ op = "insert" =>
       \A l \in Layers :
         l < layer \/ (l = layer /\ step # "connect") => links[l][New] = {}
  /\ step = "connect" =>
       /\ todo \subseteq Members(layer) \ {New}
       /\ Cardinality(links[layer][New]) + Cardinality(todo) <= M

GraphInv == GraphSound /\ WalkInLayer /\ Budget

-----------------------------------------------------------------------------
(***************************************************************************)
(* The order of candidates.                                                *)
(***************************************************************************)
\* Closer is a strict total order of the points, for any vector.
LEMMA CloserIsOrder ==
  ASSUME vectors \in Seq(Vectors), NEW x \in Vectors,
         NEW p \in Nodes, NEW q \in Nodes, NEW r \in Nodes
  PROVE  /\ ~ Closer(x, p, p)
         /\ Closer(x, p, q) /\ Closer(x, q, r) => Closer(x, p, r)
         /\ p # q => Closer(x, p, q) \/ Closer(x, q, p)
<1>1. vectors[p] \in Vectors /\ vectors[q] \in Vectors /\ vectors[r] \in Vectors
  BY DEF Nodes
<1>2. ScoreOf(x, p) \in Int /\ ScoreOf(x, q) \in Int /\ ScoreOf(x, r) \in Int
  BY <1>1, HnswAssumption DEF ScoreOf
<1>3. p \in Int /\ q \in Int /\ r \in Int
  BY DEF Nodes
<1> QED BY <1>2, <1>3 DEF Closer

\* Sets of points are finite.
LEMMA PointsFinite ==
  ASSUME vectors \in Seq(Vectors)
  PROVE  /\ IsFiniteSet(Nodes) /\ Cardinality(Nodes) = Len(vectors)
         /\ \A S \in SUBSET Nodes :
              IsFiniteSet(S) /\ Cardinality(S) \in Nat /\ Cardinality(S) <= Len(vectors)
<1>1. Nodes = 1 .. Len(vectors) /\ Len(vectors) \in Nat
  BY DEF Nodes
<1>2. IsFiniteSet(Nodes) /\ Cardinality(Nodes) = Len(vectors)
  BY <1>1, FS_Interval
<1> QED BY <1>2, FS_Subset, FS_CardinalityType

\* The order of the points for a vector, as a set of pairs.
CloserBy(x) == {pair \in Nodes \X Nodes : Closer(x, pair[1], pair[2])}

LEMMA BestIsFirst ==
  ASSUME vectors \in Seq(Vectors), NEW x \in Vectors, NEW S \in SUBSET Nodes
  PROVE  /\ Orders(CloserBy(x), S)
         /\ \A k \in Nat : Best(x, S, k) = FirstOf(CloserBy(x), S, k)
<1>1. \A p, q \in Nodes : <<p, q>> \in CloserBy(x) <=> Closer(x, p, q)
  BY DEF CloserBy
<1>2. IsFiniteSet(S)
  BY PointsFinite
<1>3. Orders(CloserBy(x), S)
  <2>1. \A p, q \in S : p # q => <<p, q>> \in CloserBy(x) \/ <<q, p>> \in CloserBy(x)
    BY <1>1, CloserIsOrder
  <2>2. \A p \in S : <<p, p>> \notin CloserBy(x)
    BY <1>1, CloserIsOrder
  <2>3. \A p, q, r \in S :
          <<p, q>> \in CloserBy(x) /\ <<q, r>> \in CloserBy(x) => <<p, r>> \in CloserBy(x)
    BY <1>1, CloserIsOrder
  <2> QED BY <1>2, <2>1, <2>2, <2>3 DEF Orders
<1>4. \A p \in S : Ahead(CloserBy(x), S, p) = {q \in S : Closer(x, q, p)}
  BY <1>1 DEF Ahead
<1>5. \A k \in Nat : Best(x, S, k) = FirstOf(CloserBy(x), S, k)
  BY <1>4 DEF Best, FirstOf
<1> QED BY <1>3, <1>5

\* The best of a nonempty set of points is one of them, and better than the others.
LEMMA FirstIsBest ==
  ASSUME vectors \in Seq(Vectors), NEW x \in Vectors,
         NEW S \in SUBSET Nodes, S # {}
  PROVE  First(x, S) \in S /\ \A q \in S \ {First(x, S)} : Closer(x, First(x, S), q)
<1>0. Orders(CloserBy(x), S)
  BY BestIsFirst
<1>1. PICK p \in S : \A q \in S \ {p} : <<p, q>> \in CloserBy(x)
  BY <1>0, FirstExists
<1>2. \A q \in S \ {p} : Closer(x, p, q)
  BY <1>1 DEF CloserBy
<1> QED BY <1>2 DEF First

\* The first k of a set are in it and are no more than k.
LEMMA BestIsBounded ==
  ASSUME vectors \in Seq(Vectors), NEW x \in Vectors,
         NEW S \in SUBSET Nodes, NEW k \in Nat
  PROVE  /\ Best(x, S, k) \subseteq S
         /\ IsFiniteSet(Best(x, S, k)) /\ Cardinality(Best(x, S, k)) <= k
BY BestIsFirst, FirstAreFew

-----------------------------------------------------------------------------
(***************************************************************************)
(* One layer: links that go both ways, between members of it.              *)
(***************************************************************************)
SymmetricIn(L, S) ==
  \A p \in Places : \A q \in L[p] : p # q /\ p \in L[q] /\ {p, q} \subseteq S

\* A pruned point keeps at most M links, nobody gets a new one, and what is left
\* goes both ways.
LEMMA PrunedIsSound ==
  ASSUME vectors \in Seq(Vectors), Nodes \subseteq Places, NEW S \in SUBSET Nodes,
         NEW L \in [Places -> SUBSET Places], SymmetricIn(L, S), NEW p \in Nodes
  PROVE  /\ Pruned(L, p) \in [Places -> SUBSET Places]
         /\ \A q \in Places : Pruned(L, p)[q] \subseteq L[q]
         /\ SymmetricIn(Pruned(L, p), S)
         /\ Cardinality(Pruned(L, p)[p]) <= M
<1> DEFINE R == Best(vectors[p], L[p], M)
<1>1. L[p] \in SUBSET Nodes /\ p \in Places
  BY DEF SymmetricIn
<1>2. vectors[p] \in Vectors
  BY DEF Nodes
<1>3. M \in Nat
  BY HnswAssumption
<1>4. R \subseteq L[p] /\ Cardinality(R) <= M
  BY <1>1, <1>2, <1>3, BestIsBounded
<1>5. CASE Cardinality(L[p]) <= M
  BY <1>5 DEF Pruned
<1>6. CASE ~ (Cardinality(L[p]) <= M)
  <2> DEFINE P == [q \in Places |-> IF q = p THEN R
                                 ELSE IF q \in L[p] \ R THEN L[q] \ {p} ELSE L[q]]
  <2>1. Pruned(L, p) = P
    BY <1>6 DEF Pruned
  <2> HIDE DEF R
  <2>2. P \in [Places -> SUBSET Places]
    BY <1>1, <1>4
  <2>3. P[p] = R
    BY <1>1
  <2>4. \A q \in Places \ {p} : P[q] = IF q \in L[p] \ R THEN L[q] \ {p} ELSE L[q]
    OBVIOUS
  <2> HIDE DEF P
  <2>5. \A q \in Places : P[q] \subseteq L[q]
    BY <1>1, <1>4, <2>3, <2>4
  <2>6. ASSUME NEW a \in Places, NEW b \in P[a] PROVE a # b /\ a \in P[b] /\ {a, b} \subseteq S
    <3>1. b \in Places /\ b \in L[a] /\ a # b /\ a \in L[b] /\ {a, b} \subseteq S
      BY <2>5 DEF SymmetricIn
    <3>2. a \in P[b]
      BY <3>1, <1>1, <1>4, <2>3, <2>4, <2>6
    <3> QED BY <3>1, <3>2
  <2> QED BY <2>1, <2>2, <2>3, <2>5, <2>6, <1>4 DEF SymmetricIn
<1> QED BY <1>5, <1>6

-----------------------------------------------------------------------------
(***************************************************************************)
(* Facts of a state that satisfies the invariant.                          *)
(***************************************************************************)
LEMMA InLayer ==
  ASSUME GraphInv
  PROVE  /\ Nodes = 1 .. Len(vectors) /\ Nodes \subseteq Places
         /\ Len(vectors) \in Nat /\ DOMAIN levels = Nodes
         /\ \A p \in Nodes : levels[p] \in Layers
         /\ \A l \in Layers : Members(l) \subseteq Nodes
         /\ Members(0) = Nodes
         /\ \A l \in Layers, p \in Places : links[l][p] \subseteq Members(l)
         /\ \A l \in Layers : SymmetricIn(links[l], Members(l))
<1>1. Nodes = 1 .. Len(vectors) /\ Len(vectors) \in Nat /\ Nodes \subseteq Places
  BY HnswAssumption DEF GraphInv, GraphSound, GraphTypeOK, Nodes, Places
<1>2. DOMAIN levels = Nodes /\ \A p \in Nodes : levels[p] \in Layers
  <2>1. levels \in Seq(Layers) /\ Len(levels) = Len(vectors)
    BY DEF GraphInv, GraphSound, GraphTypeOK
  <2> QED BY <2>1, <1>1
<1>3. Members(0) = Nodes /\ \A l \in Layers : Members(l) \subseteq Nodes
  BY <1>2, HnswAssumption DEF Members, Layers
<1>4. \A l \in Layers, p \in Places : links[l][p] \subseteq Members(l)
  BY DEF GraphInv, GraphSound, Symmetric
<1>5. \A l \in Layers : SymmetricIn(links[l], Members(l))
  BY DEF GraphInv, GraphSound, Symmetric, SymmetricIn
<1> QED BY <1>1, <1>2, <1>3, <1>4, <1>5

\* Once there is a point, New is the last one.
LEMMA NewIsLast ==
  ASSUME GraphInv, vectors # <<>>
  PROVE  New \in Nodes /\ New \in Nat /\ New >= 1
<1>1. vectors \in Seq(Vectors)
  BY DEF GraphInv, GraphSound, GraphTypeOK
<1>2. Len(vectors) \in Nat /\ Len(vectors) # 0
  BY <1>1
<1> QED BY <1>2, InLayer DEF New

\* A layer holds what the layers above it hold.
LEMMA LayerBelow ==
  ASSUME GraphInv, NEW k \in Layers, NEW l \in Layers, l <= k
  PROVE  Members(k) \subseteq Members(l)
BY InLayer, HnswAssumption DEF Members, Layers

\* While points are linked or searched the graph does not change, and neither does
\* what is said of it.
LEMMA SameGraph ==
  ASSUME GraphInv, UNCHANGED graph, op' = "insert" <=> op = "insert"
  PROVE  /\ Symmetric' /\ Bounded' /\ EntryOnTop'
         /\ Nodes' = Nodes /\ New' = New
         /\ \A l \in Layers : Members(l)' = Members(l)
<1>1. Nodes' = Nodes /\ New' = New /\ \A l \in Layers : Members(l)' = Members(l)
  BY DEF graph, Nodes, New, Members
<1>2. Symmetric'
  BY <1>1 DEF GraphInv, GraphSound, Symmetric, graph
<1>3. Bounded'
  BY DEF GraphInv, GraphSound, Bounded, graph
<1>4. EntryOnTop'
  BY <1>1 DEF GraphInv, GraphSound, EntryOnTop, graph
<1> QED BY <1>1, <1>2, <1>3, <1>4

-----------------------------------------------------------------------------
(***************************************************************************)
(* The steps that only walk through the graph.                             *)
(***************************************************************************)
LEMMA GraphInitInv == GraphInit => GraphInv
<1> SUFFICES ASSUME GraphInit PROVE GraphInv
  OBVIOUS
<1>1. GraphTypeOK
  BY HnswAssumption DEF GraphInit, GraphTypeOK, Layers, Places, None, Nodes
<1>2. Symmetric /\ EntryOnTop
  BY DEF GraphInit, Symmetric, EntryOnTop
<1>3. Bounded
  BY FS_EmptySet, HnswAssumption DEF GraphInit, Bounded
<1>4. WalkInLayer /\ Budget
  BY DEF GraphInit, WalkInLayer, Budget
<1> QED BY <1>1, <1>2, <1>3, <1>4 DEF GraphInv, GraphSound

LEMMA ExpandInv == ASSUME GraphInv, Expand PROVE GraphInv'
<1>1. step = "explore" /\ op \in {"insert", "search"}
  BY DEF Expand, Expanded, GraphInv, GraphSound, GraphTypeOK, WalkInLayer
<1>2. First(query, frontier) \in frontier
  BY FirstIsBest DEF Expand, GraphInv, GraphSound, GraphTypeOK
<1>3. current' \in frontier /\ frontier' \subseteq frontier
  BY <1>2 DEF Expand
<1>4. GraphTypeOK'
  BY <1>3, SameGraph DEF Expand, GraphInv, GraphSound, GraphTypeOK, graph
<1>5. WalkInLayer'
  BY <1>1, <1>3, SameGraph DEF Expand, GraphInv, GraphSound, GraphTypeOK, WalkInLayer, Floor, graph
<1>6. Budget'
  BY <1>1, SameGraph DEF Expand, GraphInv, Budget, graph
<1> QED BY <1>4, <1>5, <1>6, SameGraph DEF Expand, GraphInv, GraphSound

LEMMA LookInv == ASSUME GraphInv, Look PROVE GraphInv'
<1>1. step = "explore" /\ op \in {"insert", "search"} /\ layer \in Layers
  BY DEF Look, GraphInv, GraphSound, GraphTypeOK, WalkInLayer
<1>2. PICK n \in Neighbours \ seen :
        /\ seen' = seen \cup {n}
        /\ best' = Best(query, best \cup {n}, breadth)
        /\ frontier' = IF n \in best' THEN frontier \cup {n} ELSE frontier
  BY DEF Look
<1>3. n \in Members(layer) /\ n \in Nodes
  BY <1>1, InLayer DEF Neighbours, GraphInv, GraphSound, GraphTypeOK, None
<1>4. best' \subseteq best \cup {n}
  BY <1>2, <1>3, BestIsBounded DEF GraphInv, GraphSound, GraphTypeOK
<1>5. GraphTypeOK'
  BY <1>2, <1>3, <1>4, SameGraph DEF Look, GraphInv, GraphSound, GraphTypeOK, graph
<1>6. WalkInLayer'
  BY <1>1, <1>2, <1>3, <1>4, SameGraph
     DEF Look, GraphInv, GraphSound, GraphTypeOK, WalkInLayer, Floor, graph
<1>7. Budget'
  BY <1>1, SameGraph DEF Look, GraphInv, Budget, graph
<1> QED BY <1>5, <1>6, <1>7, SameGraph DEF Look, GraphInv, GraphSound

LEMMA GreedyInv == ASSUME GraphInv, Greedy PROVE GraphInv'
<1> DEFINE around == {entry} \cup links[layer][entry]
           next == First(query, around)
<1>1. step = "descend" /\ op \in {"insert", "search"} /\ layer \in Layers /\ vectors # <<>>
  BY DEF Greedy, GraphInv, GraphSound, GraphTypeOK, WalkInLayer
<1>2. entry \in Members(layer) /\ layer > Floor
  BY <1>1 DEF GraphInv, WalkInLayer
<1>3. around \subseteq Members(layer) /\ around \subseteq Nodes
  BY <1>1, <1>2, InLayer
<1>4. next \in around
  BY <1>3, FirstIsBest DEF GraphInv, GraphSound, GraphTypeOK
<1>5. Floor \in Layers
  <2>1. Len(vectors) \in Nodes
    BY <1>1, NewIsLast DEF New
  <2>2. levels[Len(vectors)] \in Layers
    BY <2>1, InLayer
  <2> QED BY <2>2, HnswAssumption DEF Floor, Layers
<1>6. visited' \in SUBSET Nodes /\ passed' \in SUBSET Nodes
  BY <1>3 DEF Greedy, Remembered, GraphInv, GraphSound, GraphTypeOK
<1> HIDE DEF around, next
<1>7. UNCHANGED <<graph, op, query, breadth, todo, scores>>
  BY DEF Greedy
<1>8. Floor' = Floor
  BY <1>7 DEF Floor, graph
<1>9. CASE next # entry
  <2>1. entry' = next /\ UNCHANGED <<step, layer, window>>
    BY <1>9 DEF Greedy, around, next
  <2>2. next \in Members(layer) /\ next \in Nodes
    BY <1>3, <1>4
  <2>3. GraphTypeOK'
    BY <2>1, <2>2, <1>6, <1>7, SameGraph, InLayer
       DEF GraphInv, GraphSound, GraphTypeOK, graph, window
  <2>4. WalkInLayer'
    BY <2>1, <2>2, <1>1, <1>2, <1>7, <1>8, SameGraph DEF GraphInv, WalkInLayer, graph, window
  <2>5. Budget'
    BY <2>1, <1>1, <1>7, SameGraph DEF GraphInv, Budget, graph
  <2> QED BY <2>3, <2>4, <2>5, <1>7, SameGraph DEF GraphInv, GraphSound
<1>10. CASE next = entry
  <2>1. layer' = layer - 1 /\ layer - 1 \in Layers
    <3>1. layer' = layer - 1
      BY <1>10 DEF Greedy, around, next
    <3> QED BY <3>1, <1>1, <1>2, <1>5, HnswAssumption DEF Layers
  <2>2. entry \in Members(layer - 1) /\ entry \in Nodes
    BY <2>1, <1>1, <1>2, LayerBelow, InLayer DEF Layers
  <2>3. \/ layer - 1 > Floor /\ UNCHANGED <<step, entry, window>>
        \/ ~ (layer - 1 > Floor) /\ StartLayer(entry)
    BY <1>10 DEF Greedy, around, next
  <2>4. GraphTypeOK'
    BY <2>1, <2>2, <2>3, <1>6, <1>7, SameGraph, InLayer
       DEF GraphInv, GraphSound, GraphTypeOK, StartLayer, graph, window
  <2>5. WalkInLayer'
    BY <2>1, <2>2, <2>3, <1>1, <1>5, <1>7, <1>8, SameGraph
       DEF GraphInv, WalkInLayer, StartLayer, graph, window, Layers
  <2>6. Budget'
    BY <2>1, <2>3, <1>1, <1>7, SameGraph DEF GraphInv, Budget, StartLayer, graph, Layers
  <2> QED BY <2>4, <2>5, <2>6, <1>7, SameGraph DEF GraphInv, GraphSound
<1> QED BY <1>9, <1>10

LEMMA ChooseInv == ASSUME GraphInv, Choose PROVE GraphInv'
<1> DEFINE others == best \ {New}
<1>1. step = "explore" /\ op = "insert" /\ layer \in Layers /\ vectors # <<>>
  BY DEF Choose, LayerDone, Expanded, GraphInv, GraphSound, GraphTypeOK, WalkInLayer
<1>2. others \subseteq Members(layer) /\ others \subseteq Nodes
  BY <1>1 DEF GraphInv, GraphSound, GraphTypeOK, WalkInLayer
<1>3. todo' \subseteq others /\ Cardinality(todo') <= M
  BY <1>2, BestIsBounded, HnswAssumption DEF Choose, GraphInv, GraphSound, GraphTypeOK
<1>4. entry' \in Members(layer)
  <2>1. CASE others = {}
    BY <2>1, <1>1 DEF Choose, GraphInv, WalkInLayer
  <2>2. CASE others # {}
    <3>1. First(query, others) \in others
      BY <2>2, <1>2, FirstIsBest DEF GraphInv, GraphSound, GraphTypeOK
    <3> QED BY <3>1, <2>2, <1>2 DEF Choose
  <2> QED BY <2>1, <2>2
<1>5. step' = "connect" /\ UNCHANGED <<graph, op, query, layer, breadth, window, visited, passed, scores>>
  BY DEF Choose
<1>6. links[layer][New] = {} /\ New \in Nodes
  BY <1>1, NewIsLast DEF GraphInv, Budget
<1>7. Cardinality(todo') \in Nat
  BY <1>2, <1>3, PointsFinite DEF GraphInv, GraphSound, GraphTypeOK
<1> HIDE DEF others
<1>8. GraphTypeOK'
  BY <1>1, <1>2, <1>3, <1>4, <1>5, SameGraph, InLayer DEF GraphInv, GraphSound, GraphTypeOK, graph, window
<1>9. WalkInLayer'
  BY <1>1, <1>4, <1>5, SameGraph DEF GraphInv, WalkInLayer, Floor, graph, window
<1>10. Budget'
  <2>1. todo' \subseteq Members(layer) \ {New}
    BY <1>2, <1>3 DEF others
  <2>2. Cardinality(links'[layer][New]) + Cardinality(todo') <= M
    BY <1>3, <1>5, <1>6, <1>7, FS_EmptySet, HnswAssumption DEF graph
  <2>3. \A l \in Layers : l < layer => links[l][New] = {}
    BY <1>1 DEF GraphInv, Budget
  <2> QED BY <1>1, <1>5, <2>1, <2>2, <2>3, SameGraph DEF Budget, graph
<1> QED BY <1>5, <1>8, <1>9, <1>10, SameGraph DEF GraphInv, GraphSound

LEMMA SearchKeepsGraph == ASSUME GraphInv, Search PROVE GraphInv'
<1>1. op = "idle" /\ step = "idle" /\ vectors # <<>> /\ op' = "search"
  BY DEF Search, GraphInv, WalkInLayer
<1>2. PICK x \in Vectors, b \in Breadths : breadth' = b /\ Descend(x, 0)
  BY DEF Search
<1>3. maxLevel \in Layers /\ entryPoint \in Members(maxLevel) /\ entryPoint \in Nodes
  <2>1. entryPoint \in Nodes /\ levels[entryPoint] = maxLevel
    BY <1>1 DEF GraphInv, GraphSound, EntryOnTop
  <2>2. maxLevel \in Layers
    BY <2>1, InLayer
  <2> QED BY <2>1, <2>2, HnswAssumption DEF Members, Layers
<1>4. UNCHANGED <<graph, todo>> /\ visited' = {entryPoint} /\ passed' = {} /\ scores' = {}
  BY DEF Search
<1>5. /\ query' = x /\ layer' = maxLevel /\ entry' = entryPoint
      /\ \/ maxLevel > 0 /\ step' = "descend" /\ UNCHANGED window
         \/ maxLevel <= 0 /\ StartLayer(entryPoint)
  BY <1>2, <1>3, HnswAssumption DEF Descend, StartLayer, Layers
<1>6. GraphTypeOK'
  BY <1>1, <1>2, <1>3, <1>4, <1>5, SameGraph, InLayer, HnswAssumption
     DEF GraphInv, GraphSound, GraphTypeOK, StartLayer, graph, window
<1>7. Floor' = 0
  BY <1>1 DEF Floor
<1>8. WalkInLayer'
  BY <1>1, <1>3, <1>4, <1>5, <1>7, SameGraph, HnswAssumption
     DEF WalkInLayer, StartLayer, graph, window, Layers
<1>9. Budget'
  BY <1>1, <1>5 DEF Budget, StartLayer
<1> QED BY <1>1, <1>4, <1>6, <1>8, <1>9, SameGraph DEF GraphInv, GraphSound

\* While it answers, a search has visited and scored points.
LEMMA NextVisitedPoints ==
  ASSUME GraphInv
  PROVE  NextVisited \in SUBSET Nodes /\ NextScores \in SUBSET Nodes
BY DEF NextVisited, NextScores, GraphInv, GraphSound, GraphTypeOK

LEMMA RestartInv == ASSUME GraphInv, Restart PROVE GraphInv'
<1> DEFINE rest == Nodes \ NextVisited
           next == CHOOSE p \in rest : \A q \in rest : p <= q
<1>1. step = "explore" /\ op = "search" /\ layer \in Layers
  BY DEF Restart, LayerDone, Expanded, GraphInv, GraphSound, GraphTypeOK, WalkInLayer
<1>2. layer = 0
  BY <1>1, HnswAssumption DEF GraphInv, WalkInLayer, Floor, Layers
<1>3. rest # {}
  <2>1. Cardinality(NextVisited) < Len(vectors) /\ vectors \in Seq(Vectors)
    BY DEF Restart, Incomplete, GraphInv, GraphSound, GraphTypeOK
  <2>2. Cardinality(Nodes) = Len(vectors) /\ Len(vectors) \in Nat
    BY <2>1, PointsFinite
  <2>3. NextVisited # Nodes
    BY <2>1, <2>2
  <2> QED BY <2>3, NextVisitedPoints
<1>4. next \in rest
  <2>1. rest \in SUBSET Nat
    BY InLayer
  <2>2. \E p \in rest : \A q \in rest : p <= q
    <3> HIDE DEF rest
    <3> QED BY <1>3, <2>1, LeastNat
  <2> QED BY <2>2
<1>5. /\ visited' = NextVisited /\ scores' = NextScores /\ StartLayer(next)
      /\ UNCHANGED <<graph, op, query, layer, breadth, todo, passed>>
  BY DEF Restart
<1>6. next \in Nodes /\ next \in Members(layer)
  BY <1>2, <1>4, InLayer
<1> HIDE DEF rest, next
<1>7. GraphTypeOK'
  BY <1>5, <1>6, NextVisitedPoints, SameGraph, InLayer
     DEF GraphInv, GraphSound, GraphTypeOK, StartLayer, graph
<1>8. WalkInLayer'
  BY <1>1, <1>5, <1>6, SameGraph DEF GraphInv, WalkInLayer, StartLayer, Floor, graph
<1>9. Budget'
  BY <1>1, <1>5 DEF Budget, StartLayer
<1> QED BY <1>5, <1>7, <1>8, <1>9, SameGraph DEF GraphInv, GraphSound

LEMMA AnswerInv == ASSUME GraphInv, Answer PROVE GraphInv'
<1>1. step = "explore" /\ op = "search"
  BY DEF Answer, LayerDone, Expanded
<1>2. /\ visited' = NextVisited /\ scores' = NextScores /\ step' = "answer"
      /\ UNCHANGED <<graph, op, query, layer, entry, breadth, window, todo, passed>>
  BY DEF Answer
<1>3. GraphTypeOK'
  BY <1>2, NextVisitedPoints, SameGraph DEF GraphInv, GraphSound, GraphTypeOK, graph, window
<1>4. WalkInLayer' /\ Budget'
  BY <1>1, <1>2 DEF GraphInv, WalkInLayer, Budget, graph
<1> QED BY <1>2, <1>3, <1>4, SameGraph DEF GraphInv, GraphSound

LEMMA ReturnInv == ASSUME GraphInv, Return PROVE GraphInv'
<1>1. op = "search" /\ Rest /\ UNCHANGED <<graph, query>>
  BY DEF Return, GraphInv, WalkInLayer
<1>2. GraphTypeOK'
  BY <1>1, SameGraph, HnswAssumption DEF Rest, GraphInv, GraphSound, GraphTypeOK, graph, Layers
<1>3. WalkInLayer' /\ Budget'
  BY <1>1 DEF Rest, WalkInLayer, Budget
<1> QED BY <1>1, <1>2, <1>3, SameGraph DEF Rest, GraphInv, GraphSound

-----------------------------------------------------------------------------
(***************************************************************************)
(* The steps that add a point.                                             *)
(***************************************************************************)
LEMMA InsertFirstInv == ASSUME GraphInv, InsertFirst PROVE GraphInv'
<1>1. vectors = <<>> /\ MaxPoints >= 1 /\ Nodes = {}
  BY HnswAssumption DEF InsertFirst, Nodes
<1>2. PICK x \in Vectors, l \in Layers : vectors' = <<x>> /\ levels' = <<l>> /\ maxLevel' = l
  BY DEF InsertFirst
<1>3. /\ entryPoint' = 1
      /\ UNCHANGED <<links, op, step, query, layer, entry, breadth, window, todo, visited, passed, scores>>
  BY DEF InsertFirst
<1>4. op = "idle" /\ step = "idle"
  BY <1>1 DEF GraphInv, WalkInLayer
<1>5. Nodes' = {1} /\ 1 \in Places /\ Len(vectors') = 1 /\ Len(levels') = 1
  BY <1>1, <1>2, HnswAssumption DEF Nodes, Places
<1>6. \A k \in Layers, p \in Places : links[k][p] = {}
  <2>1. \A k \in Layers : Members(k) = {}
    BY <1>1 DEF Members
  <2> QED BY <2>1 DEF GraphInv, GraphSound, Symmetric
<1>7. GraphTypeOK'
  <2>1. vectors' \in Seq(Vectors) /\ levels' \in Seq(Layers)
    BY <1>2
  <2>2. maxLevel' \in Layers /\ entryPoint' \in Places
    BY <1>2, <1>3, <1>5
  <2>3. Len(vectors') <= MaxPoints /\ Len(levels') = Len(vectors')
    BY <1>1, <1>5
  <2> QED BY <1>1, <1>3, <1>5, <2>1, <2>2, <2>3 DEF GraphInv, GraphSound, GraphTypeOK, window
<1>8. Symmetric' /\ Bounded'
  <2>1. Symmetric'
    BY <1>3, <1>6 DEF Symmetric
  <2>2. Bounded'
    <3>1. Cardinality({}) = 0 /\ 0 <= M
      BY FS_EmptySet, HnswAssumption
    <3>2. \A k \in Layers, p \in Places : links'[k][p] = {}
      BY <1>3, <1>6
    <3> QED BY <3>1, <3>2 DEF Bounded
  <2> QED BY <2>1, <2>2
<1>9. EntryOnTop'
  BY <1>2, <1>3, <1>5, HnswAssumption DEF EntryOnTop, Layers
<1>10. WalkInLayer' /\ Budget'
  BY <1>3, <1>4 DEF WalkInLayer, Budget
<1> QED BY <1>7, <1>8, <1>9, <1>10 DEF GraphInv, GraphSound

LEMMA InsertInv == ASSUME GraphInv, Insert PROVE GraphInv'
<1>1. op = "idle" /\ step = "idle" /\ vectors # <<>> /\ Len(vectors) < MaxPoints
  BY DEF Insert, GraphInv, WalkInLayer
<1>2. PICK x \in Vectors, l \in Layers :
        /\ vectors' = Append(vectors, x)
        /\ levels' = Append(levels, l)
        /\ op' = "insert"
        /\ breadth' = EfConstruct
        /\ Descend(x, l)
  BY DEF Insert
<1>3. UNCHANGED <<links, entryPoint, maxLevel, todo, visited, passed, scores>>
  BY DEF Insert
<1> DEFINE new == Len(vectors) + 1
<1>4. /\ new \in Places /\ new \notin Nodes
      /\ Nodes' = Nodes \cup {new} /\ New' = new
  <2>1. Nodes' = 1 .. new /\ New' = new
    BY <1>2 DEF Nodes, New, GraphInv, GraphSound, GraphTypeOK
  <2> QED BY <2>1, <1>1, InLayer, HnswAssumption DEF Places
<1>5. /\ vectors' \in Seq(Vectors) /\ Len(vectors') = new
      /\ levels' \in Seq(Layers) /\ Len(levels') = new
      /\ levels'[new] = l /\ \A p \in Nodes : levels'[p] = levels[p]
  <2>1. levels \in Seq(Layers) /\ Len(levels) = Len(vectors) /\ vectors \in Seq(Vectors)
    BY DEF GraphInv, GraphSound, GraphTypeOK
  <2> QED BY <2>1, <1>2, InLayer
<1>6. \A k \in Layers : Members(k) \subseteq Members(k)'
  BY <1>4, <1>5 DEF Members
<1>7. /\ entryPoint \in Nodes /\ levels[entryPoint] = maxLevel
      /\ maxLevel \in Layers /\ entryPoint \in Members(maxLevel)'
      /\ \A p \in Nodes : levels[p] <= maxLevel
  <2>1. entryPoint \in Nodes /\ levels[entryPoint] = maxLevel
    BY <1>1 DEF GraphInv, GraphSound, EntryOnTop
  <2>2. \A p \in Nodes : levels[p] <= maxLevel
    BY <1>1 DEF GraphInv, GraphSound, EntryOnTop
  <2>3. maxLevel \in Layers
    BY <2>1, InLayer
  <2>4. entryPoint \in Members(maxLevel)
    BY <2>1, <2>3, HnswAssumption DEF Members, Layers
  <2>5. entryPoint \in Members(maxLevel)'
    BY <1>3, <1>6, <2>3, <2>4
  <2> QED BY <2>1, <2>2, <2>3, <2>5
<1>8. /\ query' = x /\ layer' = maxLevel /\ entry' = entryPoint
      /\ \/ maxLevel > l /\ step' = "descend" /\ UNCHANGED window
         \/ maxLevel <= l /\ StartLayer(entryPoint)
  BY <1>2, <1>7, HnswAssumption DEF Descend, StartLayer, Layers
<1>9. Floor' = l
  BY <1>2, <1>4, <1>5 DEF Floor, New
<1>10. GraphTypeOK'
  <2>1. Len(vectors') <= MaxPoints /\ Len(levels') = Len(vectors')
    BY <1>1, <1>5, InLayer, HnswAssumption
  <2>2. breadth' \in Nat \ {0}
    BY <1>2, HnswAssumption
  <2>3. /\ seen' \in SUBSET Nodes' /\ best' \in SUBSET Nodes' /\ frontier' \in SUBSET Nodes'
        /\ current' \in Nodes' \cup {None} /\ entry' \in Places
    BY <1>4, <1>7, <1>8, InLayer DEF StartLayer, window, GraphInv, GraphSound, GraphTypeOK
  <2>4. step' \in {"descend", "explore"} /\ op' = "insert" /\ query' \in Vectors
    BY <1>2, <1>8 DEF StartLayer
  <2>5. /\ todo' \in SUBSET Nodes' /\ visited' \in SUBSET Nodes' /\ passed' \in SUBSET Nodes'
        /\ scores' \in SUBSET Nodes' /\ links' \in [Layers -> [Places -> SUBSET Places]]
        /\ entryPoint' \in Places \cup {None} /\ maxLevel' \in Layers \cup {-1}
    BY <1>3, <1>4 DEF GraphInv, GraphSound, GraphTypeOK
  <2> QED BY <1>5, <1>7, <1>8, <2>1, <2>2, <2>3, <2>4, <2>5 DEF GraphTypeOK
<1>11. Symmetric'
  BY <1>3, <1>6 DEF GraphInv, GraphSound, Symmetric
<1>12. Bounded'
  BY <1>3 DEF GraphInv, GraphSound, Bounded
<1>13. EntryOnTop'
  BY <1>2, <1>3, <1>4, <1>5, <1>7 DEF EntryOnTop
<1>14. WalkInLayer'
  <2>1. vectors' # <<>>
    BY <1>5, InLayer
  <2>2. entry' \in Members(layer)'
    BY <1>3, <1>7, <1>8 DEF Members
  <2> QED BY <1>2, <1>7, <1>8, <1>9, <2>1, <2>2, HnswAssumption
          DEF WalkInLayer, StartLayer, window, Layers
<1>15. Budget'
  <2>1. \A k \in Layers : links[k][new] = {}
    BY <1>4, InLayer DEF GraphInv, GraphSound, Symmetric
  <2> QED BY <1>3, <1>4, <1>8, <2>1 DEF Budget, StartLayer
<1> QED BY <1>10, <1>11, <1>12, <1>13, <1>14, <1>15 DEF GraphInv, GraphSound

LEMMA ConnectInv == ASSUME GraphInv, Connect PROVE GraphInv'
<1> DEFINE n == First(query, todo)
           Ms == Members(layer)
           L == links[layer]
           L1 == Linked(New, n)[layer]
           L2 == Pruned(L1, n)
<1>1. /\ step = "connect" /\ op = "insert" /\ layer \in Layers /\ vectors # <<>>
      /\ layer <= Floor /\ todo # {}
  BY DEF Connect, GraphInv, GraphSound, GraphTypeOK, WalkInLayer
<1>2. New \in Nodes /\ New \in Places /\ New \in Ms
  <2>1. New \in Nodes
    BY <1>1, NewIsLast
  <2>2. levels[New] = Floor
    BY <1>1 DEF Floor, New
  <2> QED BY <2>1, <2>2, <1>1, InLayer DEF Members
<1>3. n \in todo /\ n \in Ms /\ n # New /\ n \in Nodes /\ n \in Places
  <2>1. todo \in SUBSET Nodes /\ query \in Vectors /\ vectors \in Seq(Vectors)
    BY DEF GraphInv, GraphSound, GraphTypeOK
  <2>2. n \in todo
    BY <1>1, <2>1, FirstIsBest
  <2>3. todo \subseteq Ms \ {New}
    BY <1>1 DEF GraphInv, Budget
  <2> HIDE DEF n
  <2> QED BY <2>1, <2>2, <2>3, InLayer
<1> HIDE DEF n
<1>4. links \in [Layers -> [Places -> SUBSET Places]] /\ L \in [Places -> SUBSET Places]
  BY <1>1 DEF GraphInv, GraphSound, GraphTypeOK
<1>5. L1 = [L EXCEPT ![New] = @ \cup {n}, ![n] = @ \cup {New}]
  BY <1>1, <1>4 DEF Linked
<1>6. /\ L1 \in [Places -> SUBSET Places]
      /\ L1[New] = L[New] \cup {n} /\ L1[n] = L[n] \cup {New}
      /\ \A q \in Places \ {New, n} : L1[q] = L[q]
  BY <1>2, <1>3, <1>4, <1>5
<1>7. SymmetricIn(L, Ms)
  BY <1>1, InLayer
<1> HIDE DEF L1, L
<1>8. SymmetricIn(L1, Ms)
  BY <1>2, <1>3, <1>6, <1>7 DEF SymmetricIn
<1>9. /\ L2 \in [Places -> SUBSET Places]
      /\ \A q \in Places : L2[q] \subseteq L1[q]
      /\ SymmetricIn(L2, Ms)
      /\ Cardinality(L2[n]) <= M
  <2>1. Ms \in SUBSET Nodes /\ Nodes \subseteq Places /\ vectors \in Seq(Vectors)
    BY <1>1, InLayer DEF GraphInv, GraphSound, GraphTypeOK
  <2> QED BY <2>1, <1>3, <1>6, <1>8, PrunedIsSound
<1>10. /\ links' = [links EXCEPT ![layer] = L2] /\ todo' = todo \ {n}
       /\ UNCHANGED <<vectors, levels, entryPoint, maxLevel, op, step, query, layer, entry, breadth,
                     window, visited, passed, scores>>
  BY DEF Connect, n, L1
<1> HIDE DEF L2
<1>11. links'[layer] = L2 /\ \A l \in Layers \ {layer} : links'[l] = links[l]
  BY <1>1, <1>4, <1>10
<1>12. Nodes' = Nodes /\ New' = New /\ \A l \in Layers : Members(l)' = Members(l)
  BY <1>10 DEF Nodes, New, Members
<1>13. \A q \in Places : IsFiniteSet(L[q]) /\ Cardinality(L[q]) \in Nat
  <2>1. \A q \in Places : L[q] \in SUBSET Nodes
    BY <1>1, InLayer DEF L
  <2> QED BY <2>1, PointsFinite DEF GraphInv, GraphSound, GraphTypeOK
<1>14. Cardinality(L2[New]) + Cardinality(todo') <= M
  <2>1. IsFiniteSet(todo) /\ Cardinality(todo) \in Nat
    BY PointsFinite DEF GraphInv, GraphSound, GraphTypeOK
  <2>2. Cardinality(todo') = Cardinality(todo) - 1
    BY <2>1, <1>3, <1>10, FS_RemoveElement
  <2>3. IsFiniteSet(L1[New]) /\ Cardinality(L1[New]) <= Cardinality(L[New]) + 1
    <3>1. IsFiniteSet(L[New]) /\ Cardinality(L[New]) \in Nat
      BY <1>2, <1>13
    <3>2. /\ IsFiniteSet(L[New] \cup {n})
          /\ Cardinality(L[New] \cup {n}) <= Cardinality(L[New]) + 1
      BY <3>1, FS_AddElement
    <3> QED BY <3>2, <1>6
  <2>4. Cardinality(L2[New]) <= Cardinality(L1[New])
    BY <1>2, <1>9, <2>3, FS_Subset
  <2>5. Cardinality(L[New]) + Cardinality(todo) <= M
    BY <1>1 DEF GraphInv, Budget, L
  <2>6. Cardinality(L1[New]) \in Nat /\ Cardinality(L2[New]) \in Nat
    BY <1>2, <1>9, <2>3, FS_Subset, FS_CardinalityType
  <2> QED BY <2>1, <2>2, <2>3, <2>4, <2>5, <2>6, <1>2, <1>13, HnswAssumption
<1>15. GraphTypeOK'
  BY <1>1, <1>4, <1>9, <1>10, <1>12 DEF GraphInv, GraphSound, GraphTypeOK, window
<1>16. Symmetric'
  <2>1. \A l \in Layers : SymmetricIn(links'[l], Members(l))
    BY <1>9, <1>11, InLayer
  <2> QED BY <2>1, <1>12 DEF Symmetric, SymmetricIn
<1>17. Bounded'
  <2>1. ASSUME NEW q \in Places PROVE Cardinality(L2[q]) <= M
    <3>1. CASE q = n
      BY <3>1, <1>9
    <3>2. CASE q = New
      <4>1. IsFiniteSet(todo') /\ IsFiniteSet(L2[New])
        <5>1. todo' \in SUBSET Nodes /\ L2[New] \in SUBSET Nodes
          BY <1>2, <1>9, <1>10, InLayer, <1>1 DEF SymmetricIn, GraphInv, GraphSound, GraphTypeOK
        <5> QED BY <5>1, PointsFinite DEF GraphInv, GraphSound, GraphTypeOK
      <4>2. Cardinality(todo') \in Nat /\ Cardinality(L2[New]) \in Nat
        BY <4>1, FS_CardinalityType
      <4> QED BY <3>2, <4>2, <1>14, HnswAssumption
    <3>3. CASE q \notin {n, New}
      <4>1. L2[q] \subseteq L[q]
        BY <3>3, <1>6, <1>9
      <4>2. Cardinality(L2[q]) <= Cardinality(L[q]) /\ Cardinality(L2[q]) \in Nat
        BY <4>1, <1>13, FS_Subset, FS_CardinalityType
      <4>3. Cardinality(L[q]) <= M
        BY <1>1 DEF GraphInv, GraphSound, Bounded, L
      <4> QED BY <4>2, <4>3, <1>13, HnswAssumption
    <3> QED BY <3>1, <3>2, <3>3
  <2> QED BY <2>1, <1>11 DEF GraphInv, GraphSound, Bounded
<1>18. EntryOnTop'
  BY <1>10, <1>12 DEF GraphInv, GraphSound, EntryOnTop
<1>19. WalkInLayer'
  BY <1>1, <1>10, <1>12 DEF GraphInv, WalkInLayer, Floor, window
<1>20. Budget'
  <2>1. todo' \subseteq Members(layer) \ {New}
    BY <1>1, <1>10 DEF GraphInv, Budget
  <2>2. \A l \in Layers : l < layer => links'[l][New] = {}
    BY <1>1, <1>11 DEF GraphInv, Budget, Layers
  <2> QED BY <1>1, <1>10, <1>11, <1>12, <1>14, <2>1, <2>2 DEF Budget
<1> QED BY <1>15, <1>16, <1>17, <1>18, <1>19, <1>20 DEF GraphInv, GraphSound

\* Pruning the new point in the layer just linked.
LEMMA PruneNew ==
  ASSUME GraphInv, step = "connect", UNCHANGED <<vectors, levels>>,
         links' = [links EXCEPT ![layer] = Pruned(links[layer], New)]
  PROVE  /\ links' \in [Layers -> [Places -> SUBSET Places]]
         /\ Symmetric' /\ Bounded'
         /\ \A l \in Layers, p \in Places : links'[l][p] \subseteq links[l][p]
<1> DEFINE Ms == Members(layer)
           L == Pruned(links[layer], New)
<1>1. layer \in Layers /\ New \in Nodes /\ vectors \in Seq(Vectors)
  BY NewIsLast DEF GraphInv, GraphSound, GraphTypeOK, WalkInLayer
<1>2. links \in [Layers -> [Places -> SUBSET Places]] /\ links[layer] \in [Places -> SUBSET Places]
  BY <1>1 DEF GraphInv, GraphSound, GraphTypeOK
<1>3. /\ L \in [Places -> SUBSET Places]
      /\ \A q \in Places : L[q] \subseteq links[layer][q]
      /\ SymmetricIn(L, Ms)
  <2>1. Ms \in SUBSET Nodes /\ Nodes \subseteq Places /\ SymmetricIn(links[layer], Ms)
    BY <1>1, InLayer
  <2> QED BY <2>1, <1>1, <1>2, PrunedIsSound
<1> HIDE DEF L
<1>4. links'[layer] = L /\ \A l \in Layers \ {layer} : links'[l] = links[l]
  BY <1>1, <1>2 DEF L
<1>5. links' \in [Layers -> [Places -> SUBSET Places]]
  BY <1>2, <1>3 DEF L
<1>6. \A l \in Layers, p \in Places : links'[l][p] \subseteq links[l][p]
  BY <1>3, <1>4
<1>7. Symmetric'
  <2>1. \A l \in Layers : Members(l)' = Members(l)
    BY DEF Members, Nodes
  <2>2. \A l \in Layers : SymmetricIn(links'[l], Members(l))
    BY <1>3, <1>4, InLayer
  <2> QED BY <2>1, <2>2 DEF Symmetric, SymmetricIn
<1>8. Bounded'
  <2> SUFFICES ASSUME NEW l \in Layers, NEW p \in Places PROVE Cardinality(links'[l][p]) <= M
    BY DEF Bounded
  <2>1. links[l][p] \in SUBSET Nodes
    BY InLayer
  <2>2. IsFiniteSet(links[l][p]) /\ Cardinality(links[l][p]) \in Nat
    BY <1>1, <2>1, PointsFinite
  <2>3. /\ Cardinality(links'[l][p]) <= Cardinality(links[l][p])
        /\ Cardinality(links'[l][p]) \in Nat
    BY <1>6, <2>2, FS_Subset, FS_CardinalityType
  <2>4. Cardinality(links[l][p]) <= M
    BY DEF GraphInv, GraphSound, Bounded
  <2> QED BY <2>2, <2>3, <2>4, HnswAssumption
<1> QED BY <1>5, <1>6, <1>7, <1>8

LEMMA NextLayerInv == ASSUME GraphInv, NextLayer PROVE GraphInv'
<1>1. /\ step = "connect" /\ op = "insert" /\ layer \in Layers /\ vectors # <<>>
      /\ layer <= Floor /\ layer > 0 /\ entry \in Members(layer)
  BY DEF NextLayer, GraphInv, GraphSound, GraphTypeOK, WalkInLayer
<1>2. /\ links' = [links EXCEPT ![layer] = Pruned(links[layer], New)]
      /\ layer' = layer - 1 /\ StartLayer(entry)
      /\ UNCHANGED <<vectors, levels, entryPoint, maxLevel, op, query, breadth, todo, visited, passed,
                    scores>>
  BY DEF NextLayer
<1>3. layer - 1 \in Layers
  BY <1>1, HnswAssumption DEF Layers
<1>4. entry \in Members(layer - 1) /\ entry \in Nodes
  BY <1>1, <1>3, LayerBelow, InLayer, HnswAssumption DEF Layers
<1>5. Nodes' = Nodes /\ New' = New /\ Floor' = Floor
      /\ \A l \in Layers : Members(l)' = Members(l)
  BY <1>2 DEF Nodes, New, Floor, Members
<1>6. GraphTypeOK'
  BY <1>1, <1>2, <1>3, <1>4, <1>5, PruneNew, InLayer DEF GraphInv, GraphSound, GraphTypeOK, StartLayer
<1>7. EntryOnTop'
  BY <1>2, <1>5 DEF GraphInv, GraphSound, EntryOnTop
<1>8. WalkInLayer'
  <2>1. Floor \in Int /\ layer - 1 <= Floor
    <3>1. Floor = levels[New] /\ New \in Nodes
      BY <1>1, NewIsLast DEF Floor, New
    <3> QED BY <3>1, <1>1, <1>3, InLayer, HnswAssumption DEF Layers
  <2>2. entry' \in Members(layer)'
    BY <1>2, <1>3, <1>4 DEF StartLayer, Members, Nodes
  <2> QED BY <1>1, <1>2, <1>5, <2>1, <2>2 DEF WalkInLayer, StartLayer
<1>9. Budget'
  <2>1. \A l \in Layers : l < layer => links[l][New] = {}
    BY <1>1 DEF GraphInv, Budget
  <2>2. New \in Places
    BY <1>1, NewIsLast, InLayer
  <2>3. \A l \in Layers : l < layer => links'[l][New] = {}
    BY <1>1, <1>2, <2>1, <2>2, PruneNew
  <2>4. \A l \in Layers : l < layer - 1 \/ l = layer - 1 => l < layer
    BY <1>1, HnswAssumption DEF Layers
  <2> QED BY <1>2, <1>5, <2>3, <2>4 DEF Budget, StartLayer
<1> QED BY <1>1, <1>2, <1>6, <1>7, <1>8, <1>9, PruneNew DEF GraphInv, GraphSound

LEMMA InsertedInv == ASSUME GraphInv, Inserted PROVE GraphInv'
<1>1. step = "connect" /\ op = "insert" /\ layer = 0 /\ vectors # <<>>
  BY DEF Inserted, GraphInv, WalkInLayer
<1>2. /\ links' = [links EXCEPT ![layer] = Pruned(links[layer], New)]
      /\ Rest /\ UNCHANGED <<vectors, levels, query>>
  BY <1>1 DEF Inserted
<1>3. \/ NewIsHighest /\ entryPoint' = New /\ maxLevel' = levels[New]
      \/ ~ NewIsHighest /\ UNCHANGED <<entryPoint, maxLevel>>
  BY DEF Inserted
<1>4. New \in Nodes /\ levels[New] \in Layers /\ Nodes' = Nodes /\ New' = New
  BY <1>1, <1>2, NewIsLast, InLayer DEF Nodes, New
<1>5. GraphTypeOK'
  <2>1. links' \in [Layers -> [Places -> SUBSET Places]]
    BY <1>1, <1>2, PruneNew
  <2>2. entryPoint' \in Places \cup {None} /\ maxLevel' \in Layers \cup {-1}
    BY <1>3, <1>4, InLayer DEF GraphInv, GraphSound, GraphTypeOK
  <2>3. 0 \in Layers /\ EfConstruct \in Nat \ {0}
    BY HnswAssumption DEF Layers
  <2>4. /\ op' \in {"idle", "insert", "search"} /\ layer' \in Layers
        /\ step' \in {"idle", "descend", "explore", "connect", "answer"}
        /\ entry' \in Places \cup {None} /\ breadth' \in Nat \ {0}
        /\ seen' = {} /\ best' = {} /\ frontier' = {} /\ current' = None
        /\ todo' = {} /\ visited' = {} /\ passed' = {} /\ scores' = {}
    BY <1>2, <2>3 DEF Rest
  <2>5. /\ vectors' \in Seq(Vectors) /\ Len(vectors') <= MaxPoints
        /\ levels' \in Seq(Layers) /\ Len(levels') = Len(vectors')
        /\ query' \in Vectors
    BY <1>2 DEF GraphInv, GraphSound, GraphTypeOK
  <2> QED BY <2>1, <2>2, <2>4, <2>5 DEF GraphTypeOK
<1>6. EntryOnTop'
  <2>1. /\ entryPoint \in Nodes /\ levels[entryPoint] = maxLevel
        /\ \A p \in Nodes : levels[p] <= maxLevel \/ p = New
    BY <1>1 DEF GraphInv, GraphSound, EntryOnTop
  <2>2. \A p \in Nodes : levels[p] \in Int
    BY InLayer, HnswAssumption DEF Layers
  <2>3. CASE NewIsHighest
    BY <1>2, <1>3, <1>4, <2>1, <2>2, <2>3 DEF EntryOnTop, NewIsHighest
  <2>4. CASE ~ NewIsHighest
    BY <1>2, <1>3, <1>4, <2>1, <2>2, <2>4 DEF EntryOnTop, NewIsHighest
  <2> QED BY <2>3, <2>4
<1>7. WalkInLayer' /\ Budget'
  BY <1>2 DEF Rest, WalkInLayer, Budget
<1> QED BY <1>1, <1>2, <1>5, <1>6, <1>7, PruneNew DEF GraphInv, GraphSound

-----------------------------------------------------------------------------
LEMMA GraphNextInv == ASSUME GraphInv, [GraphNext]_graphVars PROVE GraphInv'
<1>1. CASE UNCHANGED graphVars
  <2>1. UNCHANGED <<vectors, levels, links, entryPoint, maxLevel, op, step, query, layer, entry,
                    breadth, seen, best, frontier, current, todo, visited, passed, scores>>
    BY <1>1 DEF graphVars, graph, window
  <2>2. UNCHANGED graph
    BY <2>1 DEF graph
  <2> QED BY <2>1, <2>2, SameGraph
          DEF GraphInv, GraphSound, GraphTypeOK, WalkInLayer, Budget, Floor, New, Nodes, Members
<1> QED BY <1>1, InsertFirstInv, InsertInv, SearchKeepsGraph, GreedyInv, ExpandInv, LookInv, ChooseInv,
           ConnectInv, NextLayerInv, InsertedInv, RestartInv, AnswerInv, ReturnInv
        DEF GraphNext, Step

\* Whatever the vectors, the score and the levels are, and after every step of an
\* insertion, links go both ways between members of their layer, nobody has more
\* than M of them, and the entry point is in the highest layer (_insert, _prune).
THEOREM GraphStaysSound == GraphSpec => []GraphSound
<1>1. GraphInit => GraphInv
  BY GraphInitInv
<1>2. GraphInv /\ [GraphNext]_graphVars => GraphInv'
  BY GraphNextInv
<1>3. GraphInv => GraphSound
  BY DEF GraphInv
<1> QED BY <1>1, <1>2, <1>3, PTL DEF GraphSpec

\* A search or an insertion never follows a link out of the layer it is in, and a
\* new point is linked to no more than M others in a layer (_search_layer, _insert).
THEOREM WalksStayInLayer == GraphSpec => [](WalkInLayer /\ Budget)
<1>1. GraphInv => WalkInLayer /\ Budget
  BY DEF GraphInv
<1> QED BY <1>1, GraphInitInv, GraphNextInv, PTL DEF GraphSpec

-----------------------------------------------------------------------------
(***************************************************************************)
(* What a search of the graph of Hnsw finds, for any vectors, any score    *)
(* and any graph that insertions can build.                                *)
(***************************************************************************)
\* The window holds the best of what was seen, and whatever of it is neither waiting
\* to be expanded nor being expanded has only neighbours that were seen.
WindowIsBest ==
  step = "explore" =>
    /\ best = Best(query, seen, breadth)
    /\ \A p \in best \ frontier : p # current => links[layer][p] \subseteq seen

\* What a search has visited without scoring it, its descent has passed, unless its
\* window was full.  The entry point is visited from the beginning, and passed by the
\* first move.
PassedAbove ==
  op = "search" =>
    /\ step = "descend" =>
         /\ visited \subseteq passed \cup {entryPoint} /\ scores = {}
         /\ entryPoint = entry \/ entryPoint \in passed
    /\ step = "explore" /\ Cardinality(scores) < breadth =>
         visited \subseteq scores \cup seen \cup passed

SearchInvariant == WindowIsBest /\ PassedAbove /\ FillsWindow

-----------------------------------------------------------------------------
(***************************************************************************)
(* The best of a set.                                                      *)
(***************************************************************************)
\* If the best k do not include a point of the set, they are k, and each is better
\* than that point.
LEMMA BestIsFull ==
  ASSUME vectors \in Seq(Vectors), NEW x \in Vectors,
         NEW S \in SUBSET Nodes, NEW k \in Nat, NEW z \in S \ Best(x, S, k)
  PROVE  /\ Cardinality(Best(x, S, k)) = k
         /\ \A p \in Best(x, S, k) : Closer(x, p, z)
<1>1. Orders(CloserBy(x), S) /\ Best(x, S, k) = FirstOf(CloserBy(x), S, k)
  BY BestIsFirst
<1>2. /\ Cardinality(Best(x, S, k)) = k
      /\ \A p \in Best(x, S, k) : <<p, z>> \in CloserBy(x)
  BY <1>1, FirstAreFull
<1> QED BY <1>2 DEF CloserBy

\* A window that is not full holds everything.
LEMMA BestHoldsAll ==
  ASSUME vectors \in Seq(Vectors), NEW x \in Vectors,
         NEW S \in SUBSET Nodes, NEW k \in Nat, Cardinality(Best(x, S, k)) < k
  PROVE  Best(x, S, k) = S
BY BestIsFirst, FewAreAll

\* What falls out of the window can be forgotten.
LEMMA BestOfBest ==
  ASSUME vectors \in Seq(Vectors), NEW x \in Vectors,
         NEW S \in SUBSET Nodes, NEW n \in Nodes, NEW k \in Nat
  PROVE  Best(x, Best(x, S, k) \cup {n}, k) = Best(x, S \cup {n}, k)
<1>1. Best(x, S, k) \subseteq S
  BY DEF Best
<1>2. /\ Orders(CloserBy(x), S \cup {n})
      /\ Best(x, S, k) = FirstOf(CloserBy(x), S, k)
      /\ Best(x, S \cup {n}, k) = FirstOf(CloserBy(x), S \cup {n}, k)
  BY BestIsFirst
<1> DEFINE W == Best(x, S, k) \cup {n}
           T == S \cup {n}
<1>3. W \in SUBSET Nodes /\ W \in SUBSET T /\ T \ S \subseteq W /\ S \in SUBSET T
      /\ FirstOf(CloserBy(x), S, k) \subseteq W
  BY <1>1, <1>2
<1> HIDE DEF W, T
<1>4. Orders(CloserBy(x), T) /\ Best(x, T, k) = FirstOf(CloserBy(x), T, k)
  BY <1>2 DEF T
<1>5. Best(x, W, k) = FirstOf(CloserBy(x), W, k)
  BY <1>3, BestIsFirst
<1>6. FirstOf(CloserBy(x), W, k) = FirstOf(CloserBy(x), T, k)
  BY <1>3, <1>4, FirstAndRest
<1> QED BY <1>4, <1>5, <1>6 DEF W, T

-----------------------------------------------------------------------------
(***************************************************************************)
(* The steps.                                                              *)
(***************************************************************************)
\* The search of a layer starts with its entry in the window.
LEMMA StartsWithBest ==
  ASSUME GraphInv', NEW e \in Nodes', StartLayer(e)
  PROVE  WindowIsBest'
<1>1. vectors' \in Seq(Vectors) /\ query' \in Vectors /\ breadth' \in Nat \ {0}
  BY DEF GraphInv, GraphSound, GraphTypeOK
<1>2. seen' = {e} /\ best' = {e} /\ frontier' = {e}
  BY DEF StartLayer
<1>3. ~ Closer(query, e, e)'
  <2>1. vectors'[e] \in Vectors /\ e \in Int
    BY <1>1 DEF Nodes
  <2>2. Score(query', vectors'[e]) \in Int
    BY <1>1, <2>1, HnswAssumption
  <2> QED BY <2>1, <2>2 DEF Closer, ScoreOf
<1> DEFINE B == {q \in {e} : Closer(query, q, e)'}
<1>4. Cardinality(B) < breadth'
  <2>1. B = {}
    BY <1>3
  <2> HIDE DEF B
  <2> QED BY <1>1, <2>1, FS_EmptySet
<1>5. Best(query, seen, breadth)' = {e}
  BY <1>2, <1>4 DEF Best
<1> QED BY <1>2, <1>5 DEF WindowIsBest

LEMMA LookSearch == ASSUME GraphInv, SearchInvariant, Look PROVE SearchInvariant'
<1>1. step = "explore" /\ best = Best(query, seen, breadth)
  BY DEF Look, SearchInvariant, WindowIsBest
<1>2. PICK n \in Neighbours \ seen :
        /\ seen' = seen \cup {n}
        /\ best' = Best(query, best \cup {n}, breadth)
        /\ frontier' = IF n \in best' THEN frontier \cup {n} ELSE frontier
  BY DEF Look
<1>3. /\ vectors \in Seq(Vectors) /\ query \in Vectors /\ breadth \in Nat
      /\ seen \in SUBSET Nodes /\ layer \in Layers /\ current \in Nodes \cup {None}
  BY DEF GraphInv, GraphSound, GraphTypeOK
<1>4. n \in Nodes
  BY <1>3, InLayer DEF Neighbours, None
<1>5. UNCHANGED <<graph, op, step, query, layer, entry, breadth, current, todo, visited, passed, scores>>
  BY DEF Look
<1>6. best' = Best(query, seen \cup {n}, breadth)
  BY <1>1, <1>2, <1>3, <1>4, BestOfBest
<1>7. best' \subseteq best \cup {n}
  BY <1>2 DEF Best
<1>8. Best(query, seen, breadth)' = Best(query, seen \cup {n}, breadth)
  BY <1>2, <1>5 DEF Best, Closer, ScoreOf, graph
<1>9. WindowIsBest'
  <2>1. ASSUME NEW p \in best' \ frontier', p # current
        PROVE  links[layer][p] \subseteq seen'
    <3>1. p # n /\ p \in best \ frontier
      BY <1>2, <1>7, <2>1
    <3> QED BY <3>1, <2>1, <1>1, <1>2 DEF SearchInvariant, WindowIsBest
  <2> QED BY <1>5, <1>6, <1>8, <2>1 DEF WindowIsBest, graph
<1>10. PassedAbove'
  BY <1>1, <1>2, <1>5 DEF SearchInvariant, PassedAbove
<1>11. FillsWindow'
  BY <1>1, <1>5 DEF FillsWindow
<1> QED BY <1>9, <1>10, <1>11 DEF SearchInvariant

LEMMA ExpandSearch == ASSUME GraphInv, SearchInvariant, Expand PROVE SearchInvariant'
<1>1. step = "explore" /\ Neighbours \subseteq seen
  BY DEF Expand, Expanded
<1>2. /\ frontier' = frontier \ {current'}
      /\ UNCHANGED <<graph, op, step, query, layer, entry, breadth, seen, best, todo, visited, passed,
                    scores>>
  BY DEF Expand
<1>3. WindowIsBest'
  <2>1. best' = Best(query, seen, breadth)'
    BY <1>1, <1>2 DEF SearchInvariant, WindowIsBest, Best, Closer, ScoreOf, graph
  <2>2. ASSUME NEW p \in best \ frontier', p # current'
        PROVE  links[layer][p] \subseteq seen
    <3>1. p \in best \ frontier /\ p \in Nodes
      BY <1>2, <2>2 DEF GraphInv, GraphSound, GraphTypeOK
    <3>2. CASE p # current
      BY <3>1, <3>2, <1>1 DEF SearchInvariant, WindowIsBest
    <3>3. CASE p = current
      BY <3>1, <3>3, <1>1, InLayer DEF Neighbours, None
    <3> QED BY <3>2, <3>3
  <2> QED BY <1>2, <2>1, <2>2 DEF WindowIsBest, graph
<1>4. PassedAbove'
  BY <1>1, <1>2 DEF SearchInvariant, PassedAbove
<1>5. FillsWindow'
  BY <1>1, <1>2 DEF FillsWindow
<1> QED BY <1>3, <1>4, <1>5 DEF SearchInvariant

LEMMA SearchSearch == ASSUME GraphInv, SearchInvariant, Search PROVE SearchInvariant'
<1>1. GraphInv' /\ op = "idle" /\ vectors # <<>>
  BY SearchKeepsGraph DEF Search
<1>2. PICK x \in Vectors, b \in Breadths : Descend(x, 0)
  BY DEF Search
<1>3. UNCHANGED graph /\ visited' = {entryPoint} /\ scores' = {}
  BY DEF Search
<1>4. maxLevel \in Layers /\ entryPoint \in Nodes /\ levels[entryPoint] = maxLevel
  BY <1>1, InLayer DEF GraphInv, GraphSound, EntryOnTop
<1>5. Nodes' = Nodes /\ entryPoint' = entryPoint
  BY <1>3 DEF Nodes, graph
<1>6. CASE maxLevel > 0
  <2>1. step' = "descend" /\ entry' = entryPoint
    BY <1>2, <1>6 DEF Descend
  <2> QED BY <1>3, <1>5, <2>1 DEF SearchInvariant, WindowIsBest, PassedAbove, FillsWindow
<1>7. CASE ~ (maxLevel > 0)
  <2>1. StartLayer(entryPoint)
    BY <1>2, <1>7 DEF Descend
  <2>2. step' = "explore" /\ seen' = {entryPoint}
    BY <2>1 DEF StartLayer
  <2>3. WindowIsBest'
    BY <1>1, <1>4, <1>5, <2>1, StartsWithBest
  <2> QED BY <1>3, <2>2, <2>3 DEF SearchInvariant, PassedAbove, FillsWindow
<1> QED BY <1>6, <1>7

LEMMA GreedySearch == ASSUME GraphInv, SearchInvariant, Greedy PROVE SearchInvariant'
<1> DEFINE around == {entry} \cup links[layer][entry]
           next == First(query, around)
<1>1. /\ GraphInv' /\ step = "descend" /\ op \in {"insert", "search"} /\ layer \in Layers
      /\ entry \in Members(layer)
  BY GreedyInv DEF Greedy, GraphInv, GraphSound, GraphTypeOK, WalkInLayer
<1>2. UNCHANGED <<graph, op, query, breadth, todo, scores>>
  BY DEF Greedy
<1>3. Nodes' = Nodes /\ entryPoint' = entryPoint
  BY <1>2 DEF Nodes, graph
<1>4. entry \in Nodes
  BY <1>1, InLayer
<1>5. op = "search" => visited' = visited \cup around /\ passed' = passed \cup around
  BY DEF Greedy, Remembered
<1>6. op = "search" => visited' \subseteq passed' /\ entryPoint' \in passed' /\ scores' = {}
  BY <1>1, <1>2, <1>3, <1>5 DEF SearchInvariant, PassedAbove
<1> HIDE DEF around, next
<1>7. \/ step' = "descend"
      \/ StartLayer(entry)
  BY <1>1 DEF Greedy, around, next
<1>8. CASE step' = "descend"
  BY <1>2, <1>6, <1>8 DEF SearchInvariant, WindowIsBest, PassedAbove, FillsWindow
<1>9. CASE StartLayer(entry)
  <2>1. WindowIsBest'
    BY <1>1, <1>3, <1>4, <1>9, StartsWithBest
  <2>2. step' = "explore"
    BY <1>9 DEF StartLayer
  <2> QED BY <1>2, <1>6, <2>1, <2>2 DEF SearchInvariant, PassedAbove, FillsWindow
<1> QED BY <1>7, <1>8, <1>9

\* The window of a search that has found too few holds everything it has seen.
LEMMA FewIsAll ==
  ASSUME GraphInv, SearchInvariant, step = "explore", Cardinality(NextScores) < breadth
  PROVE  seen = best /\ Cardinality(scores) < breadth
<1>1. /\ vectors \in Seq(Vectors) /\ query \in Vectors /\ breadth \in Nat
      /\ seen \in SUBSET Nodes /\ best \in SUBSET Nodes /\ scores \in SUBSET Nodes
  BY DEF GraphInv, GraphSound, GraphTypeOK
<1>2. IsFiniteSet(NextScores) /\ Cardinality(NextScores) \in Nat
  BY <1>1, NextVisitedPoints, PointsFinite
<1>3. best \subseteq NextScores /\ scores \subseteq NextScores
  BY DEF NextScores
<1>4. /\ Cardinality(best) <= Cardinality(NextScores)
      /\ Cardinality(scores) <= Cardinality(NextScores)
  BY <1>2, <1>3, FS_Subset
<1>5. Cardinality(best) \in Nat /\ Cardinality(scores) \in Nat
  BY <1>1, PointsFinite
<1>6. Cardinality(best) < breadth /\ Cardinality(scores) < breadth
  BY <1>1, <1>2, <1>4, <1>5
<1>7. best = Best(query, seen, breadth)
  BY DEF SearchInvariant, WindowIsBest
<1> QED BY <1>1, <1>6, <1>7, BestHoldsAll

LEMMA RestartSearch == ASSUME GraphInv, SearchInvariant, Restart PROVE SearchInvariant'
<1>1. GraphInv' /\ step = "explore" /\ op = "search"
  BY RestartInv DEF Restart, LayerDone, Expanded
<1>2. /\ visited' = NextVisited /\ scores' = NextScores
      /\ UNCHANGED <<graph, op, query, layer, breadth, todo, passed>>
      /\ StartLayer(entry') /\ step' = "explore"
  BY DEF Restart, StartLayer
<1>3. entry' \in Nodes'
  BY <1>1, <1>2 DEF GraphInv, WalkInLayer, Members
<1>4. WindowIsBest'
  BY <1>1, <1>2, <1>3, StartsWithBest
<1>5. PassedAbove'
  <2>1. SUFFICES ASSUME Cardinality(NextScores) < breadth
                 PROVE  NextVisited \subseteq NextScores \cup passed
    BY <1>2 DEF PassedAbove
  <2>2. seen = best /\ Cardinality(scores) < breadth
    BY <1>1, <2>1, FewIsAll
  <2> QED BY <1>1, <2>2 DEF SearchInvariant, PassedAbove, NextVisited, NextScores
<1>6. FillsWindow'
  BY <1>2 DEF FillsWindow
<1> QED BY <1>4, <1>5, <1>6 DEF SearchInvariant

LEMMA AnswerSearch == ASSUME GraphInv, SearchInvariant, Answer PROVE SearchInvariant'
<1>1. step = "explore" /\ op = "search" /\ ~ Incomplete
  BY DEF Answer, LayerDone, Expanded
<1>2. /\ visited' = NextVisited /\ scores' = NextScores /\ step' = "answer"
      /\ UNCHANGED <<graph, op, query, layer, entry, breadth, window, todo, passed>>
  BY DEF Answer
<1>3. FillsWindow'
  <2>1. Nodes' = Nodes
    BY <1>2 DEF Nodes, graph
  <2>2. SUFFICES ASSUME Cardinality(NextScores) < breadth
                 PROVE  Nodes \ NextScores \subseteq passed
    BY <1>2, <2>1 DEF FillsWindow
  <2>3. seen = best /\ Cardinality(scores) < breadth
    BY <1>1, <2>2, FewIsAll
  <2>4. NextVisited = Nodes
    <3>1. /\ ~ (Cardinality(NextVisited) < Len(vectors))
          /\ vectors \in Seq(Vectors) /\ NextVisited \in SUBSET Nodes
      BY <1>1, <2>2, NextVisitedPoints DEF Incomplete, GraphInv, GraphSound, GraphTypeOK
    <3>2. IsFiniteSet(Nodes) /\ Cardinality(Nodes) = Len(vectors) /\ Len(vectors) \in Nat
      BY <3>1, PointsFinite
    <3>3. Cardinality(NextVisited) <= Cardinality(Nodes) /\ Cardinality(NextVisited) \in Nat
      BY <3>1, <3>2, FS_Subset, FS_CardinalityType
    <3>4. Cardinality(NextVisited) = Cardinality(Nodes)
      BY <3>1, <3>2, <3>3
    <3> QED BY <3>1, <3>2, <3>4, FS_Subset
  <2> QED BY <1>1, <2>3, <2>4 DEF SearchInvariant, PassedAbove, NextVisited, NextScores
<1> QED BY <1>2, <1>3 DEF SearchInvariant, WindowIsBest, PassedAbove

\* Insertions: only the window matters.
LEMMA InsertSearch ==
  ASSUME GraphInv, SearchInvariant, Insert \/ NextLayer
  PROVE  SearchInvariant'
<1>1. GraphInv' /\ op' = "insert"
  BY InsertInv, NextLayerInv DEF Insert, NextLayer, GraphInv, WalkInLayer
<1>2. step' = "descend" \/ (step' = "explore" /\ StartLayer(entry'))
  BY DEF Insert, NextLayer, Descend, StartLayer
<1>3. step' = "explore" => entry' \in Nodes'
  BY <1>1 DEF GraphInv, WalkInLayer, Members
<1>4. WindowIsBest'
  BY <1>1, <1>2, <1>3, StartsWithBest DEF WindowIsBest
<1> QED BY <1>1, <1>2, <1>4 DEF SearchInvariant, PassedAbove, FillsWindow

LEMMA OtherSearch ==
  ASSUME GraphInv, SearchInvariant, InsertFirst \/ Choose \/ Connect \/ Inserted \/ Return
  PROVE  SearchInvariant'
<1>1. step' \in {"idle", "connect"} /\ op' \in {"idle", "insert"}
  BY DEF InsertFirst, Choose, Connect, Inserted, Return, Rest, GraphInv, WalkInLayer
<1> QED BY <1>1 DEF SearchInvariant, WindowIsBest, PassedAbove, FillsWindow

LEMMA NextSearch == ASSUME GraphInv, SearchInvariant, [GraphNext]_graphVars PROVE SearchInvariant'
<1>1. CASE UNCHANGED graphVars
  BY <1>1 DEF graphVars, graph, window, SearchInvariant, WindowIsBest, PassedAbove, FillsWindow,
              Best, Closer, ScoreOf, Members, Nodes
<1> QED BY <1>1, LookSearch, ExpandSearch, SearchSearch, GreedySearch, RestartSearch,
           AnswerSearch, InsertSearch, OtherSearch
        DEF GraphNext, Step

LEMMA InitSearch == GraphInit => SearchInvariant
BY DEF GraphInit, SearchInvariant, WindowIsBest, PassedAbove, FillsWindow

\* When nothing of the frontier can enter a full window, nothing of the window is left
\* to expand.
LEMMA StoppedIsConverged == ASSUME GraphInv, SearchInvariant PROVE Converged
<1> SUFFICES ASSUME LayerDone PROVE Converged
  BY DEF Converged
<1>1. /\ step = "explore" /\ Neighbours \subseteq seen
      /\ frontier # {} => Stops(First(query, frontier))
  BY DEF LayerDone, Expanded
<1>2. best = Best(query, seen, breadth)
  BY <1>1 DEF SearchInvariant, WindowIsBest
<1>3. ASSUME NEW p \in best PROVE links[layer][p] \subseteq seen
  <2>1. p \in Nodes
    BY DEF GraphInv, GraphSound, GraphTypeOK
  <2>2. p \notin frontier
    <3> SUFFICES ASSUME p \in frontier PROVE FALSE
      OBVIOUS
    <3> DEFINE f == First(query, frontier)
    <3>1. f \in frontier /\ \A q \in frontier \ {f} : Closer(query, f, q)
      BY FirstIsBest DEF GraphInv, GraphSound, GraphTypeOK
    <3>2. ScoreOf(query, f) < ScoreOf(query, p)
      BY <1>1 DEF Stops
    <3> HIDE DEF f
    <3>3. f \in Nodes /\ vectors[f] \in Vectors /\ vectors[p] \in Vectors /\ query \in Vectors
      BY <3>1, <2>1 DEF GraphInv, GraphSound, GraphTypeOK, Nodes
    <3>4. ScoreOf(query, f) \in Int /\ ScoreOf(query, p) \in Int
      BY <3>3, HnswAssumption DEF ScoreOf
    <3> QED BY <3>1, <3>2, <3>4 DEF Closer
  <2>3. CASE p = current
    BY <2>1, <2>3, <1>1, InLayer DEF Neighbours, None
  <2>4. CASE p # current
    BY <2>2, <2>4, <1>1 DEF SearchInvariant, WindowIsBest
  <2> QED BY <2>3, <2>4
<1> QED BY <1>2, <1>3 DEF Converged

-----------------------------------------------------------------------------
\* For any graph and any order of neighbours, when the search of a layer stops its
\* window is the best of all it has seen, and the neighbours of the window are among
\* that (_search_layer).
THEOREM SearchConverges == GraphSpec => []Converged
<1>1. GraphInit => GraphInv /\ SearchInvariant
  BY GraphInitInv, InitSearch
<1>2. GraphInv /\ SearchInvariant /\ [GraphNext]_graphVars => GraphInv' /\ SearchInvariant'
  BY GraphNextInv, NextSearch
<1>3. GraphInv /\ SearchInvariant => Converged
  BY StoppedIsConverged
<1> QED BY <1>1, <1>2, <1>3, PTL DEF GraphSpec

\* For any graph, a search that returns fewer candidates than asked for has scored
\* every point but some that it passed above layer 0 (search, and its restarts).
THEOREM SearchFillsWindow == GraphSpec => []FillsWindow
<1>1. GraphInit => GraphInv /\ SearchInvariant
  BY GraphInitInv, InitSearch
<1>2. GraphInv /\ SearchInvariant /\ [GraphNext]_graphVars => GraphInv' /\ SearchInvariant'
  BY GraphNextInv, NextSearch
<1>3. SearchInvariant => FillsWindow
  BY DEF SearchInvariant
<1> QED BY <1>1, <1>2, <1>3, PTL DEF GraphSpec

-----------------------------------------------------------------------------
(***************************************************************************)
(* Recursion over the elements of a set, each of which is made of others:  *)
(* if no set of them is without one that is made of none of it, a          *)
(* recursive definition has its solution.                                  *)
(***************************************************************************)
Founded(C, parts) ==
  /\ parts \in [C -> SUBSET C]
  /\ \A S \in (SUBSET C) \ {{}} : \E c \in S : parts[c] \cap S = {}

\* The next value of c depends on the values of its parts only.
Looks(C, V, parts, next) ==
  /\ next \in [C \X [C -> V] -> V]
  /\ \A c \in C, f, g \in [C -> V] :
       (\A p \in parts[c] : f[p] = g[p]) => next[<<c, f>>] = next[<<c, g>>]

\* f solves the definition on D, which has the parts of its elements.
Solves(D, f, C, V, parts, next) ==
  /\ D \in SUBSET C /\ f \in [C -> V]
  /\ \A c \in D : parts[c] \subseteq D /\ f[c] = next[<<c, f>>]

LEMMA SolutionsAgree ==
  ASSUME NEW C, NEW V, NEW parts, NEW next, Founded(C, parts), Looks(C, V, parts, next),
         NEW D, NEW f, Solves(D, f, C, V, parts, next),
         NEW E, NEW g, Solves(E, g, C, V, parts, next)
  PROVE  \A c \in D \cap E : f[c] = g[c]
<1> DEFINE S == {c \in D \cap E : f[c] # g[c]}
<1>1. SUFFICES ASSUME S # {} PROVE FALSE
  OBVIOUS
<1>2. S \in SUBSET C
  BY DEF Solves
<1>3. PICK c \in S : parts[c] \cap S = {}
  <2> HIDE DEF S
  <2> QED BY <1>1, <1>2 DEF Founded
<1>4. c \in C /\ c \in D /\ c \in E /\ f[c] # g[c]
  BY <1>2
<1>5. \A p \in parts[c] : f[p] = g[p]
  BY <1>3, <1>4 DEF Solves
<1>6. next[<<c, f>>] = next[<<c, g>>]
  BY <1>4, <1>5 DEF Looks, Solves
<1> QED BY <1>4, <1>6 DEF Solves

LEMMA RecursionExists ==
  ASSUME NEW C, NEW V, NEW parts, NEW next, Founded(C, parts), Looks(C, V, parts, next),
         NEW v0 \in V
  PROVE  \E f \in [C -> V] : \A c \in C : f[c] = next[<<c, f>>]
<1> DEFINE Solved == {c \in C : \E D, f : c \in D /\ Solves(D, f, C, V, parts, next)}
           Solution(c) == CHOOSE f : \E D : c \in D /\ Solves(D, f, C, V, parts, next)
           F == [c \in C |-> IF c \in Solved THEN Solution(c)[c] ELSE v0]
<1>1. ASSUME NEW D, NEW f, Solves(D, f, C, V, parts, next), NEW c \in D
      PROVE  c \in Solved /\ F[c] = f[c]
  <2>1. c \in C /\ c \in Solved
    BY <1>1 DEF Solves
  <2>2. \E E : c \in E /\ Solves(E, Solution(c), C, V, parts, next)
    BY <1>1
  <2> HIDE DEF Solution
  <2>3. PICK E : c \in E /\ Solves(E, Solution(c), C, V, parts, next)
    BY <2>2
  <2>4. Solution(c)[c] = f[c]
    BY <1>1, <2>3, SolutionsAgree
  <2> QED BY <2>1, <2>4
<1>2. ASSUME NEW c \in Solved
      PROVE  \E D, f : c \in D /\ Solves(D, f, C, V, parts, next)
  OBVIOUS
<1>3. F \in [C -> V]
  <2>1. ASSUME NEW c \in Solved PROVE F[c] \in V
    <3>1. PICK D, f : c \in D /\ Solves(D, f, C, V, parts, next)
      BY <1>2
    <3>2. F[c] = f[c]
      BY <3>1, <1>1
    <3>3. f[c] \in V
      BY <3>1 DEF Solves
    <3> QED BY <3>2, <3>3
  <2>2. \A c \in C : F[c] \in V
    BY <2>1
  <2> HIDE DEF Solution, Solved
  <2> QED BY <2>2
<1>4. Solved \in SUBSET C
  OBVIOUS
<1> HIDE DEF Solved, F
<1>5. Solves(Solved, F, C, V, parts, next)
  <2>1. ASSUME NEW c \in Solved
        PROVE  parts[c] \subseteq Solved /\ F[c] = next[<<c, F>>]
    <3>1. PICK D, f : c \in D /\ Solves(D, f, C, V, parts, next)
      BY <1>2
    <3>2. \A d \in D : d \in Solved /\ F[d] = f[d]
      BY <3>1, <1>1
    <3>3. c \in C /\ f \in [C -> V] /\ parts[c] \subseteq D /\ f[c] = next[<<c, f>>]
      BY <3>1 DEF Solves
    <3>4. next[<<c, F>>] = next[<<c, f>>]
      BY <3>2, <3>3, <1>3 DEF Looks
    <3> QED BY <3>1, <3>2, <3>3, <3>4
  <2> QED BY <2>1, <1>3, <1>4 DEF Solves
<1>6. Solved = C
  <2>1. SUFFICES ASSUME C \ Solved # {} PROVE FALSE
    BY <1>4
  <2>2. PICK c \in C \ Solved : parts[c] \cap (C \ Solved) = {}
    BY <2>1 DEF Founded
  <2> DEFINE g == [F EXCEPT ![c] = next[<<c, F>>]]
             D == Solved \cup {c}
  <2>3. next[<<c, F>>] \in V
    BY <1>3, <2>2 DEF Looks
  <2>4. g \in [C -> V] /\ g[c] = next[<<c, F>>] /\ \A d \in Solved : g[d] = F[d]
    BY <1>3, <1>4, <2>2, <2>3
  <2>5. parts[c] \subseteq Solved
    BY <2>2 DEF Founded
  <2>6. \A d \in D : d \in C /\ parts[d] \subseteq Solved
    BY <1>4, <1>5, <2>2, <2>5 DEF Solves
  <2> HIDE DEF g
  <2>7. \A d \in D : next[<<d, g>>] = next[<<d, F>>]
    BY <1>3, <2>4, <2>6 DEF Looks
  <2>8. \A d \in D : g[d] = next[<<d, g>>]
    BY <1>5, <2>4, <2>7 DEF Solves
  <2>9. Solves(D, g, C, V, parts, next)
    BY <1>4, <2>2, <2>4, <2>6, <2>8 DEF Solves
  <2> HIDE DEF D
  <2>10. c \in D
    BY DEF D
  <2> QED BY <1>1, <2>2, <2>9, <2>10
<1> QED BY <1>3, <1>5, <1>6 DEF Solves

-----------------------------------------------------------------------------
(***************************************************************************)
(* Folds over a finite set, one element less at a time.                    *)
(***************************************************************************)
Picks(S, pick) == IsFiniteSet(S) /\ \A s \in (SUBSET S) \ {{}} : pick[s] \in s

Remaining(s, pick) == s \ {pick[s]}

OneLess(S, pick) == [s \in SUBSET S |-> IF s = {} THEN {} ELSE {Remaining(s, pick)}]

LEMMA OneLessIsFounded ==
  ASSUME NEW S, NEW pick, Picks(S, pick)
  PROVE  Founded(SUBSET S, OneLess(S, pick))
<1>1. OneLess(S, pick) \in [SUBSET S -> SUBSET SUBSET S]
  BY DEF OneLess, Remaining
<1>2. ASSUME NEW T \in (SUBSET SUBSET S) \ {{}}
      PROVE  \E s \in T : OneLess(S, pick)[s] \cap T = {}
  <2> DEFINE sizes == {Cardinality(s) : s \in T}
  <2>1. \A s \in SUBSET S : IsFiniteSet(s) /\ Cardinality(s) \in Nat
    BY FS_Subset, FS_CardinalityType DEF Picks
  <2>2. sizes \in SUBSET Nat /\ sizes # {}
    BY <2>1
  <2>3. PICK n \in sizes : \A m \in sizes : n <= m
    <3> HIDE DEF sizes
    <3> QED BY <2>2, LeastNat
  <2>4. PICK s \in T : n = Cardinality(s)
    BY <2>3
  <2>5. CASE s = {}
    BY <2>5, <2>4 DEF OneLess
  <2>6. CASE s # {}
    <3>1. pick[s] \in s /\ s \in SUBSET S
      BY <2>6 DEF Picks
    <3>2. Cardinality(Remaining(s, pick)) = Cardinality(s) - 1
      BY <2>1, <3>1, FS_RemoveElement DEF Remaining
    <3>3. Remaining(s, pick) \notin T
      <4>1. SUFFICES ASSUME Remaining(s, pick) \in T PROVE FALSE
        OBVIOUS
      <4>2. n <= Cardinality(Remaining(s, pick))
        BY <4>1, <2>3
      <4> QED BY <4>2, <3>1, <3>2, <2>1, <2>4
    <3> QED BY <2>6, <3>1, <3>3 DEF OneLess
  <2> QED BY <2>5, <2>6
<1> QED BY <1>1, <1>2 DEF Founded

\* What holds of the empty set, and of a set if it holds of the rest, holds of the whole.
LEMMA FoldKeeps ==
  ASSUME NEW S, NEW pick, Picks(S, pick), NEW J,
         {} \in J,
         \A s \in (SUBSET S) \ {{}} : Remaining(s, pick) \in J => s \in J
  PROVE  S \in J
<1> DEFINE T == (SUBSET S) \ J
<1>1. SUFFICES ASSUME T # {} PROVE FALSE
  OBVIOUS
<1>2. Founded(SUBSET S, OneLess(S, pick))
  BY OneLessIsFounded
<1>3. PICK s \in T : OneLess(S, pick)[s] \cap T = {}
  <2>1. T \in (SUBSET SUBSET S) \ {{}}
    BY <1>1
  <2> HIDE DEF T
  <2> QED BY <2>1, <1>2 DEF Founded
<1>4. s # {} /\ Remaining(s, pick) \in SUBSET S
  BY DEF Remaining
<1>5. Remaining(s, pick) \notin T
  BY <1>3, <1>4 DEF OneLess
<1> QED BY <1>4, <1>5

Folds(it, S, pick, V, base, put) ==
  /\ it \in [SUBSET S -> V]
  /\ \A s \in SUBSET S :
       it[s] = IF s = {} THEN base ELSE put[<<pick[s], it[Remaining(s, pick)]>>]

LEMMA FoldExists ==
  ASSUME NEW S, NEW pick, Picks(S, pick),
         NEW V, NEW base \in V, NEW put \in [S \X V -> V]
  PROVE  \E it : Folds(it, S, pick, V, base, put)
<1> DEFINE C == SUBSET S
           next == [pair \in C \X [C -> V] |->
                      IF pair[1] = {} THEN base
                      ELSE put[<<pick[pair[1]], pair[2][Remaining(pair[1], pick)]>>]]
<1>1. Founded(C, OneLess(S, pick))
  BY OneLessIsFounded
<1>2. \A s \in C \ {{}} : pick[s] \in S /\ Remaining(s, pick) \in C
  BY DEF Picks, Remaining
<1>3. \A s \in C, f \in [C -> V] :
        next[<<s, f>>] = IF s = {} THEN base ELSE put[<<pick[s], f[Remaining(s, pick)]>>]
  OBVIOUS
<1>4. ASSUME NEW s \in C, NEW f \in [C -> V]
      PROVE  (IF s = {} THEN base ELSE put[<<pick[s], f[Remaining(s, pick)]>>]) \in V
  BY <1>2
<1>5. next \in [C \X [C -> V] -> V]
  <2>1. ASSUME NEW pair \in C \X [C -> V] PROVE next[pair] \in V
    <3>1. PICK s \in C, f \in [C -> V] : pair = <<s, f>>
      OBVIOUS
    <3> HIDE DEF next, C
    <3> QED BY <3>1, <1>3, <1>4
  <2> QED BY <2>1
<1> HIDE DEF next
<1>6. Looks(C, V, OneLess(S, pick), next)
  <2>1. ASSUME NEW s \in C, NEW f \in [C -> V], NEW g \in [C -> V],
               \A p \in OneLess(S, pick)[s] : f[p] = g[p]
        PROVE  next[<<s, f>>] = next[<<s, g>>]
    <3>1. s # {} => f[Remaining(s, pick)] = g[Remaining(s, pick)]
      BY <2>1 DEF OneLess
    <3> HIDE DEF C
    <3> QED BY <3>1, <1>3
  <2> HIDE DEF C
  <2> QED BY <2>1, <1>5 DEF Looks
<1> HIDE DEF C
<1>7. PICK f \in [C -> V] : \A s \in C : f[s] = next[<<s, f>>]
  BY <1>1, <1>6, RecursionExists
<1>8. \A s \in C : f[s] = IF s = {} THEN base ELSE put[<<pick[s], f[Remaining(s, pick)]>>]
  BY <1>3, <1>7
<1> QED BY <1>7, <1>8 DEF C, Folds

-----------------------------------------------------------------------------
(***************************************************************************)
(* Conditions are well founded, so their evaluation and their resolution   *)
(* are what their definitions say.                                         *)
(***************************************************************************)
PartsOf == [c \in Conditions |-> Parts(c)]

LEMMA ConditionsAreFounded == Founded(Conditions, PartsOf)
<1>1. PartsOf \in [Conditions -> SUBSET Conditions]
  BY FilterAssumption DEF PartsOf
<1>2. ASSUME NEW S \in (SUBSET Conditions) \ {{}} PROVE \E c \in S : PartsOf[c] \cap S = {}
  BY FilterAssumption DEF PartsOf
<1> QED BY <1>1, <1>2 DEF Founded

LEMMA PartsAreConditions ==
  ASSUME NEW c \in Conditions
  PROVE  /\ c.kind \in Kinds
         /\ c.kind = "filter" =>
              /\ c.must \subseteq PartsOf[c] /\ c.should \subseteq PartsOf[c]
              /\ c.mustNot \subseteq PartsOf[c] /\ PartsOf[c] \subseteq Conditions
BY FilterAssumption DEF PartsOf, Parts

MatchOf(id, payload, f, c) ==
  CASE c.kind = "filter" -> /\ \A p \in c.must : f[p]
                            /\ \A p \in c.mustNot : ~f[p]
                            /\ c.should = {} \/ \E p \in c.should : f[p]
    [] c.kind = "has_id" -> id \in c.ids
    [] c.kind = "match"  -> \E v \in ValuesAt(payload, c.path) : Equal(v, c.value)
    [] c.kind = "range"  -> \E v \in ValuesAt(payload, c.path) : Within(v, c.bounds)

LEMMA MatchesIsSolved ==
  ASSUME NEW id, NEW payload
  PROVE  \E m : /\ \A c \in Conditions : m[c] = MatchOf(id, payload, m, c)
                /\ \A c : MatchesFilter(id, payload, c) = m[c]
<1> DEFINE next == [pair \in Conditions \X [Conditions -> BOOLEAN] |->
                      MatchOf(id, payload, pair[2], pair[1])]
<1>1. \A c \in Conditions, f \in [Conditions -> BOOLEAN] :
        next[<<c, f>>] = MatchOf(id, payload, f, c)
  OBVIOUS
<1>2. ASSUME NEW c \in Conditions, NEW f PROVE MatchOf(id, payload, f, c) \in BOOLEAN
  <2>1. c.kind \in Kinds
    BY PartsAreConditions
  <2>2. CASE c.kind = "has_id"
    BY <2>2 DEF MatchOf
  <2>3. CASE c.kind = "match"
    BY <2>3 DEF MatchOf
  <2>4. CASE c.kind = "range"
    BY <2>4 DEF MatchOf
  <2>5. CASE c.kind = "filter"
    BY <2>5 DEF MatchOf
  <2> QED BY <2>1, <2>2, <2>3, <2>4, <2>5 DEF Kinds
<1>3. ASSUME NEW c \in Conditions, NEW f, NEW g, \A p \in PartsOf[c] : f[p] = g[p]
      PROVE  MatchOf(id, payload, f, c) = MatchOf(id, payload, g, c)
  <2>1. c.kind \in Kinds
    BY PartsAreConditions
  <2>2. CASE c.kind = "has_id"
    BY <2>2 DEF MatchOf
  <2>3. CASE c.kind = "match"
    BY <2>3 DEF MatchOf
  <2>4. CASE c.kind = "range"
    BY <2>4 DEF MatchOf
  <2>5. CASE c.kind = "filter"
    <3>1. /\ \A p \in c.must : f[p] = g[p]
          /\ \A p \in c.should : f[p] = g[p]
          /\ \A p \in c.mustNot : f[p] = g[p]
      BY <1>3, <2>5, PartsAreConditions
    <3> QED BY <2>5, <3>1 DEF MatchOf
  <2> QED BY <2>1, <2>2, <2>3, <2>4, <2>5 DEF Kinds
<1>4. next \in [Conditions \X [Conditions -> BOOLEAN] -> BOOLEAN]
  <2>1. ASSUME NEW pair \in Conditions \X [Conditions -> BOOLEAN] PROVE next[pair] \in BOOLEAN
    BY <1>2
  <2> QED BY <2>1
<1>5. Looks(Conditions, BOOLEAN, PartsOf, next)
  <2>1. ASSUME NEW c \in Conditions, NEW f \in [Conditions -> BOOLEAN],
               NEW g \in [Conditions -> BOOLEAN], \A p \in PartsOf[c] : f[p] = g[p]
        PROVE  next[<<c, f>>] = next[<<c, g>>]
    BY <2>1, <1>1, <1>3
  <2> HIDE DEF next
  <2> QED BY <2>1, <1>4 DEF Looks
<1> HIDE DEF next
<1>6. PICK f \in [Conditions -> BOOLEAN] : \A c \in Conditions : f[c] = next[<<c, f>>]
  <2> DEFINE V == BOOLEAN
             v0 == CHOOSE v \in BOOLEAN : v
  <2>1. Looks(Conditions, V, PartsOf, next) /\ v0 \in V
    BY <1>5
  <2> HIDE DEF V, v0
  <2>2. \E f \in [Conditions -> V] : \A c \in Conditions : f[c] = next[<<c, f>>]
    BY ConditionsAreFounded, <2>1, RecursionExists
  <2> QED BY <2>2 DEF V
<1>7. f = [c \in Conditions |-> MatchOf(id, payload, f, c)]
  BY <1>1, <1>6
<1> DEFINE m == CHOOSE m : m = [c \in Conditions |-> MatchOf(id, payload, m, c)]
<1>8. m = [c \in Conditions |-> MatchOf(id, payload, m, c)]
  BY <1>7
<1>9. \A c : MatchesFilter(id, payload, c) = m[c]
  BY DEF MatchesFilter, MatchOf
<1> HIDE DEF m
<1>10. \A c \in Conditions : m[c] = MatchOf(id, payload, m, c)
  BY <1>8
<1> QED BY <1>9, <1>10

\* What a filter, or a single condition, asks of a point.
LEMMA MatchesUnfolds ==
  ASSUME NEW id, NEW payload, NEW c \in Conditions
  PROVE  /\ c.kind = "has_id" => (MatchesFilter(id, payload, c) <=> id \in c.ids)
         /\ c.kind = "match" =>
              (MatchesFilter(id, payload, c)
                 <=> \E v \in ValuesAt(payload, c.path) : Equal(v, c.value))
         /\ c.kind = "range" =>
              (MatchesFilter(id, payload, c)
                 <=> \E v \in ValuesAt(payload, c.path) : Within(v, c.bounds))
         /\ c.kind = "filter" =>
              (MatchesFilter(id, payload, c)
                 <=> /\ \A p \in c.must : MatchesFilter(id, payload, p)
                     /\ \A p \in c.mustNot : ~ MatchesFilter(id, payload, p)
                     /\ c.should = {} \/ \E p \in c.should : MatchesFilter(id, payload, p))
<1>1. PICK m : /\ \A d \in Conditions : m[d] = MatchOf(id, payload, m, d)
               /\ \A d : MatchesFilter(id, payload, d) = m[d]
  BY MatchesIsSolved
<1>2. m[c] = MatchOf(id, payload, m, c) /\ MatchesFilter(id, payload, c) = m[c]
  BY <1>1
<1>3. CASE c.kind = "has_id"
  BY <1>2, <1>3 DEF MatchOf
<1>4. CASE c.kind = "match"
  BY <1>2, <1>4 DEF MatchOf
<1>5. CASE c.kind = "range"
  BY <1>2, <1>5 DEF MatchOf
<1>6. CASE c.kind = "filter"
  BY <1>1, <1>2, <1>6 DEF MatchOf
<1> QED BY <1>3, <1>4, <1>5, <1>6

LEMMA NoFilterMatches ==
  ASSUME NEW id, NEW payload
  PROVE  MatchesFilter(id, payload, NoFilter)
<1>1. NoFilter \in Conditions
  BY FilterAssumption
<1>2. /\ NoFilter.kind = "filter" /\ NoFilter.must = {} /\ NoFilter.mustNot = {}
      /\ NoFilter.should = {}
  BY DEF NoFilter, Filter
<1> QED BY <1>1, <1>2, MatchesUnfolds

\* A condition and the parts of its parts.
LEMMA AllPartsUnfold ==
  ASSUME NEW c \in Conditions
  PROVE  /\ c \in AllParts(c)
         /\ \A p \in PartsOf[c] : AllParts(p) \subseteq AllParts(c)
<1> DEFINE V == SUBSET Conditions
           grown(f, d) == {d} \cup UNION {f[p] : p \in Parts(d)}
           next == [pair \in Conditions \X [Conditions -> V] |-> grown(pair[2], pair[1])]
<1>1. \A d \in Conditions : Parts(d) = PartsOf[d] /\ PartsOf[d] \subseteq Conditions
  BY FilterAssumption DEF PartsOf
<1>2. \A d \in Conditions, f \in [Conditions -> V] : next[<<d, f>>] = grown(f, d)
  OBVIOUS
<1>3. next \in [Conditions \X [Conditions -> V] -> V]
  <2>1. ASSUME NEW pair \in Conditions \X [Conditions -> V] PROVE next[pair] \in V
    <3>1. pair[1] \in Conditions /\ pair[2] \in [Conditions -> V]
      OBVIOUS
    <3>2. \A p \in Parts(pair[1]) : pair[2][p] \subseteq Conditions
      BY <3>1, <1>1
    <3>3. grown(pair[2], pair[1]) \subseteq Conditions
      BY <3>1, <3>2
    <3> QED BY <3>3
  <2> QED BY <2>1
<1>4. Looks(Conditions, V, PartsOf, next)
  <2>1. ASSUME NEW d \in Conditions, NEW f \in [Conditions -> V],
               NEW g \in [Conditions -> V], \A p \in PartsOf[d] : f[p] = g[p]
        PROVE  next[<<d, f>>] = next[<<d, g>>]
    <3>1. {f[p] : p \in Parts(d)} = {g[p] : p \in Parts(d)}
      BY <1>1, <2>1
    <3>2. grown(f, d) = grown(g, d)
      BY <3>1
    <3> HIDE DEF grown, next, V
    <3> QED BY <1>2, <2>1, <3>2
  <2> HIDE DEF V, next
  <2> QED BY <2>1, <1>3 DEF Looks
<1>5. Conditions \in V
  OBVIOUS
<1> HIDE DEF next, V
<1>6. PICK f \in [Conditions -> V] : \A d \in Conditions : f[d] = next[<<d, f>>]
  BY ConditionsAreFounded, <1>4, <1>5, RecursionExists
<1>7. f = [d \in Conditions |-> grown(f, d)]
  BY <1>2, <1>6
<1> DEFINE a == CHOOSE a : a = [d \in Conditions |-> grown(a, d)]
<1>8. a = [d \in Conditions |-> grown(a, d)]
  BY <1>7
<1>9. \A d : AllParts(d) = a[d]
  BY DEF AllParts
<1> HIDE DEF a
<1>10. a[c] = grown(a, c)
  BY <1>8
<1> QED BY <1>1, <1>9, <1>10

Resolutions(live) == [ids : SUBSET live, exact : BOOLEAN]

ResolveOf(live, indexes, f, c) ==
  CASE c.kind = "filter" ->
         Combined(live, {f[p] : p \in c.must}, {f[p] : p \in c.should},
                  {f[p] : p \in c.mustNot})
    [] c.kind = "has_id" -> [ids |-> live \cap c.ids, exact |-> TRUE]
    [] c.kind = "match" ->
         IF c.path \in DOMAIN indexes
         THEN [ids |-> live \cap IndexMatch(indexes[c.path], c.value), exact |-> TRUE]
         ELSE Unresolved(live)
    [] c.kind = "range" ->
         IF c.path \in DOMAIN indexes /\ AnswersRanges(indexes[c.path].schema)
         THEN [ids |-> live \cap IndexRange(indexes[c.path], c.bounds), exact |-> TRUE]
         ELSE Unresolved(live)

LEMMA ResolveIsSolved ==
  ASSUME NEW live, NEW indexes
  PROVE  \E f \in [Conditions -> Resolutions(live)] :
           /\ \A c \in Conditions : f[c] = ResolveOf(live, indexes, f, c)
           /\ \A c : Resolve(live, indexes, c) = f[c]
<1> DEFINE V == Resolutions(live)
           next == [pair \in Conditions \X [Conditions -> V] |->
                      ResolveOf(live, indexes, pair[2], pair[1])]
<1>1. \A c \in Conditions, f \in [Conditions -> V] :
        next[<<c, f>>] = ResolveOf(live, indexes, f, c)
  OBVIOUS
<1>2. ASSUME NEW c \in Conditions, NEW f PROVE ResolveOf(live, indexes, f, c) \in V
  <2>1. c.kind \in Kinds
    BY PartsAreConditions
  <2>2. CASE c.kind = "has_id"
    BY <2>2 DEF ResolveOf, Resolutions
  <2>3. CASE c.kind = "match"
    BY <2>3 DEF ResolveOf, Resolutions, Unresolved
  <2>4. CASE c.kind = "range"
    BY <2>4 DEF ResolveOf, Resolutions, Unresolved
  <2>5. CASE c.kind = "filter"
    <3>1. \A must, should, mustNot : Combined(live, must, should, mustNot) \in Resolutions(live)
      BY DEF Combined, Resolutions
    <3> QED BY <2>5, <3>1 DEF ResolveOf
  <2> QED BY <2>1, <2>2, <2>3, <2>4, <2>5 DEF Kinds
<1>3. ASSUME NEW c \in Conditions, NEW f, NEW g, \A p \in PartsOf[c] : f[p] = g[p]
      PROVE  ResolveOf(live, indexes, f, c) = ResolveOf(live, indexes, g, c)
  <2>1. c.kind \in Kinds
    BY PartsAreConditions
  <2>2. CASE c.kind = "has_id"
    BY <2>2 DEF ResolveOf
  <2>3. CASE c.kind = "match"
    BY <2>3 DEF ResolveOf
  <2>4. CASE c.kind = "range"
    BY <2>4 DEF ResolveOf
  <2>5. CASE c.kind = "filter"
    <3>1. /\ {f[p] : p \in c.must} = {g[p] : p \in c.must}
          /\ {f[p] : p \in c.should} = {g[p] : p \in c.should}
          /\ {f[p] : p \in c.mustNot} = {g[p] : p \in c.mustNot}
      <4>1. /\ \A p \in c.must : f[p] = g[p]
            /\ \A p \in c.should : f[p] = g[p]
            /\ \A p \in c.mustNot : f[p] = g[p]
        BY <1>3, <2>5, PartsAreConditions
      <4> QED BY <4>1
    <3> QED BY <2>5, <3>1 DEF ResolveOf
  <2> QED BY <2>1, <2>2, <2>3, <2>4, <2>5 DEF Kinds
<1>4. next \in [Conditions \X [Conditions -> V] -> V]
  <2>1. ASSUME NEW pair \in Conditions \X [Conditions -> V] PROVE next[pair] \in V
    <3> HIDE DEF V
    <3> QED BY <1>2
  <2> QED BY <2>1
<1> HIDE DEF next
<1>5. Looks(Conditions, V, PartsOf, next)
  <2>1. ASSUME NEW c \in Conditions, NEW f \in [Conditions -> V],
               NEW g \in [Conditions -> V], \A p \in PartsOf[c] : f[p] = g[p]
        PROVE  next[<<c, f>>] = next[<<c, g>>]
    <3> HIDE DEF V
    <3> QED BY <2>1, <1>1, <1>3
  <2> HIDE DEF V
  <2> QED BY <2>1, <1>4 DEF Looks
<1>6. Unresolved(live) \in V
  BY DEF Unresolved, Resolutions
<1> HIDE DEF V
<1>7. PICK f \in [Conditions -> V] : \A c \in Conditions : f[c] = next[<<c, f>>]
  BY ConditionsAreFounded, <1>5, <1>6, RecursionExists
<1>8. f = [c \in Conditions |-> ResolveOf(live, indexes, f, c)]
  BY <1>1, <1>7
<1> DEFINE m == CHOOSE m : m = [c \in Conditions |-> ResolveOf(live, indexes, m, c)]
<1>9. m = [c \in Conditions |-> ResolveOf(live, indexes, m, c)]
  BY <1>8
<1>10. \A c : Resolve(live, indexes, c) = m[c]
  BY DEF Resolve, ResolveOf
<1> HIDE DEF m
<1>11. \A c \in Conditions : m[c] = ResolveOf(live, indexes, m, c)
  BY <1>9
<1>12. m \in [Conditions -> V]
  BY <1>2, <1>9
<1> QED BY <1>10, <1>11, <1>12 DEF V

-----------------------------------------------------------------------------
(***************************************************************************)
(* What a condition resolves to: no point that meets it is left out and,   *)
(* if the answer is exact, no other is in.                                 *)
(***************************************************************************)
Meeting(seg, c) ==
  {id \in LivePointsOf(seg) : MatchesFilter(id, seg[id].val.payload, c)}

Bounds(resolved, hits) ==
  hits \subseteq resolved.ids /\ (resolved.exact => resolved.ids = hits)

\* What the index of a path answers: it knows the values its schema accepts.
LEMMA IndexAnswers ==
  ASSUME NEW seg, NEW declared, NEW p \in DOMAIN declared, NEW id \in LivePointsOf(seg)
  PROVE  LET index == BuiltIndexes(seg, declared)[p]
             known == {v \in ValuesAt(seg[id].val.payload, p) : Accepts(declared[p], v)}
         IN  /\ \A v \in Scalars :
                  id \in IndexMatch(index, v)
                    <=> Accepts(declared[p], v) /\ \E w \in known : Equal(w, v)
             /\ \A bounds : id \in IndexRange(index, bounds)
                              <=> \E v \in known : Within(v, bounds)
<1> DEFINE index == BuiltIndexes(seg, declared)[p]
           known == {v \in ValuesAt(seg[id].val.payload, p) : Accepts(declared[p], v)}
<1>1. index = BuiltIndex(seg, p, declared[p])
  BY DEF BuiltIndexes
<1>2. id \in Ids
  BY DEF LivePointsOf
<1> DEFINE accepted == [i \in Ids |-> IF i \in LivePointsOf(seg)
                                      THEN {v \in ValuesAt(seg[i].val.payload, p) :
                                              Accepts(declared[p], v)}
                                      ELSE {}]
           equals == [k \in Keys |-> {i \in Ids : k \in KeysOf(accepted[i])}]
<1>3. index = [schema |-> declared[p], values |-> accepted, equals |-> equals]
  BY <1>1 DEF BuiltIndex
<1>4. accepted[id] = known
  BY <1>2
<1>5. index.schema = declared[p] /\ index.values[id] = known
  <2> HIDE DEF accepted, equals, known, index
  <2> QED BY <1>3, <1>4
<1>6. \A k \in Keys : id \in index.equals[k] <=> k \in KeysOf(known)
  <2> HIDE DEF accepted, known, index
  <2> QED BY <1>2, <1>3, <1>4
<1> HIDE DEF index, known
<1>7. \A v \in Scalars : id \in IndexMatch(index, v)
                           <=> Accepts(declared[p], v) /\ \E w \in known : Equal(w, v)
  <2> SUFFICES ASSUME NEW v \in Scalars
               PROVE  id \in IndexMatch(index, v)
                        <=> Accepts(declared[p], v) /\ \E w \in known : Equal(w, v)
    OBVIOUS
  <2>1. Key(v) \in Keys
    BY DEF Keys
  <2>2. Key(v) \in KeysOf(known) <=> \E w \in known : Equal(w, v)
    BY DEF KeysOf, Equal
  <2>3. id \in index.equals[Key(v)] <=> \E w \in known : Equal(w, v)
    BY <1>6, <2>1, <2>2
  <2> QED BY <1>5, <2>3 DEF IndexMatch
<1>8. \A bounds : id \in IndexRange(index, bounds) <=> \E v \in known : Within(v, bounds)
  BY <1>2, <1>5 DEF IndexRange
<1> QED BY <1>7, <1>8 DEF index, known

Images(f, S) == {f[p] : p \in S}

Met(live, hits, must, should, mustNot) ==
  {id \in live : /\ \A p \in must : id \in hits[p]
                 /\ \A p \in mustNot : id \notin hits[p]
                 /\ should = {} \/ \E p \in should : id \in hits[p]}

\* _resolve_filter keeps both bounds, if those of its conditions are right.
LEMMA CombinedBounds ==
  ASSUME NEW live, NEW f, NEW hits, NEW must, NEW should, NEW mustNot,
         \A p \in must \cup should \cup mustNot :
           f[p] \in Resolutions(live) /\ hits[p] \subseteq live /\ Bounds(f[p], hits[p])
  PROVE  Bounds(Combined(live, Images(f, must), Images(f, should), Images(f, mustNot)),
                Met(live, hits, must, should, mustNot))
<1> DEFINE must1 == Images(f, must)
           should1 == Images(f, should)
           mustNot1 == Images(f, mustNot)
           met == Met(live, hits, must, should, mustNot)
           shouldExact == \A r \in should1 : r.exact
           allowed == IF should1 # {} /\ shouldExact THEN UNION {r.ids : r \in should1} ELSE live
           r == Combined(live, must1, should1, mustNot1)
<1>1. /\ r.ids = {id \in live \cap allowed : \A q \in must1 : id \in q.ids} \ Excluded(mustNot1)
      /\ r.exact = (shouldExact /\ \A q \in must1 \cup mustNot1 : q.exact)
  BY DEF Combined
<1>2. \A id : id \in Excluded(mustNot1) <=> \E p \in mustNot : f[p].exact /\ id \in f[p].ids
  BY DEF Excluded, Images
<1>3. \A id : id \in allowed <=> IF should # {} /\ \A p \in should : f[p].exact
                                 THEN \E p \in should : id \in f[p].ids ELSE id \in live
  BY DEF Images
<1>4. \A id : (\A q \in must1 : id \in q.ids) <=> \A p \in must : id \in f[p].ids
  BY DEF Images
<1>5. r.exact => /\ \A p \in must : f[p].exact
                 /\ \A p \in should : f[p].exact
                 /\ \A p \in mustNot : f[p].exact
  BY <1>1 DEF Images
<1>6. \A id : id \in r.ids <=> /\ id \in live /\ id \in allowed
                               /\ \A p \in must : id \in f[p].ids
                               /\ ~ \E p \in mustNot : f[p].exact /\ id \in f[p].ids
  BY <1>1, <1>2, <1>4
<1> HIDE DEF r, allowed
<1>7. ASSUME NEW id \in met PROVE id \in r.ids
  <2>1. id \in live /\ \A p \in must : id \in f[p].ids
    BY DEF Bounds, Met
  <2>2. ~ \E p \in mustNot : f[p].exact /\ id \in f[p].ids
    BY DEF Bounds, Met
  <2>3. id \in allowed
    BY <1>3, <2>1 DEF Bounds, Met
  <2> QED BY <1>6, <2>1, <2>2, <2>3
<1>8. ASSUME r.exact, NEW id \in r.ids PROVE id \in met
  <2>1. \A p \in must \cup should \cup mustNot : f[p].ids = hits[p]
    BY <1>5, <1>8 DEF Bounds
  <2>2. id \in live /\ \A p \in must : id \in hits[p]
    BY <1>6, <1>8, <2>1
  <2>3. \A p \in mustNot : id \notin hits[p]
    BY <1>5, <1>6, <1>8, <2>1
  <2>4. should = {} \/ \E p \in should : id \in hits[p]
    BY <1>3, <1>5, <1>6, <1>8, <2>1
  <2> QED BY <2>2, <2>3, <2>4 DEF Met
<1> HIDE DEF met
<1>9. Bounds(r, met)
  BY <1>7, <1>8 DEF Bounds
<1> QED BY <1>9 DEF r, met

\* Whatever is indexed, and nested as the condition may be.
LEMMA ResolutionBounds ==
  ASSUME NEW seg, NEW declared
  PROVE  \A c \in Conditions :
           WellTyped(seg, declared, c) =>
           LET r == Resolve(LivePointsOf(seg), BuiltIndexes(seg, declared), c)
           IN  r \in Resolutions(LivePointsOf(seg)) /\ Bounds(r, Meeting(seg, c))
<1> DEFINE live == LivePointsOf(seg)
           indexes == BuiltIndexes(seg, declared)
           hits == [c \in Conditions |-> Meeting(seg, c)]
<1>1. PICK f \in [Conditions -> Resolutions(live)] :
        /\ \A c \in Conditions : f[c] = ResolveOf(live, indexes, f, c)
        /\ \A c : Resolve(live, indexes, c) = f[c]
  BY ResolveIsSolved
<1>2. \A c \in Conditions : hits[c] = Meeting(seg, c) /\ Meeting(seg, c) \subseteq live
  BY DEF Meeting
<1>3. DOMAIN indexes = DOMAIN declared /\ \A p \in DOMAIN declared : indexes[p].schema = declared[p]
  BY DEF BuiltIndexes, BuiltIndex
<1>4. \A p \in DOMAIN declared, id \in live :
        /\ \A v \in Scalars :
             id \in IndexMatch(indexes[p], v)
               <=> /\ Accepts(declared[p], v)
                   /\ \E w \in ValuesAt(seg[id].val.payload, p) :
                        Accepts(declared[p], w) /\ Equal(w, v)
        /\ \A bounds :
             id \in IndexRange(indexes[p], bounds)
               <=> \E v \in ValuesAt(seg[id].val.payload, p) :
                     Accepts(declared[p], v) /\ Within(v, bounds)
  BY IndexAnswers
<1> DEFINE bad == {c \in Conditions : WellTyped(seg, declared, c) /\ ~ Bounds(f[c], hits[c])}
<1>5. bad = {}
  <2>1. SUFFICES ASSUME bad # {} PROVE FALSE
    OBVIOUS
  <2>2. PICK c \in bad : PartsOf[c] \cap bad = {}
    <3>1. bad \in (SUBSET Conditions) \ {{}}
      BY <2>1
    <3> HIDE DEF bad
    <3> QED BY <3>1, ConditionsAreFounded DEF Founded
  <2>3. c \in Conditions /\ f[c] = ResolveOf(live, indexes, f, c) /\ c.kind \in Kinds
    BY <1>1, PartsAreConditions
  <2>a. WellTyped(seg, declared, c) /\ ~ Bounds(f[c], hits[c])
    BY <2>2
  <2>b. \A p \in PartsOf[c] : WellTyped(seg, declared, p)
    BY <2>a, <2>3, AllPartsUnfold DEF WellTyped
  <2>4. ~ Bounds(f[c], hits[c]) /\ \A p \in PartsOf[c] : p \in Conditions => Bounds(f[p], hits[p])
    BY <2>2, <2>a, <2>b
  <2>c. c.kind \in {"match", "range"} /\ c.path \in DOMAIN declared =>
          \A id \in live :
            TypesAgree(ValuesAt(seg[id].val.payload, c.path), declared[c.path], c)
    BY <2>a, <2>3, AllPartsUnfold DEF WellTyped
  <2> HIDE DEF bad, live, indexes, hits
  <2>5. Bounds(Unresolved(live), hits[c])
    BY <1>2, <2>3 DEF Bounds, Unresolved
  <2>6. CASE c.kind = "has_id"
    <3>1. f[c] = [ids |-> live \cap c.ids, exact |-> TRUE]
      BY <2>3, <2>6 DEF ResolveOf
    <3>2. \A id : id \in hits[c] <=> id \in live \cap c.ids
      BY <1>2, <2>3, <2>6, MatchesUnfolds DEF Meeting, live
    <3> QED BY <2>4, <3>1, <3>2 DEF Bounds
  <2>7. CASE c.kind = "match"
    <3>1. CASE c.path \in DOMAIN indexes
      <4>1. f[c] = [ids |-> live \cap IndexMatch(indexes[c.path], c.value), exact |-> TRUE]
        BY <2>3, <2>7, <3>1 DEF ResolveOf
      <4>2. \A id : id \in hits[c] <=> id \in live \cap IndexMatch(indexes[c.path], c.value)
        <5>1. \A id : id \in hits[c] <=>
                id \in live /\ \E v \in ValuesAt(seg[id].val.payload, c.path) : Equal(v, c.value)
          <6>1. \A id : id \in hits[c]
                          <=> id \in live /\ MatchesFilter(id, seg[id].val.payload, c)
            BY <1>2, <2>3 DEF Meeting, live
          <6>2. \A id : MatchesFilter(id, seg[id].val.payload, c)
                  <=> \E v \in ValuesAt(seg[id].val.payload, c.path) : Equal(v, c.value)
            BY <2>3, <2>7, MatchesUnfolds
          <6> QED BY <6>1, <6>2
        <5>2. c.value \in Scalars
          BY <2>3, <2>7, FilterAssumption
        <5>3. \A id \in live : \A v \in ValuesAt(seg[id].val.payload, c.path) :
                Equal(v, c.value)
                  => Accepts(declared[c.path], v) /\ Accepts(declared[c.path], c.value)
          BY <1>3, <2>c, <2>7, <3>1 DEF TypesAgree
        <5> QED BY <5>1, <5>2, <5>3, <1>3, <1>4, <3>1
      <4> QED BY <2>4, <4>1, <4>2 DEF Bounds
    <3>2. CASE c.path \notin DOMAIN indexes
      BY <2>3, <2>4, <2>5, <2>7, <3>2 DEF ResolveOf
    <3> QED BY <3>1, <3>2
  <2>8. CASE c.kind = "range"
    <3>1. CASE c.path \in DOMAIN indexes /\ AnswersRanges(indexes[c.path].schema)
      <4>1. f[c] = [ids |-> live \cap IndexRange(indexes[c.path], c.bounds), exact |-> TRUE]
        BY <2>3, <2>8, <3>1 DEF ResolveOf
      <4>2. \A id : id \in hits[c] <=> id \in live \cap IndexRange(indexes[c.path], c.bounds)
        <5> SUFFICES ASSUME NEW id \in live
                     PROVE  id \in hits[c] <=> id \in IndexRange(indexes[c.path], c.bounds)
          BY <1>2, <2>3
        <5>1. id \in hits[c] <=> MatchesFilter(id, seg[id].val.payload, c)
          BY <1>2, <2>3 DEF Meeting, live
        <5>2. MatchesFilter(id, seg[id].val.payload, c)
                <=> \E v \in ValuesAt(seg[id].val.payload, c.path) : Within(v, c.bounds)
          BY <2>3, <2>8, MatchesUnfolds
        <5>3. \A v \in ValuesAt(seg[id].val.payload, c.path) :
                Within(v, c.bounds) => Accepts(declared[c.path], v)
          BY <1>3, <2>c, <2>8, <3>1 DEF TypesAgree
        <5> QED BY <5>1, <5>2, <5>3, <1>3, <1>4, <3>1
      <4> QED BY <2>4, <4>1, <4>2 DEF Bounds
    <3>2. CASE ~ (c.path \in DOMAIN indexes /\ AnswersRanges(indexes[c.path].schema))
      BY <2>3, <2>4, <2>5, <2>8, <3>2 DEF ResolveOf
    <3> QED BY <3>1, <3>2
  <2>9. CASE c.kind = "filter"
    <3>1. f[c] = Combined(live, {f[p] : p \in c.must}, {f[p] : p \in c.should},
                          {f[p] : p \in c.mustNot})
      BY <2>3, <2>9 DEF ResolveOf
    <3>2. \A p \in c.must \cup c.should \cup c.mustNot : p \in Conditions /\ p \in PartsOf[c]
      BY <2>3, <2>9, PartsAreConditions
    <3>3. \A p \in c.must \cup c.should \cup c.mustNot :
            f[p] \in Resolutions(live) /\ hits[p] \subseteq live /\ Bounds(f[p], hits[p])
      BY <1>1, <1>2, <2>4, <3>2
    <3> DEFINE met == Met(live, hits, c.must, c.should, c.mustNot)
    <3>4. Bounds(f[c], met)
      <4>1. Bounds(Combined(live, Images(f, c.must), Images(f, c.should), Images(f, c.mustNot)),
                   met)
        BY <3>3, CombinedBounds
      <4> QED BY <3>1, <4>1 DEF Images
    <3>5. \A id \in live, p \in Conditions :
            id \in hits[p] <=> MatchesFilter(id, seg[id].val.payload, p)
      BY <1>2 DEF Meeting, live
    <3>6. \A id \in live : id \in hits[c] <=> id \in met
      <4> SUFFICES ASSUME NEW id \in live PROVE id \in hits[c] <=> id \in met
        OBVIOUS
      <4> DEFINE payload == seg[id].val.payload
      <4>1. MatchesFilter(id, payload, c)
              <=> /\ \A p \in c.must : MatchesFilter(id, payload, p)
                  /\ \A p \in c.mustNot : ~ MatchesFilter(id, payload, p)
                  /\ c.should = {} \/ \E p \in c.should : MatchesFilter(id, payload, p)
        BY <2>3, <2>9, MatchesUnfolds
      <4> QED BY <4>1, <3>2, <3>5, <2>3 DEF Met
    <3>7. hits[c] = met
      BY <3>6, <1>2, <2>3 DEF Met
    <3> QED BY <2>4, <3>4, <3>7
  <2> QED BY <2>3, <2>6, <2>7, <2>8, <2>9 DEF Kinds
<1>6. \A c \in Conditions : WellTyped(seg, declared, c) => Bounds(f[c], Meeting(seg, c))
  BY <1>5
<1> QED BY <1>1, <1>6

\* candidates(): what the residual lets through is what meets the filter.
LEMMA CandidatesAgree ==
  ASSUME NEW seg, NEW declared, NEW filter \in Conditions, WellTyped(seg, declared, filter)
  PROVE  LET found == Candidates(LivePointsOf(seg), BuiltIndexes(seg, declared), filter)
         IN  /\ found.ids \subseteq LivePointsOf(seg)
             /\ {id \in found.ids : MatchesFilter(id, seg[id].val.payload, found.residual)}
                  = Meeting(seg, filter)
<1> DEFINE live == LivePointsOf(seg)
           r == Resolve(live, BuiltIndexes(seg, declared), filter)
           found == Candidates(live, BuiltIndexes(seg, declared), filter)
<1>1. r \in Resolutions(live) /\ Bounds(r, Meeting(seg, filter))
  BY ResolutionBounds
<1>2. found.ids = r.ids /\ found.residual = IF r.exact THEN NoFilter ELSE filter
  BY DEF Candidates
<1> HIDE DEF r, found
<1>3. found.ids \subseteq live
  BY <1>1, <1>2 DEF Resolutions
<1>4. ASSUME NEW id \in found.ids
      PROVE  MatchesFilter(id, seg[id].val.payload, found.residual) <=> id \in Meeting(seg, filter)
  <2>1. CASE r.exact
    BY <1>1, <1>2, <1>4, <2>1, NoFilterMatches DEF Bounds
  <2>2. CASE ~ r.exact
    BY <1>2, <1>3, <1>4, <2>2 DEF Meeting
  <2> QED BY <2>1, <2>2
<1>5. Meeting(seg, filter) \subseteq found.ids
  BY <1>1, <1>2 DEF Bounds
<1>6. {id \in found.ids : MatchesFilter(id, seg[id].val.payload, found.residual)}
        = Meeting(seg, filter)
  BY <1>4, <1>5
<1> QED BY <1>3, <1>6 DEF found

-----------------------------------------------------------------------------
(***************************************************************************)
(* An index that follows the writes is the one that would be built.        *)
(***************************************************************************)
AcceptedValues(seg, path, schema) ==
  [id \in Ids |-> IF id \in LivePointsOf(seg)
                  THEN {v \in ValuesAt(seg[id].val.payload, path) : Accepts(schema, v)}
                  ELSE {}]

Having(accepted) == [k \in Keys |-> {id \in Ids : k \in KeysOf(accepted[id])}]

FieldIndex(schema, values, equals) ==
  [schema |-> schema, values |-> values, equals |-> equals]

IndexOf(schema, accepted) == FieldIndex(schema, accepted, Having(accepted))

Changed(index, id, new, equals) == [index EXCEPT !.values[id] = new, !.equals = equals]

LEMMA BuiltIs ==
  ASSUME NEW seg, NEW path, NEW schema
  PROVE  BuiltIndex(seg, path, schema) = IndexOf(schema, AcceptedValues(seg, path, schema))
BY DEF BuiltIndex, IndexOf, FieldIndex, Having, AcceptedValues

LEMMA IndexExcept ==
  ASSUME NEW schema, NEW f, NEW g, NEW id, NEW new, NEW equals
  PROVE  Changed(FieldIndex(schema, f, g), id, new, equals)
           = FieldIndex(schema, [f EXCEPT ![id] = new], equals)
<1> DEFINE index == FieldIndex(schema, f, g)
           values == [f EXCEPT ![id] = new]
           half == [index EXCEPT !.values[id] = new]
<1>0. index = [schema |-> schema, values |-> f, equals |-> g]
  BY DEF FieldIndex
<1> HIDE DEF index
<1>1. [index EXCEPT !.values = values] = [schema |-> schema, values |-> values, equals |-> g]
  <2> HIDE DEF values
  <2> QED BY <1>0
<1>2. half = [index EXCEPT !.values = values]
  BY <1>0
<1>3. [index EXCEPT !.values[id] = new, !.equals = equals] = [half EXCEPT !.equals = equals]
  OBVIOUS
<1>4. half = [schema |-> schema, values |-> values, equals |-> g]
  BY <1>1, <1>2
<1> HIDE DEF half, values
<1>5. [half EXCEPT !.equals = equals]
        = [schema |-> schema, values |-> values, equals |-> equals]
  BY <1>4
<1> QED BY <1>3, <1>5 DEF values, index, FieldIndex, Changed

LEMMA DeleteIs ==
  ASSUME NEW schema, NEW accepted, accepted = [i \in Ids |-> accepted[i]], NEW id \in Ids
  PROVE  IndexDelete(IndexOf(schema, accepted), id)
           = IndexOf(schema, [accepted EXCEPT ![id] = {}])
<1> DEFINE index == IndexOf(schema, accepted)
           new == [accepted EXCEPT ![id] = {}]
           equals == [k \in Keys |-> IF k \in KeysOf(accepted[id])
                                     THEN Having(accepted)[k] \ {id}
                                     ELSE Having(accepted)[k]]
<1>1. IndexDelete(index, id) = FieldIndex(schema, new, equals)
  <2>1. index.values = accepted /\ index.equals = Having(accepted)
    BY DEF IndexOf, FieldIndex
  <2>2. IndexDelete(index, id) = Changed(index, id, {}, equals)
    BY <2>1 DEF IndexDelete, Changed
  <2> DEFINE none == {}
  <2> HIDE DEF equals, none
  <2>3. Changed(FieldIndex(schema, accepted, Having(accepted)), id, none, equals)
          = FieldIndex(schema, [accepted EXCEPT ![id] = none], equals)
    BY ONLY IndexExcept
  <2> QED BY <2>2, <2>3 DEF IndexOf, none
<1>2. \A i \in Ids : new[i] = IF i = id THEN {} ELSE accepted[i]
  OBVIOUS
<1>a. KeysOf({}) = {}
  BY DEF KeysOf
<1>3. ASSUME NEW k \in Keys PROVE equals[k] = Having(new)[k]
  BY <1>2, <1>a DEF Having
<1>4. equals = Having(new)
  BY <1>3 DEF Having
<1> QED BY <1>1, <1>4 DEF IndexOf

Taken(schema, values) == {v \in values : Accepts(schema, v)}

LEMMA UpsertIs ==
  ASSUME NEW schema, NEW accepted, accepted = [i \in Ids |-> accepted[i]], NEW id \in Ids,
         NEW values
  PROVE  IndexUpsert(IndexOf(schema, accepted), id, values)
           = IndexOf(schema, [accepted EXCEPT ![id] = Taken(schema, values)])
<1> DEFINE cleared == [accepted EXCEPT ![id] = {}]
           taken == Taken(schema, values)
           new == [accepted EXCEPT ![id] = taken]
           equals == [k \in Keys |-> IF k \in KeysOf(taken)
                                     THEN Having(cleared)[k] \cup {id}
                                     ELSE Having(cleared)[k]]
           filled == [cleared EXCEPT ![id] = taken]
<1>1. IndexDelete(IndexOf(schema, accepted), id) = IndexOf(schema, cleared)
  BY DeleteIs
<1>2. IndexOf(schema, cleared).schema = schema
  BY DEF IndexOf, FieldIndex
<1>3. IndexUpsert(IndexOf(schema, accepted), id, values)
        = Changed(IndexOf(schema, cleared), id, taken, equals)
  <2>1. IndexOf(schema, accepted).schema = schema /\ IndexOf(schema, cleared).equals = Having(cleared)
    BY DEF IndexOf, FieldIndex
  <2> QED BY <1>1, <2>1 DEF IndexUpsert, Taken, Changed
<1>4. Changed(IndexOf(schema, cleared), id, taken, equals) = FieldIndex(schema, filled, equals)
  <2> HIDE DEF equals, cleared, taken
  <2> QED BY IndexExcept DEF IndexOf
<1>5. filled = new
  OBVIOUS
<1>6. \A i \in Ids : /\ new[i] = IF i = id THEN taken ELSE accepted[i]
                     /\ cleared[i] = IF i = id THEN {} ELSE accepted[i]
  OBVIOUS
<1> HIDE DEF taken
<1>a. KeysOf({}) = {}
  BY DEF KeysOf
<1>7. ASSUME NEW k \in Keys PROVE equals[k] = Having(new)[k]
  BY <1>6, <1>a DEF Having
<1>8. equals = Having(new)
  BY <1>7 DEF Having
<1> HIDE DEF new, filled, equals, cleared
<1> QED BY <1>3, <1>4, <1>5, <1>8 DEF IndexOf, new, taken

LEMMA WrittenIndex ==
  ASSUME NEW seg, NEW id \in Ids, NEW ver, NEW point, point # Gone, NEW path, NEW schema,
         NEW new, \A i \in Ids : new[i] = IF i = id THEN [ver |-> ver, val |-> point] ELSE seg[i]
  PROVE  IndexUpsert(BuiltIndex(seg, path, schema), id, ValuesAt(point.payload, path))
           = BuiltIndex(new, path, schema)
<1> DEFINE accepted == AcceptedValues(seg, path, schema)
           taken == Taken(schema, ValuesAt(point.payload, path))
<1>2. accepted = [i \in Ids |-> accepted[i]]
  BY DEF AcceptedValues
<1>3. IndexUpsert(IndexOf(schema, accepted), id, ValuesAt(point.payload, path))
        = IndexOf(schema, [accepted EXCEPT ![id] = taken])
  <2> HIDE DEF accepted
  <2> QED BY <1>2, UpsertIs
<1>4. AcceptedValues(new, path, schema) = [accepted EXCEPT ![id] = taken]
  <2>1. ASSUME NEW i \in Ids
        PROVE  AcceptedValues(new, path, schema)[i] = IF i = id THEN taken ELSE accepted[i]
    <3>1. i # id => (i \in LivePointsOf(new) <=> i \in LivePointsOf(seg))
      BY DEF LivePointsOf
    <3>2. id \in LivePointsOf(new) /\ new[id].val = point
      BY DEF LivePointsOf
    <3>3. CASE i = id
      BY <3>2, <3>3 DEF AcceptedValues, Taken
    <3>4. CASE i # id
      BY <3>1, <3>4 DEF AcceptedValues
    <3> QED BY <3>3, <3>4
  <2>2. AcceptedValues(new, path, schema) = [i \in Ids |-> AcceptedValues(new, path, schema)[i]]
    BY DEF AcceptedValues
  <2> HIDE DEF taken, accepted
  <2> QED BY <1>2, <2>1, <2>2
<1> QED BY <1>3, <1>4, BuiltIs

LEMMA DeletedIndex ==
  ASSUME NEW seg, NEW id \in Ids, NEW ver, NEW path, NEW schema,
         NEW new, \A i \in Ids : new[i] = IF i = id THEN [ver |-> ver, val |-> Gone] ELSE seg[i]
  PROVE  IndexDelete(BuiltIndex(seg, path, schema), id)
           = BuiltIndex(new, path, schema)
<1> DEFINE accepted == AcceptedValues(seg, path, schema)
<1>2. accepted = [i \in Ids |-> accepted[i]]
  BY DEF AcceptedValues
<1>3. IndexDelete(IndexOf(schema, accepted), id) = IndexOf(schema, [accepted EXCEPT ![id] = {}])
  <2> HIDE DEF accepted
  <2> QED BY <1>2, DeleteIs
<1>4. AcceptedValues(new, path, schema) = [accepted EXCEPT ![id] = {}]
  <2>1. ASSUME NEW i \in Ids
        PROVE  AcceptedValues(new, path, schema)[i] = IF i = id THEN {} ELSE accepted[i]
    <3>1. i # id => (i \in LivePointsOf(new) <=> i \in LivePointsOf(seg))
      BY DEF LivePointsOf
    <3>2. id \notin LivePointsOf(new)
      BY DEF LivePointsOf
    <3>3. CASE i = id
      BY <3>2, <3>3 DEF AcceptedValues
    <3>4. CASE i # id
      BY <3>1, <3>4 DEF AcceptedValues
    <3> QED BY <3>3, <3>4
  <2>2. AcceptedValues(new, path, schema) = [i \in Ids |-> AcceptedValues(new, path, schema)[i]]
    BY DEF AcceptedValues
  <2> HIDE DEF accepted
  <2> QED BY <1>2, <2>1, <2>2
<1> QED BY <1>3, <1>4, BuiltIs

-----------------------------------------------------------------------------
(***************************************************************************)
(* The inductive invariant.                                                *)
(***************************************************************************)
DeclaredSchemas == {s \in SchemaMap : \A p \in DOMAIN s : <<p, s[p]>> \in Declarable}

\* Segments of points that were written, so far.
WrittenSegment == [Ids -> {Absent} \cup [ver : 1 .. version, val : Points \cup {Gone}]]

StoredSegment ==
  [records : WrittenSegment, schemas : DeclaredSchemas, stored : DeclaredSchemas,
   indexed : BOOLEAN]

Held == {mutable} \cup {segments[i].records : i \in DOMAIN segments}

HeldIds == {id \in Ids : \E seg \in Held : seg[id] # Absent}

\* The type invariant; the indexes of the mutable segment are those that would be
\* built; a version is one record, wherever it is held; and what is held is finite.
StoreInv ==
  /\ version \in 0 .. MaxVersion
  /\ quantized \in BOOLEAN
  /\ schemas \in DeclaredSchemas
  /\ mutable \in WrittenSegment
  /\ segments \in Seq(StoredSegment)
  /\ mutableIndexes = BuiltIndexes(mutable, schemas)
  /\ \A a, b \in Held, id \in Ids : a[id].ver = b[id].ver => a[id] = b[id]
  /\ IsFiniteSet(HeldIds)

\* What the invariant says of segments.
LEMMA WrittenIsSegment == ASSUME StoreInv PROVE WrittenSegment \subseteq Segment
<1>1. version \in Nat
  BY SearchAssumption DEF StoreInv
<1>2. [ver : 1 .. version, val : Points \cup {Gone}] \subseteq Record
  BY <1>1, SearchAssumption DEF Record, Contents
<1>3. {Absent} \cup [ver : 1 .. version, val : Points \cup {Gone}] \subseteq Record
  BY <1>2 DEF Record
<1> QED BY <1>3 DEF WrittenSegment, Segment

LEMMA HeldAreWritten ==
  ASSUME StoreInv
  PROVE  /\ Held \subseteq WrittenSegment /\ Held \subseteq Segment
         /\ \A seg \in Held, id \in Ids :
              /\ seg[id].ver \in 0 .. version
              /\ seg[id].ver = 0 <=> seg[id] = Absent
              /\ seg[id].val \in Points \cup {Gone}
<1>1. \A i \in DOMAIN segments : segments[i] \in StoredSegment
  BY DEF StoreInv
<1>2. Held \subseteq WrittenSegment
  BY <1>1 DEF Held, StoreInv, StoredSegment
<1>3. ASSUME NEW seg \in Held, NEW id \in Ids
      PROVE  /\ seg[id].ver \in 0 .. version
             /\ seg[id].ver = 0 <=> seg[id] = Absent
             /\ seg[id].val \in Points \cup {Gone}
  <2>1. seg[id] \in {Absent} \cup [ver : 1 .. version, val : Points \cup {Gone}]
    BY <1>2 DEF WrittenSegment
  <2>2. version \in Nat
    BY SearchAssumption DEF StoreInv
  <2>3. CASE seg[id] = Absent
    BY <2>2, <2>3 DEF Absent
  <2>4. CASE seg[id] \in [ver : 1 .. version, val : Points \cup {Gone}]
    BY <2>2, <2>4 DEF Absent
  <2> QED BY <2>1, <2>3, <2>4
<1> QED BY <1>2, <1>3, WrittenIsSegment

LEMMA RecordsAreHeld ==
  ASSUME StoreInv
  PROVE  /\ Records(segments) \in Seq(Segment)
         /\ Len(Records(segments)) = Len(segments)
         /\ DOMAIN Records(segments) = DOMAIN segments
         /\ \A i \in DOMAIN segments : Records(segments)[i] = segments[i].records
         /\ Append(Records(segments), mutable) \in Seq(Segment)
<1>1. segments \in Seq(StoredSegment) /\ DOMAIN segments = 1 .. Len(segments)
      /\ Len(segments) \in Nat
  BY DEF StoreInv
<1>2. \A i \in DOMAIN segments : segments[i].records \in Held /\ mutable \in Held
  BY DEF Held
<1>3. mutable \in Segment /\ \A i \in DOMAIN segments : segments[i].records \in Segment
  BY <1>2, HeldAreWritten DEF Held
<1>4. Records(segments) \in [1 .. Len(segments) -> Segment]
  BY <1>1, <1>3 DEF Records
<1>5. Records(segments) \in Seq(Segment)
  BY <1>1, <1>4
<1>6. Len(Records(segments)) = Len(segments)
  BY <1>1, <1>4, <1>5
<1> QED BY <1>3, <1>5, <1>6 DEF Records

\* What is visible of an id is its newest record.
LEMMA VisibleIsNewest ==
  ASSUME StoreInv
  PROVE  /\ Visible \in Segment
         /\ \A id \in Ids : \E seg \in Held :
              /\ Visible[id] = seg[id]
              /\ \A other \in Held : other[id].ver <= seg[id].ver
<1> DEFINE all == Append(Records(segments), mutable)
<1>1. /\ all \in Seq(Segment) /\ all # <<>>
      /\ DOMAIN all = 1 .. Len(segments) + 1
      /\ all[Len(segments) + 1] = mutable
      /\ \A i \in DOMAIN segments : all[i] = segments[i].records
      /\ DOMAIN segments = 1 .. Len(segments) /\ Len(segments) \in Nat
  <2>1. segments \in Seq(StoredSegment)
    BY DEF StoreInv
  <2> QED BY <2>1, RecordsAreHeld
<1> HIDE DEF all
<1>2. \A i \in DOMAIN all : all[i] \in Held
  <2> TAKE i \in DOMAIN all
  <2>1. CASE i \in DOMAIN segments
    BY <1>1, <2>1 DEF Held
  <2>2. CASE i = Len(segments) + 1
    BY <1>1, <2>2 DEF Held
  <2> QED BY <1>1, <2>1, <2>2
<1>3. \A seg \in Held : \E i \in DOMAIN all : all[i] = seg
  BY <1>1 DEF Held
<1>4. ASSUME NEW id \in Ids
      PROVE  \E seg \in Held : /\ Latest(all)[id] = seg[id]
                               /\ \A other \in Held : other[id].ver <= seg[id].ver
  <2> DEFINE i == Newest(all, id)
  <2>1. i \in DOMAIN all /\ \A j \in DOMAIN all : all[j][id].ver <= all[i][id].ver
    BY <1>1, NewestExists
  <2>2. Latest(all)[id] = all[i][id]
    BY <1>1 DEF Latest
  <2>3. \A other \in Held : other[id].ver <= all[i][id].ver
    BY <2>1, <1>3
  <2> QED BY <2>1, <2>2, <2>3, <1>2
<1>5. Latest(all) \in Segment
  BY <1>1, LatestType
<1> QED BY <1>4, <1>5 DEF Visible, all

\* An id and a version are one record.
LEMMA VisibleVersion ==
  ASSUME StoreInv, NEW seg \in Held, NEW id \in Ids, Visible[id].ver = seg[id].ver
  PROVE  Visible[id] = seg[id]
<1>1. PICK newest \in Held : Visible[id] = newest[id]
  BY VisibleIsNewest
<1> QED BY <1>1 DEF StoreInv

-----------------------------------------------------------------------------
(***************************************************************************)
(* Steps.                                                                  *)
(***************************************************************************)
LEMMA StoreInitInv == Init => StoreInv
<1> SUFFICES ASSUME Init PROVE StoreInv
  OBVIOUS
<1>1. NoSchemas \in DeclaredSchemas
  BY DEF DeclaredSchemas, SchemaMap, NoSchemas
<1>2. version \in 0 .. MaxVersion
  BY SearchAssumption DEF Init
<1>3. EmptySegment \in WrittenSegment
  BY DEF EmptySegment, WrittenSegment
<1>4. segments \in Seq(StoredSegment)
  BY DEF Init
<1>5. Held = {EmptySegment}
  BY DEF Held, Init
<1>6. HeldIds = {}
  BY <1>5 DEF HeldIds, EmptySegment
<1>7. IsFiniteSet(HeldIds)
  BY <1>6, FS_EmptySet
<1> QED BY <1>1, <1>2, <1>3, <1>4, <1>5, <1>7 DEF Init, StoreInv

\* A write is newer than all that is held.
LEMMA NewestWrite ==
  ASSUME StoreInv, NEW id \in Ids, NEW value, version' = version + 1,
         mutable' = ApplyRecord(mutable, [i \in {id} |-> value], version')
  PROVE  \A i \in Ids : mutable'[i] = IF i = id THEN [ver |-> version', val |-> value]
                                      ELSE mutable[i]
<1>1. mutable \in Held
  BY DEF Held
<1>2. version \in Nat /\ mutable[id].ver \in 0 .. version
  BY <1>1, HeldAreWritten, SearchAssumption DEF StoreInv
<1>3. mutable[id].ver < version'
  BY <1>2
<1> QED BY <1>3 DEF ApplyRecord

LEMMA WriteInv ==
  ASSUME StoreInv, NEW id \in Ids, NEW value \in Points \cup {Gone},
         version < MaxVersion, version' = version + 1,
         mutable' = ApplyRecord(mutable, [i \in {id} |-> value], version'),
         mutableIndexes' = BuiltIndexes(mutable', schemas'),
         UNCHANGED <<segments, schemas, quantized>>
  PROVE  StoreInv'
<1>1. /\ version \in Nat /\ version' \in Nat /\ version' \in 0 .. MaxVersion
      /\ MaxVersion \in Nat
  BY SearchAssumption DEF StoreInv
<1>2. mutable \in Held
  BY DEF Held
<1>3. \A i \in Ids : mutable'[i] = IF i = id THEN [ver |-> version', val |-> value]
                                   ELSE mutable[i]
  BY NewestWrite
<1>4. WrittenSegment \subseteq WrittenSegment'
  <2>1. [ver : 1 .. version, val : Points \cup {Gone}]
          \subseteq [ver : 1 .. version', val : Points \cup {Gone}]
    BY <1>1
  <2> QED BY <2>1 DEF WrittenSegment
<1>5. mutable' \in WrittenSegment'
  <2>1. mutable' = [i \in Ids |-> mutable'[i]]
    BY DEF ApplyRecord
  <2>2. [ver |-> version', val |-> value] \in [ver : 1 .. version', val : Points \cup {Gone}]
    BY <1>1
  <2>3. mutable \in WrittenSegment'
    BY <1>4 DEF StoreInv
  <2>4. \A i \in Ids : mutable'[i] \in {Absent} \cup [ver : 1 .. version', val : Points \cup {Gone}]
    BY <1>3, <2>2, <2>3 DEF WrittenSegment
  <2> QED BY <2>1, <2>4 DEF WrittenSegment
<1>6. segments' \in Seq(StoredSegment')
  <2>1. StoredSegment \subseteq StoredSegment'
    BY <1>4 DEF StoredSegment
  <2>2. segments \in Seq(StoredSegment) /\ segments' = segments
    BY DEF StoreInv
  <2> HIDE DEF StoredSegment
  <2> QED BY <2>1, <2>2
<1>7. Held' \subseteq {mutable'} \cup Held
  BY DEF Held
<1>8. ASSUME NEW a \in Held', NEW b \in Held', NEW i \in Ids, a[i].ver = b[i].ver
      PROVE  a[i] = b[i]
  <2>1. \A seg \in Held, j \in Ids : seg[j].ver \in 0 .. version
    BY HeldAreWritten
  <2>2. \A seg, other \in Held, j \in Ids : seg[j].ver = other[j].ver => seg[j] = other[j]
    BY DEF StoreInv
  <2>3. CASE i # id
    <3>1. mutable'[i] = mutable[i]
      BY <1>3, <2>3
    <3>2. \E seg \in Held : a[i] = seg[i]
      BY <3>1, <1>2, <1>7
    <3>3. \E seg \in Held : b[i] = seg[i]
      BY <3>1, <1>2, <1>7
    <3> QED BY <3>2, <3>3, <2>2, <1>8
  <2>4. CASE i = id
    <3>1. mutable'[i].ver = version'
      BY <1>3, <2>4
    <3>2. \A seg \in Held : seg[i].ver # version'
      BY <2>1, <1>1
    <3> QED BY <3>1, <3>2, <2>2, <1>7, <1>8
  <2> QED BY <2>3, <2>4
<1>9. IsFiniteSet(HeldIds')
  <2>1. HeldIds' \subseteq HeldIds \cup {id}
    <3> SUFFICES ASSUME NEW i \in HeldIds', i # id PROVE i \in HeldIds
      OBVIOUS
    <3>1. i \in Ids /\ \E seg \in Held' : seg[i] # Absent
      BY DEF HeldIds
    <3>2. \E seg \in Held : seg[i] # Absent
      BY <3>1, <1>2, <1>3, <1>7
    <3> QED BY <3>1, <3>2 DEF HeldIds
  <2>2. IsFiniteSet(HeldIds \cup {id})
    BY FS_AddElement DEF StoreInv
  <2> QED BY <2>1, <2>2, FS_Subset
<1>10. quantized' \in BOOLEAN /\ schemas' \in DeclaredSchemas
  BY DEF StoreInv
<1> QED BY <1>1, <1>5, <1>6, <1>8, <1>9, <1>10 DEF StoreInv

LEMMA UpsertInv ==
  ASSUME StoreInv, NEW id \in Ids, NEW point \in Points, Upsert(id, point)
  PROVE  StoreInv'
<1> USE DEF Upsert
<1>1. point \in Points \cup {Gone} /\ point # Gone
  BY SearchAssumption, GoneAssumption
<1>2. \A i \in Ids : mutable'[i] = IF i = id THEN [ver |-> version', val |-> point]
                                   ELSE mutable[i]
  BY NewestWrite
<1>3. DOMAIN mutableIndexes = DOMAIN schemas
      /\ \A p \in DOMAIN schemas : mutableIndexes[p] = BuiltIndex(mutable, p, schemas[p])
  BY DEF StoreInv, BuiltIndexes
<1>4. \A p \in DOMAIN schemas :
        IndexUpsert(mutableIndexes[p], id, ValuesAt(point.payload, p))
          = BuiltIndex(mutable', p, schemas[p])
  <2> SUFFICES ASSUME NEW p \in DOMAIN schemas
               PROVE  IndexUpsert(mutableIndexes[p], id, ValuesAt(point.payload, p))
                        = BuiltIndex(mutable', p, schemas[p])
    OBVIOUS
  <2>1. IndexUpsert(BuiltIndex(mutable, p, schemas[p]), id, ValuesAt(point.payload, p))
          = BuiltIndex(mutable', p, schemas[p])
    BY <1>1, <1>2, WrittenIndex
  <2> QED BY <2>1, <1>3
<1>5. mutableIndexes' = BuiltIndexes(mutable', schemas')
  BY <1>3, <1>4 DEF BuiltIndexes
<1> QED BY <1>1, <1>5, WriteInv

LEMMA DeleteInv ==
  ASSUME StoreInv, NEW id \in Ids, Delete(id)
  PROVE  StoreInv'
<1> USE DEF Delete
<1>2. \A i \in Ids : mutable'[i] = IF i = id THEN [ver |-> version', val |-> Gone]
                                   ELSE mutable[i]
  BY NewestWrite
<1>3. DOMAIN mutableIndexes = DOMAIN schemas
      /\ \A p \in DOMAIN schemas : mutableIndexes[p] = BuiltIndex(mutable, p, schemas[p])
  BY DEF StoreInv, BuiltIndexes
<1>4. \A p \in DOMAIN schemas :
        IndexDelete(mutableIndexes[p], id) = BuiltIndex(mutable', p, schemas[p])
  BY <1>2, <1>3, DeletedIndex
<1>5. mutableIndexes' = BuiltIndexes(mutable', schemas')
  BY <1>3, <1>4 DEF BuiltIndexes
<1> QED BY <1>5, WriteInv

\* A declared index reaches every segment, in memory.
LEMMA DeclaredIsDeclared ==
  ASSUME NEW old \in DeclaredSchemas, NEW path, NEW schema, <<path, schema>> \in Declarable
  PROVE  Declared(old, path, schema) \in DeclaredSchemas
<1> DEFINE new == Declared(old, path, schema)
<1>1. PICK P \in SUBSET Paths : old \in [P -> Schemas]
  BY DEF DeclaredSchemas, SchemaMap
<1>2. path \in Paths /\ schema \in Schemas
  BY SearchAssumption
<1>3. new \in [P \cup {path} -> Schemas]
  BY <1>1, <1>2 DEF Declared
<1>4. P \cup {path} \in SUBSET Paths
  BY <1>1, <1>2
<1>5. new \in SchemaMap
  BY <1>3, <1>4 DEF SchemaMap
<1>6. \A p \in DOMAIN new : <<p, new[p]>> \in Declarable
  BY <1>1 DEF DeclaredSchemas, Declared
<1> QED BY <1>5, <1>6 DEF DeclaredSchemas

\* What is held does not change when only the indexes of segments do.
LEMMA SameHeld ==
  ASSUME StoreInv, UNCHANGED <<mutable, version, quantized>>, schemas' \in DeclaredSchemas,
         mutableIndexes' = BuiltIndexes(mutable', schemas'),
         segments' \in Seq(StoredSegment), DOMAIN segments' = DOMAIN segments,
         \A i \in DOMAIN segments : segments'[i].records = segments[i].records
  PROVE  StoreInv'
<1>1. Held' = Held
  BY DEF Held
<1>2. StoredSegment' = StoredSegment /\ WrittenSegment' = WrittenSegment
  BY DEF StoredSegment, WrittenSegment
<1>3. HeldIds' = HeldIds
  BY <1>1 DEF HeldIds
<1>4. version' \in 0 .. MaxVersion /\ quantized' \in BOOLEAN /\ mutable' \in WrittenSegment'
  BY <1>2 DEF StoreInv
<1>5. IsFiniteSet(HeldIds')
  BY <1>3 DEF StoreInv
<1>6. \A a, b \in Held', id \in Ids : a[id].ver = b[id].ver => a[id] = b[id]
  BY <1>1 DEF StoreInv
<1>7. segments' \in Seq(StoredSegment')
  BY <1>2
<1> QED BY <1>4, <1>5, <1>6, <1>7 DEF StoreInv

LEMMA CreatePayloadIndexInv ==
  ASSUME StoreInv, NEW path, NEW schema, CreatePayloadIndex(path, schema)
  PROVE  StoreInv'
<1> USE DEF CreatePayloadIndex
<1>1. schemas' \in DeclaredSchemas
  BY DeclaredIsDeclared DEF StoreInv
<1>2. /\ DOMAIN schemas' = DOMAIN schemas \cup {path}
      /\ \A p \in DOMAIN schemas' : schemas'[p] = IF p = path THEN schema ELSE schemas[p]
  BY DEF Declared
<1>3. \A p \in DOMAIN schemas : mutableIndexes[p] = BuiltIndex(mutable, p, schemas[p])
  BY DEF StoreInv, BuiltIndexes
<1>4. mutableIndexes' = BuiltIndexes(mutable', schemas')
  BY <1>2, <1>3 DEF BuiltIndexes
<1>5. segments \in Seq(StoredSegment) /\ DOMAIN segments = 1 .. Len(segments)
      /\ Len(segments) \in Nat
  BY DEF StoreInv
<1>6. ASSUME NEW i \in DOMAIN segments
      PROVE  /\ segments'[i] \in StoredSegment
             /\ segments'[i].records = segments[i].records
  <2>1. segments[i] \in StoredSegment
    BY <1>5
  <2>2. Declared(segments[i].schemas, path, schema) \in DeclaredSchemas
    BY <2>1, DeclaredIsDeclared DEF StoredSegment
  <2>3. segments'[i]
          = [segments[i] EXCEPT !.schemas = Declared(segments[i].schemas, path, schema)]
    OBVIOUS
  <2> QED BY <2>1, <2>2, <2>3 DEF StoredSegment
<1>7. DOMAIN segments' = DOMAIN segments /\ segments' \in Seq(StoredSegment)
  <2>1. segments' = [i \in 1 .. Len(segments) |-> segments'[i]]
    BY <1>5
  <2>2. segments' \in [1 .. Len(segments) -> StoredSegment]
    BY <2>1, <1>5, <1>6
  <2> QED BY <2>2, <1>5
<1> QED BY <1>1, <1>4, <1>6, <1>7, SameHeld

LEMMA ReopenInv == ASSUME StoreInv, Reopen PROVE StoreInv'
<1> USE DEF Reopen
<1>1. schemas' \in DeclaredSchemas /\ mutableIndexes' = BuiltIndexes(mutable', schemas')
  BY DEF StoreInv
<1>5. segments \in Seq(StoredSegment) /\ DOMAIN segments = 1 .. Len(segments)
      /\ Len(segments) \in Nat
  BY DEF StoreInv
<1>6. ASSUME NEW i \in DOMAIN segments
      PROVE  /\ segments'[i] \in StoredSegment
             /\ segments'[i].records = segments[i].records
  <2>1. segments[i] \in StoredSegment
    BY <1>5
  <2>2. segments'[i] = [segments[i] EXCEPT !.schemas = segments[i].stored]
    OBVIOUS
  <2> QED BY <2>1, <2>2 DEF StoredSegment
<1>7. DOMAIN segments' = DOMAIN segments /\ segments' \in Seq(StoredSegment)
  <2>1. segments' = [i \in 1 .. Len(segments) |-> segments'[i]]
    BY <1>5
  <2>2. segments' \in [1 .. Len(segments) -> StoredSegment]
    BY <2>1, <1>5, <1>6
  <2> QED BY <2>2, <1>5
<1> QED BY <1>1, <1>6, <1>7, SameHeld

LEMMA EmptyIsWritten == EmptySegment \in WrittenSegment
BY DEF EmptySegment, WrittenSegment

LEMMA FlushInv == ASSUME StoreInv, NEW indexed \in BOOLEAN, Flush(indexed) PROVE StoreInv'
<1> USE DEF Flush
<1>1. schemas' \in DeclaredSchemas /\ mutableIndexes' = BuiltIndexes(mutable', schemas')
  BY DEF StoreInv, NewMutableIndexes
<1>2. WrittenSegment' = WrittenSegment /\ StoredSegment' = StoredSegment
  BY DEF WrittenSegment, StoredSegment
<1>3. SegmentOf(mutable, indexed) \in StoredSegment
  BY DEF StoreInv, SegmentOf, StoredSegment
<1>4. segments \in Seq(StoredSegment)
  BY DEF StoreInv
<1>5. segments' \in Seq(StoredSegment')
  <2> HIDE DEF Flush
  <2>1. segments' = Append(segments, SegmentOf(mutable, indexed))
    BY DEF Flush
  <2> QED BY <1>2, <1>3, <1>4, <2>1
<1>6. Held' \subseteq Held \cup {EmptySegment}
  <2> SUFFICES ASSUME NEW i \in DOMAIN segments' PROVE segments'[i].records \in Held
    BY DEF Held
  <2>1. CASE i \in DOMAIN segments
    <3>1. segments'[i] = segments[i]
      BY <1>4, <2>1
    <3> QED BY <2>1, <3>1 DEF Held
  <2>2. CASE i \notin DOMAIN segments
    <3>1. segments'[i] = SegmentOf(mutable, indexed)
      BY <1>4, <2>2
    <3> QED BY <3>1 DEF Held, SegmentOf
  <2> QED BY <2>1, <2>2
<1>7. ASSUME NEW a \in Held', NEW b \in Held', NEW id \in Ids, a[id].ver = b[id].ver
      PROVE  a[id] = b[id]
  <2>1. \A seg \in Held : seg[id].ver = 0 => seg[id] = Absent
    BY HeldAreWritten
  <2>2. EmptySegment[id] = Absent /\ Absent.ver = 0
    BY DEF EmptySegment, Absent
  <2>3. \A seg, other \in Held : seg[id].ver = other[id].ver => seg[id] = other[id]
    BY DEF StoreInv
  <2> QED BY <1>6, <1>7, <2>1, <2>2, <2>3
<1>8. IsFiniteSet(HeldIds')
  <2>1. HeldIds' \subseteq HeldIds
    BY <1>6 DEF HeldIds, EmptySegment
  <2> QED BY <2>1, FS_Subset DEF StoreInv
<1>9. version' \in 0 .. MaxVersion /\ quantized' \in BOOLEAN /\ mutable' \in WrittenSegment'
  BY <1>2, EmptyIsWritten DEF StoreInv
<1> QED BY <1>1, <1>5, <1>7, <1>8, <1>9 DEF StoreInv

\* A replacement holds the newest records, without the tombstones.
LEMMA OptimizeInv == ASSUME StoreInv, Optimize PROVE StoreInv'
<1> DEFINE new == DropTombstones(Visible)
<1>1. /\ segments' = <<SegmentOf(new, TRUE)>>
      /\ mutable' = EmptySegment
      /\ mutableIndexes' = BuiltIndexes(mutable', schemas')
      /\ schemas' = schemas /\ version' = version /\ quantized' = quantized
  BY DEF Optimize, Visible, NewMutableIndexes
<1>2. WrittenSegment' = WrittenSegment /\ StoredSegment' = StoredSegment
  BY <1>1 DEF WrittenSegment, StoredSegment
<1>3. ASSUME NEW id \in Ids
      PROVE  \/ new[id] = Absent
             \/ \E seg \in Held : new[id] = seg[id]
  BY VisibleIsNewest DEF DropTombstones
<1>4. new \in WrittenSegment
  <2>1. new = [id \in Ids |-> new[id]]
    BY DEF DropTombstones
  <2>2. \A seg \in Held, id \in Ids :
          seg[id] \in {Absent} \cup [ver : 1 .. version, val : Points \cup {Gone}]
    BY HeldAreWritten DEF WrittenSegment
  <2>3. \A id \in Ids : new[id] \in {Absent} \cup [ver : 1 .. version, val : Points \cup {Gone}]
    BY <1>3, <2>2
  <2> HIDE DEF new
  <2> QED BY <2>1, <2>3 DEF WrittenSegment
<1> HIDE DEF new
<1>5. SegmentOf(new, TRUE) \in StoredSegment
  BY <1>4 DEF StoreInv, SegmentOf, StoredSegment
<1>6. segments' \in Seq(StoredSegment')
  <2> DEFINE seg == SegmentOf(new, TRUE)
  <2>1. seg \in StoredSegment
    BY <1>5
  <2> HIDE DEF seg
  <2>2. <<seg>> \in Seq(StoredSegment)
    BY <2>1
  <2> QED BY <1>1, <1>2, <2>2 DEF seg
<1>7. Held' = {EmptySegment, new}
  BY <1>1 DEF Held, SegmentOf
<1>8. ASSUME NEW a \in Held', NEW b \in Held', NEW id \in Ids, a[id].ver = b[id].ver
      PROVE  a[id] = b[id]
  <2>1. \A seg \in Held : seg[id].ver = 0 => seg[id] = Absent
    BY HeldAreWritten
  <2>2. EmptySegment[id] = Absent /\ Absent.ver = 0
    BY DEF EmptySegment, Absent
  <2>3. new[id].ver = 0 => new[id] = Absent
    BY <1>3, <2>1
  <2> QED BY <1>7, <1>8, <2>2, <2>3
<1>9. IsFiniteSet(HeldIds')
  <2>1. HeldIds' \subseteq HeldIds
    <3> SUFFICES ASSUME NEW id \in Ids, new[id] # Absent PROVE id \in HeldIds
      BY <1>7 DEF HeldIds, EmptySegment
    <3> QED BY <1>3 DEF HeldIds
  <2> QED BY <2>1, FS_Subset DEF StoreInv
<1>10. /\ version' \in 0 .. MaxVersion /\ quantized' \in BOOLEAN /\ mutable' \in WrittenSegment'
       /\ schemas' \in DeclaredSchemas
  BY <1>1, <1>2, EmptyIsWritten DEF StoreInv
<1> QED BY <1>1, <1>6, <1>8, <1>9, <1>10 DEF StoreInv

LEMMA StoreNextInv == ASSUME StoreInv, [Next]_vars PROVE StoreInv'
<1>1. ASSUME NEW id \in Ids, NEW point \in Points, Upsert(id, point) PROVE StoreInv'
  BY <1>1, UpsertInv
<1>2. ASSUME NEW id \in Ids, Delete(id) PROVE StoreInv'
  BY <1>2, DeleteInv
<1>3. ASSUME NEW path, NEW schema, CreatePayloadIndex(path, schema) PROVE StoreInv'
  BY <1>3, CreatePayloadIndexInv
<1>4. ASSUME NEW indexed \in BOOLEAN, Flush(indexed) PROVE StoreInv'
  BY <1>4, FlushInv
<1>5. CASE Optimize
  BY <1>5, OptimizeInv
<1>6. CASE Reopen
  BY <1>6, ReopenInv
<1>7. CASE UNCHANGED vars
  <2>1. Held' = Held /\ WrittenSegment' = WrittenSegment
    BY <1>7 DEF vars, Held, WrittenSegment
  <2>2. HeldIds' = HeldIds /\ StoredSegment' = StoredSegment
    BY <2>1 DEF HeldIds, StoredSegment
  <2> QED BY <1>7, <2>1, <2>2 DEF vars, StoreInv
<1> QED BY <1>1, <1>2, <1>3, <1>4, <1>5, <1>6, <1>7 DEF Next

\* Every variable of a collection being searched has its type, in every state: writes,
\* flushes, replacements, indexes declared at any moment, and restarts.
THEOREM SearchTypes == Spec => []TypeOK
<1>1. StoreInv => TypeOK
  <2> SUFFICES ASSUME StoreInv PROVE TypeOK
    OBVIOUS
  <2>1. mutable \in Segment /\ \A i \in DOMAIN segments : segments[i].records \in Segment
    BY HeldAreWritten DEF Held
  <2>2. \A i \in DOMAIN segments : segments[i].schemas \in SchemaMap
    <3> SUFFICES ASSUME NEW i \in DOMAIN segments PROVE segments[i].schemas \in SchemaMap
      OBVIOUS
    <3>1. segments[i] \in StoredSegment
      BY DEF StoreInv
    <3> QED BY <3>1 DEF StoredSegment, DeclaredSchemas
  <2>3. DOMAIN mutableIndexes = DOMAIN schemas /\ schemas \in SchemaMap
    BY DEF StoreInv, BuiltIndexes, DeclaredSchemas
  <2> QED BY <2>1, <2>2, <2>3 DEF StoreInv, TypeOK
<1> QED BY <1>1, StoreInitInv, StoreNextInv, PTL DEF Spec

\* In every segment, at every moment, what the indexes offer for a filter and the
\* residual lets through is exactly what matches the filter, if it is well typed there:
\* whichever of its conditions are indexed, however it is nested, and whether the index
\* was built at once or write by write.
THEOREM IndexesAlwaysAgree == Spec => []IndexesAgree
<1>1. ASSUME StoreInv PROVE IndexesAgree
  <2>1. ASSUME NEW seg \in Held, NEW declared \in DeclaredSchemas
        PROVE  AgreesWith(seg, declared, BuiltIndexes(seg, declared))
    <3>1. \A filter \in Filters : filter \in Conditions
      BY SearchAssumption DEF Filters
    <3> SUFFICES ASSUME NEW filter \in Filters, WellTyped(seg, declared, filter)
                 PROVE  LET found == Candidates(LivePointsOf(seg), BuiltIndexes(seg, declared), filter)
                        IN  {id \in found.ids : MatchesFilter(id, seg[id].val.payload, found.residual)}
                              = {id \in LivePointsOf(seg) : MatchesFilter(id, seg[id].val.payload, filter)}
      BY DEF AgreesWith
    <3> QED BY <3>1, CandidatesAgree DEF Meeting
  <2>2. AgreesWith(mutable, schemas, mutableIndexes)
    BY <1>1, <2>1 DEF StoreInv, Held
  <2>3. ASSUME NEW i \in DOMAIN segments
        PROVE  AgreesWith(segments[i].records, segments[i].schemas,
                          BuiltIndexes(segments[i].records, segments[i].schemas))
    <3>1. segments[i].records \in Held
      BY DEF Held
    <3>2. segments[i].schemas \in DeclaredSchemas
      <4>1. segments[i] \in StoredSegment
        BY <1>1 DEF StoreInv
      <4> QED BY <4>1 DEF StoredSegment
    <3> QED BY <2>1, <3>1, <3>2
  <2> QED BY <2>2, <2>3 DEF IndexesAgree
<1> QED BY <1>1, StoreInitInv, StoreNextInv, PTL DEF Spec

-----------------------------------------------------------------------------
(***************************************************************************)
(* A heap of candidates holds the best of those it was offered.            *)
(***************************************************************************)
\* The candidates of one segment or of one search: a score for each of some ids.
Candidature(U) ==
  /\ IsFiniteSet(U)
  /\ \A c \in U : c.id \in Int /\ c.score \in Int
  /\ \A c, d \in U : c.id = d.id => c = d

Ranking(U) == {pair \in U \X U : Better(pair[1], pair[2])}

LEMMA RankingOrders ==
  ASSUME NEW U, Candidature(U)
  PROVE  /\ Orders(Ranking(U), U)
         /\ \A c, d \in U : <<c, d>> \in Ranking(U) <=> Better(c, d)
<1>1. \A c, d \in U : <<c, d>> \in Ranking(U) <=> Better(c, d)
  BY DEF Ranking
<1>2. \A c \in U : c.id \in Int /\ c.score \in Int
  BY DEF Candidature
<1>3. \A c, d \in U : c # d => Better(c, d) \/ Better(d, c)
  BY <1>2 DEF Candidature, Better
<1>4. \A c \in U : ~ Better(c, c)
  BY <1>2 DEF Better
<1>5. \A c, d, e \in U : Better(c, d) /\ Better(d, e) => Better(c, e)
  BY <1>2 DEF Better
<1>6. IsFiniteSet(U)
  BY DEF Candidature
<1> HIDE DEF Ranking
<1> QED BY <1>1, <1>3, <1>4, <1>5, <1>6 DEF Orders

LEMMA BestOfIsFirst ==
  ASSUME NEW U, NEW T \in SUBSET U, NEW k
  PROVE  BestOf(T, k) = FirstOf(Ranking(U), T, k)
<1>1. \A c \in T : {d \in T : Better(d, c)} = Ahead(Ranking(U), T, c)
  BY DEF Ahead, Ranking
<1> QED BY <1>1 DEF BestOf, FirstOf

LEMMA BestOfPart ==
  ASSUME NEW U, Candidature(U), NEW k \in Nat, NEW T \in SUBSET U, BestOf(U, k) \subseteq T
  PROVE  BestOf(T, k) = BestOf(U, k)
<1> DEFINE R == Ranking(U)
<1>1. Orders(R, U) /\ BestOf(U, k) = FirstOf(R, U, k) /\ BestOf(T, k) = FirstOf(R, T, k)
  BY RankingOrders, BestOfIsFirst
<1> HIDE DEF R
<1> QED BY <1>1, FirstOfPart

\* TopK.offer.
LEMMA OfferKeepsBest ==
  ASSUME NEW U, Candidature(U), NEW S \in SUBSET U, NEW c \in U \ S,
         NEW T \in SUBSET U, T = S \cup {c}, NEW k \in Nat \ {0}
  PROVE  Offer(k, BestOf(S, k), c) = BestOf(T, k)
<1> DEFINE R == Ranking(U)
           H == BestOf(S, k)
           W == H \cup {c}
<1>1. Orders(R, U) /\ \A a, b \in U : <<a, b>> \in R <=> Better(a, b)
  BY RankingOrders
<1>2. H = FirstOf(R, S, k) /\ BestOf(T, k) = FirstOf(R, T, k)
  BY BestOfIsFirst
<1> HIDE DEF R, H
<1>3. Orders(R, S) /\ Orders(R, T)
  BY <1>1, OrdersPart
<1>4. H \subseteq S /\ IsFiniteSet(H) /\ Cardinality(H) \in Nat /\ Cardinality(H) <= k
  BY <1>2, <1>3, FirstAreFew
<1>5. W \in SUBSET T /\ W \in SUBSET U /\ c \notin H
  BY <1>4
<1>6. FirstOf(R, W, k) = BestOf(T, k)
  <2>1. S \in SUBSET T /\ T \ S \subseteq W /\ H \subseteq W
    OBVIOUS
  <2> HIDE DEF W
  <2> QED BY <2>1, <1>2, <1>3, <1>5, FirstAndRest
<1>7. IsFiniteSet(W) /\ Cardinality(W) = Cardinality(H) + 1
  BY <1>4, <1>5, FS_AddElement
<1>8. Orders(R, W) /\ Orders(R, H)
  BY <1>1, <1>4, <1>5, OrdersPart
<1>9. CASE Cardinality(H) < k
  <2>1. FirstOf(R, W, k) = W
    BY <1>4, <1>7, <1>8, <1>9, FirstOfFew
  <2> QED BY <2>1, <1>6, <1>9 DEF Offer, H
<1>10. CASE ~ (Cardinality(H) < k)
  <2>1. Cardinality(H) = k /\ H # {}
    BY <1>4, <1>10, FS_EmptySet
  <2> DEFINE w == Worst(H)
  <2>2. w \in H /\ \A d \in H \ {w} : Better(d, w)
    <3>1. \E p \in H : \A q \in H \ {p} : <<q, p>> \in R
      BY <2>1, <1>8, LastExists
    <3>2. \E p \in H : \A q \in H \ {p} : Better(q, p)
      BY <3>1, <1>1, <1>4
    <3> QED BY <3>2 DEF Worst
  <2>3. Offer(k, H, c) = IF Better(c, w) THEN (H \ {w}) \cup {c} ELSE H
    BY <1>10 DEF Offer
  <2> HIDE DEF w
  <2>4. CASE Better(c, w)
    <3>1. \A q \in W \ {w} : <<q, w>> \in R
      BY <2>2, <2>4, <1>1, <1>4
    <3>2. FirstOf(R, W, k) = W \ {w}
      <4>1. w \in W /\ Cardinality(W) = k + 1
        BY <2>1, <2>2, <1>7
      <4> HIDE DEF W
      <4> QED BY <3>1, <4>1, <1>8, AllButTheLast
    <3>3. W \ {w} = (H \ {w}) \cup {c}
      BY <2>2, <1>5
    <3> QED BY <3>2, <3>3, <2>3, <2>4, <1>6 DEF H
  <2>5. CASE ~ Better(c, w)
    <3>1. <<w, c>> \in R
      BY <2>2, <2>5, <1>1, <1>4 DEF Orders
    <3>2. \A q \in W \ {c} : <<q, c>> \in R
      BY <3>1, <2>2, <1>1, <1>4 DEF Orders
    <3>3. FirstOf(R, W, k) = W \ {c}
      <4>1. c \in W /\ Cardinality(W) = k + 1
        BY <2>1, <1>7
      <4> HIDE DEF W
      <4> QED BY <3>2, <4>1, <1>8, AllButTheLast
    <3>4. W \ {c} = H
      BY <1>5
    <3> QED BY <3>3, <3>4, <2>3, <2>5, <1>6 DEF H
  <2> QED BY <2>4, <2>5
<1> QED BY <1>9, <1>10

\* In whatever order the candidates come.
LEMMA TopKIsBest ==
  ASSUME NEW C, Candidature(C), NEW k \in Nat \ {0}
  PROVE  TopK(k, C) = BestOf(C, k)
<1> DEFINE pick == [s \in SUBSET C |-> CHOOSE y \in s : TRUE]
           put == [pair \in C \X SUBSET C |-> Offer(k, pair[2], pair[1])]
           V == SUBSET C
<1>1. Picks(C, pick)
  BY DEF Picks, Candidature
<1>2. put \in [C \X V -> V]
  <2>1. ASSUME NEW c \in C, NEW h \in V PROVE Offer(k, h, c) \in V
    BY DEF Offer
  <2>2. ASSUME NEW pair \in C \X V PROVE put[pair] \in V
    BY <2>1
  <2> QED BY <2>2
<1>3. \A c \in C, h \in V : put[<<c, h>>] = Offer(k, h, c)
  OBVIOUS
<1>4. \A s \in SUBSET C : Remaining(s, pick) = s \ {CHOOSE y \in s : TRUE}
  BY DEF Remaining
<1> DEFINE unfold(iter, s) == IF s = {} THEN {}
                              ELSE LET x == CHOOSE y \in s : TRUE IN Offer(k, iter[s \ {x}], x)
           it == CHOOSE iter : iter = [s \in SUBSET C |-> unfold(iter, s)]
<1>5. it = [s \in SUBSET C |-> unfold(it, s)]
  <2>1. {} \in V
    OBVIOUS
  <2> HIDE DEF put, V
  <2>2. PICK f \in [SUBSET C -> V] :
          \A s \in SUBSET C : f[s] = IF s = {} THEN {} ELSE put[<<pick[s], f[Remaining(s, pick)]>>]
    <3> DEFINE base == {}
    <3> HIDE DEF base, pick
    <3>1. base \in V
      BY <2>1 DEF base
    <3>2. PICK f : Folds(f, C, pick, V, base, put)
      BY ONLY <3>1, <1>1, <1>2, FoldExists
    <3> QED BY <3>2 DEF base, Folds
  <2>3. ASSUME NEW s \in SUBSET C PROVE f[s] = unfold(f, s)
    <3>1. CASE s = {}
      BY <3>1, <2>2
    <3>2. CASE s # {}
      <4>1. pick[s] \in C /\ Remaining(s, pick) \in SUBSET C /\ pick[s] = CHOOSE y \in s : TRUE
        BY <3>2, <1>1 DEF Picks, Remaining
      <4>2. put[<<pick[s], f[Remaining(s, pick)]>>] = Offer(k, f[Remaining(s, pick)], pick[s])
        BY <4>1, <1>3, <2>2
      <4> QED BY <4>1, <4>2, <3>2, <2>2, <1>4
    <3> QED BY <3>1, <3>2
  <2> HIDE DEF unfold
  <2>4. f = [s \in SUBSET C |-> unfold(f, s)]
    BY <2>2, <2>3
  <2> QED BY <2>4
<1>6. TopK(k, C) = it[C]
  BY DEF TopK, FoldSet, MapThenFoldSet
<1> HIDE DEF it
<1>7. it[{}] = {}
  BY <1>5
<1>8. \A s \in (SUBSET C) \ {{}} : it[s] = Offer(k, it[Remaining(s, pick)], pick[s])
  BY <1>4, <1>5
<1> HIDE DEF unfold, pick
<1> DEFINE J == {s \in SUBSET C : it[s] = BestOf(s, k)}
<1>9. {} \in J
  BY <1>7 DEF BestOf
<1>10. ASSUME NEW s \in (SUBSET C) \ {{}}, Remaining(s, pick) \in J PROVE s \in J
  <2> DEFINE r == Remaining(s, pick)
             c == pick[s]
  <2>1. c \in s /\ r \in SUBSET C /\ c \in C \ r /\ s = r \cup {c}
    BY <1>1 DEF Picks, Remaining
  <2>2. it[r] = BestOf(r, k) /\ it[s] = Offer(k, it[r], c)
    BY <1>8, <1>10
  <2> HIDE DEF r, c
  <2>3. Offer(k, BestOf(r, k), c) = BestOf(s, k)
    BY <2>1, OfferKeepsBest
  <2> QED BY <2>2, <2>3
<1>11. C \in J
  <2> HIDE DEF J
  <2> QED BY <1>1, <1>9, <1>10, FoldKeeps
<1> QED BY <1>6, <1>11

-----------------------------------------------------------------------------
(***************************************************************************)
(* The merge takes what one search of each segment may return.             *)
(***************************************************************************)
\* The parts of Answers, by name.
OutcomesOf(seg, request) ==
  IF LiveCount(seg) = 0 THEN {{}}
  ELSE SegmentOutcomes(seg, request, SegmentLimit(seg, request, Visible))

Offered(candidates, request) ==
  {[id |-> c.id, score |-> c.score] :
     c \in {d \in candidates : IsVisible(d, Visible) /\ d.score >= request.threshold}}

Joined(sets, others) == {a \cup b : a \in sets, b \in others}

LEMMA JoinedFrom ==
  ASSUME NEW sets, NEW others, NEW a \in Joined(sets, others)
  PROVE  \E p \in sets, b \in others : a = p \cup b
BY DEF Joined

Merged(request) ==
  FoldLeft(LAMBDA sets, seg : {a \cup b : a \in sets, b \in OutcomesOf(seg, request)},
           {{}}, View)

LEMMA AnswersOffer ==
  ASSUME NEW request
  PROVE  Answers(request) = {TopK(request.limit, Offered(cs, request)) : cs \in Merged(request)}
BY DEF Answers, Merged, Offered, OutcomesOf, FoldLeft, MapThenFoldSet

\* The last segment first.
LastOf == [s \in SUBSET DOMAIN View |-> Max(s)]

Merges(it, request) ==
  /\ \A s \in SUBSET DOMAIN View :
       it[s] = IF s = {} THEN {{}}
               ELSE Joined(it[Remaining(s, LastOf)], OutcomesOf(View[LastOf[s]], request))
  /\ Merged(request) = it[DOMAIN View]

LEMMA LastIsPicked ==
  ASSUME NEW n \in Nat, DOMAIN View = 1 .. n
  PROVE  Picks(DOMAIN View, LastOf)
<1>1. IsFiniteSet(DOMAIN View)
  BY FS_Interval
<1>2. ASSUME NEW s \in (SUBSET (1 .. n)) \ {{}} PROVE LastOf[s] \in s
  <2>1. s \in SUBSET (0 .. n) /\ s # {}
    OBVIOUS
  <2>2. \E x \in s : \A y \in s : x >= y
    BY <2>1, GreatestNat
  <2>3. LastOf[s] = Max(s)
    BY DEF LastOf
  <2> QED BY <2>2, <2>3 DEF Max
<1> QED BY <1>1, <1>2 DEF Picks

LEMMA MergeUnfolds ==
  ASSUME NEW request, NEW n \in Nat, DOMAIN View = 1 .. n
  PROVE  \E it : Merges(it, request)
<1> DEFINE D == DOMAIN View
           pick == LastOf
           all == UNION {UNION OutcomesOf(View[i], request) : i \in D}
           V == SUBSET SUBSET all
           put == [pair \in D \X V |-> Joined(pair[2], OutcomesOf(View[pair[1]], request))]
           base == {{}}
           unfold(iter, s) == IF s = {} THEN {{}}
                              ELSE LET x == Max(s)
                                   IN  Joined(iter[s \ {x}], OutcomesOf(View[x], request))
           it == CHOOSE iter : iter = [s \in SUBSET D |-> unfold(iter, s)]
<1>1. Picks(D, pick)
  BY LastIsPicked
<1>2. ASSUME NEW i \in D, NEW h \in V PROVE Joined(h, OutcomesOf(View[i], request)) \in V
  <2>1. \A b \in OutcomesOf(View[i], request) : b \subseteq all
    OBVIOUS
  <2> HIDE DEF all
  <2> QED BY <2>1 DEF Joined
<1>3. put \in [D \X V -> V]
  <2>1. ASSUME NEW pair \in D \X V PROVE put[pair] \in V
    <3> HIDE DEF V
    <3> QED BY <1>2
  <2> HIDE DEF V
  <2> QED BY <2>1
<1>4. \A i \in D, h \in V : put[<<i, h>>] = Joined(h, OutcomesOf(View[i], request))
  OBVIOUS
<1>5. base \in V
  OBVIOUS
<1>6. \A s \in SUBSET D : pick[s] = Max(s) /\ Remaining(s, pick) = s \ {Max(s)}
  BY DEF Remaining, LastOf
<1>7. Merged(request) = it[D]
  BY DEF Merged, FoldLeft, MapThenFoldSet, Joined
<1> HIDE DEF put, V, base, pick
<1>8. PICK f : Folds(f, D, pick, V, base, put)
  BY <1>1, <1>3, <1>5, FoldExists
<1>9. ASSUME NEW s \in SUBSET D PROVE f[s] = unfold(f, s)
  <2>1. f \in [SUBSET D -> V] /\ f[s] = IF s = {} THEN base ELSE put[<<pick[s], f[Remaining(s, pick)]>>]
    BY <1>8 DEF Folds
  <2>2. CASE s # {}
    <3>1. pick[s] \in D /\ Remaining(s, pick) \in SUBSET D
      BY <2>2, <1>1 DEF Picks, Remaining
    <3>2. f[Remaining(s, pick)] \in V /\ f[s] = put[<<pick[s], f[Remaining(s, pick)]>>]
      BY <2>1, <2>2, <3>1
    <3>3. f[s] = Joined(f[Remaining(s, pick)], OutcomesOf(View[pick[s]], request))
      BY <3>1, <3>2, <1>4
    <3>4. f[s] = Joined(f[s \ {Max(s)}], OutcomesOf(View[Max(s)], request))
      BY <3>3, <1>6
    <3>5. unfold(f, s) = Joined(f[s \ {Max(s)}], OutcomesOf(View[Max(s)], request))
      BY <2>2
    <3> QED BY <3>4, <3>5
  <2>3. CASE s = {}
    BY <2>1, <2>3 DEF base
  <2> QED BY <2>2, <2>3
<1>10. it = [s \in SUBSET D |-> unfold(it, s)]
  <2> HIDE DEF unfold
  <2>1. f = [s \in SUBSET D |-> unfold(f, s)]
    BY <1>8, <1>9 DEF Folds
  <2> QED BY <2>1
<1> HIDE DEF it
<1>11. ASSUME NEW s \in SUBSET D
       PROVE  it[s] = IF s = {} THEN {{}}
                      ELSE Joined(it[Remaining(s, pick)], OutcomesOf(View[pick[s]], request))
  <2>1. it[s] = unfold(it, s)
    <3> HIDE DEF unfold
    <3> QED BY <1>10
  <2>2. CASE s # {}
    <3>1. unfold(it, s) = Joined(it[s \ {Max(s)}], OutcomesOf(View[Max(s)], request))
      BY <2>2
    <3> HIDE DEF unfold
    <3> QED BY <2>1, <2>2, <3>1, <1>6
  <2>3. CASE s = {}
    BY <2>1, <2>3
  <2> QED BY <2>2, <2>3
<1> QED BY <1>7, <1>11 DEF Merges, pick

\* Whatever was merged came from a segment.
LEMMA MergedAreOutcomes ==
  ASSUME NEW request, NEW n \in Nat, DOMAIN View = 1 .. n,
         NEW cs \in Merged(request), NEW c \in cs
  PROVE  \E i \in DOMAIN View : \E b \in OutcomesOf(View[i], request) : c \in b
<1> DEFINE D == DOMAIN View
           From(x) == \E i \in D : \E b \in OutcomesOf(View[i], request) : x \in b
<1>1. PICK it : Merges(it, request)
  BY MergeUnfolds
<1>2. Picks(D, LastOf)
  BY LastIsPicked
<1> DEFINE J == {s \in SUBSET D : \A a \in it[s] : \A x \in a : From(x)}
<1>3. {} \in J
  BY <1>1 DEF Merges
<1>4. ASSUME NEW s \in (SUBSET D) \ {{}}, Remaining(s, LastOf) \in J PROVE s \in J
  <2>1. LastOf[s] \in D
    BY <1>2 DEF Picks
  <2>2. it[s] = Joined(it[Remaining(s, LastOf)], OutcomesOf(View[LastOf[s]], request))
    BY <1>1 DEF Merges
  <2>3. ASSUME NEW a \in it[s], NEW x \in a PROVE From(x)
    <3>1. PICK p \in it[Remaining(s, LastOf)], b \in OutcomesOf(View[LastOf[s]], request) : a = p \cup b
      BY <2>2, JoinedFrom
    <3>2. CASE x \in p
      BY <3>2, <1>4
    <3>3. CASE x \in b
      BY <3>3, <2>1
    <3> QED BY <3>1, <3>2, <3>3
  <2> QED BY <2>3
<1>5. D \in J
  <2> HIDE DEF J
  <2> QED BY <1>2, <1>3, <1>4, FoldKeeps
<1> QED BY <1>1, <1>5 DEF Merges

AllOf(K) == UNION {K[i] : i \in DOMAIN View}

\* If each segment returns one thing, so do they all.
LEMMA OneOutcome ==
  ASSUME NEW request, NEW n \in Nat, DOMAIN View = 1 .. n,
         NEW K, \A i \in DOMAIN View : OutcomesOf(View[i], request) = {K[i]}
  PROVE  Merged(request) = {AllOf(K)}
<1> DEFINE D == DOMAIN View
           all(s) == UNION {K[i] : i \in s}
<1>1. PICK it : Merges(it, request)
  BY MergeUnfolds
<1>2. Picks(D, LastOf)
  BY LastIsPicked
<1> DEFINE J == {s \in SUBSET D : it[s] = {all(s)}}
<1>3. {} \in J
  <2>1. it[{}] = {{}}
    BY <1>1 DEF Merges
  <2>2. all({}) = {}
    OBVIOUS
  <2> QED BY <2>1, <2>2
<1>4. ASSUME NEW s \in (SUBSET D) \ {{}}, Remaining(s, LastOf) \in J PROVE s \in J
  <2> DEFINE i == LastOf[s]
             r == Remaining(s, LastOf)
  <2>1. i \in D /\ r \in SUBSET D /\ s = r \cup {i}
    BY <1>2 DEF Picks, Remaining
  <2>2. it[s] = Joined(it[r], OutcomesOf(View[i], request))
    BY <1>1 DEF Merges
  <2>3. it[r] = {all(r)} /\ OutcomesOf(View[i], request) = {K[i]}
    BY <2>1, <1>4
  <2> HIDE DEF i, r
  <2>4. all(s) = all(r) \cup K[i]
    BY <2>1
  <2> HIDE DEF all
  <2>5. it[s] = {all(r) \cup K[i]}
    BY <2>2, <2>3 DEF Joined
  <2> QED BY <2>4, <2>5
<1>5. D \in J
  <2> HIDE DEF J
  <2> QED BY <1>2, <1>3, <1>4, FoldKeeps
<1> QED BY <1>1, <1>5 DEF Merges, AllOf

-----------------------------------------------------------------------------
(***************************************************************************)
(* What a segment returns.                                                 *)
(***************************************************************************)
LEMMA ViewIsHeld ==
  ASSUME StoreInv
  PROVE  /\ Len(View) \in Nat /\ DOMAIN View = 1 .. Len(View)
         /\ \A i \in DOMAIN View : View[i].records \in Held /\ View[i].schemas \in DeclaredSchemas
         /\ \A seg \in Held : seg = EmptySegment \/ \E i \in DOMAIN View : View[i].records = seg
<1>1. segments \in Seq(StoredSegment) /\ mutable \in Held
  BY DEF StoreInv, Held
<1>2. ASSUME NEW i \in DOMAIN segments
      PROVE  segments[i].records \in Held /\ segments[i].schemas \in DeclaredSchemas
  <2>1. segments[i] \in StoredSegment
    BY <1>1
  <2> QED BY <2>1 DEF StoredSegment, Held
<1>3. CASE mutable = EmptySegment
  <2>1. View = segments
    BY <1>3 DEF View
  <2>2. \A seg \in Held : seg = EmptySegment \/ \E i \in DOMAIN segments : segments[i].records = seg
    BY <1>3 DEF Held
  <2> QED BY <1>1, <1>2, <2>1, <2>2
<1>4. CASE mutable # EmptySegment
  <2> DEFINE last == SegmentOf(mutable, FALSE)
             n == Len(segments)
  <2>1. last.records = mutable /\ last.schemas \in DeclaredSchemas
    BY DEF SegmentOf, StoreInv
  <2>2. View = Append(segments, last)
    BY <1>4 DEF View
  <2> HIDE DEF last
  <2>3. /\ n \in Nat /\ DOMAIN segments = 1 .. n
        /\ Len(View) = n + 1 /\ DOMAIN View = 1 .. n + 1
        /\ View[n + 1] = last /\ \A i \in 1 .. n : View[i] = segments[i]
    BY <1>1, <2>2
  <2>4. ASSUME NEW i \in DOMAIN View
        PROVE  View[i].records \in Held /\ View[i].schemas \in DeclaredSchemas
    <3>1. CASE i \in 1 .. n
      BY <3>1, <1>2, <2>3
    <3>2. CASE i = n + 1
      BY <3>2, <1>1, <2>1, <2>3
    <3> QED BY <3>1, <3>2, <2>3
  <2>5. ASSUME NEW seg \in Held PROVE \E i \in DOMAIN View : View[i].records = seg
    <3>1. CASE seg = mutable
      BY <3>1, <2>1, <2>3
    <3>2. CASE \E i \in 1 .. n : seg = segments[i].records
      BY <3>2, <2>3
    <3> QED BY <3>1, <3>2, <2>3 DEF Held
  <2> QED BY <2>3, <2>4, <2>5
<1> QED BY <1>3, <1>4

\* A point of a segment, as a candidate.
Entry(seg, id) ==
  [id |-> id, score |-> seg.records[id].val.vec, ver |-> seg.records[id].ver]

LEMMA ScoredAreEntries ==
  ASSUME NEW seg, NEW ids
  PROVE  /\ \A id \in ids : Entry(seg, id) \in Scored(seg, ids)
         /\ \A c \in Scored(seg, ids) : c.id \in ids /\ c = Entry(seg, c.id)
BY DEF Scored, Entry

LEMMA ScoredIsCandidature ==
  ASSUME StoreInv, NEW seg, seg.records \in Held
  PROVE  /\ IsFiniteSet(LivePointsOf(seg.records))
         /\ LiveCount(seg) \in Nat
         /\ Candidature(Scored(seg, LivePointsOf(seg.records)))
<1> DEFINE live == LivePointsOf(seg.records)
           U == Scored(seg, live)
<1>1. live \subseteq HeldIds
  BY DEF LivePointsOf, HeldIds, Absent
<1>2. IsFiniteSet(live) /\ Cardinality(live) \in Nat
  BY <1>1, FS_Subset, FS_CardinalityType DEF StoreInv
<1>3. \A c \in U : c.id \in live /\ c = Entry(seg, c.id)
  BY ScoredAreEntries
<1>4. IsFiniteSet(U)
  <2> DEFINE f == [id \in live |-> Entry(seg, id)]
  <2>1. f \in Surjection(live, U)
    <3>1. \A id \in live : Entry(seg, id) \in U
      BY ScoredAreEntries
    <3> HIDE DEF live, U
    <3> QED BY <1>3, <3>1 DEF Surjection
  <2> HIDE DEF f, live, U
  <2> QED BY <1>2, <2>1, FS_Surjection
<1>5. ASSUME NEW id \in live PROVE id \in Int /\ seg.records[id].val.vec \in Int
  <2>1. id \in Ids /\ seg.records[id].val \in Points
    BY HeldAreWritten DEF LivePointsOf
  <2> QED BY <2>1, SearchAssumption DEF Value
<1>6. \A c \in U : c.id \in Int /\ c.score \in Int
  BY <1>3, <1>5 DEF Entry
<1> HIDE DEF U
<1>7. \A c, d \in U : c.id = d.id => c = d
  BY <1>3
<1> QED BY <1>2, <1>4, <1>6, <1>7 DEF Candidature, LiveCount, U

\* A part of the candidates: the heap keeps the best of it.
LEMMA TopKOfPart ==
  ASSUME NEW U, Candidature(U), NEW C \in SUBSET U, NEW k \in Nat \ {0}
  PROVE  /\ Candidature(C)
         /\ TopK(k, C) = BestOf(C, k)
         /\ TopK(k, C) \subseteq C
         /\ Cardinality(TopK(k, C)) <= k
<1>1. Candidature(C)
  <2>1. IsFiniteSet(C)
    BY FS_Subset DEF Candidature
  <2> QED BY <2>1 DEF Candidature
<1>2. TopK(k, C) = BestOf(C, k)
  BY <1>1, TopKIsBest
<1>3. BestOf(C, k) = FirstOf(Ranking(C), C, k) /\ Orders(Ranking(C), C)
  BY <1>1, RankingOrders, BestOfIsFirst
<1> QED BY <1>1, <1>2, <1>3, FirstAreFew

LEMMA LimitIsPositive ==
  ASSUME StoreInv, NEW seg, seg.records \in Held, LiveCount(seg) # 0, NEW r \in Requests
  PROVE  /\ Cardinality(Stale(seg, Visible)) \in Nat
         /\ IsFiniteSet(Stale(seg, Visible))
         /\ SegmentLimit(seg, r, Visible) \in Nat \ {0}
<1>1. LiveCount(seg) \in Nat \ {0} /\ r.limit \in Nat \ {0}
  BY ScoredIsCandidature, SearchAssumption
<1>2. IsFiniteSet(Stale(seg, Visible)) /\ Cardinality(Stale(seg, Visible)) \in Nat
  <2>1. Stale(seg, Visible) \subseteq LivePointsOf(seg.records)
    BY DEF Stale
  <2> QED BY <2>1, ScoredIsCandidature, FS_Subset, FS_CardinalityType
<1> QED BY <1>1, <1>2 DEF SegmentLimit, Lesser

Hits(seg, filter) == Scored(seg, Meeting(seg.records, filter))

LEMMA HitsAreScored ==
  ASSUME NEW seg, NEW filter
  PROVE  Hits(seg, filter) \subseteq Scored(seg, LivePointsOf(seg.records))
BY DEF Hits, Scored, Meeting

\* Whatever plan it follows, a segment returns live points that match the filter, and
\* a plan that scans returns the best of them.
LEMMA OutcomesAreHits ==
  ASSUME StoreInv, NEW r \in Requests,
         NEW seg, seg.records \in Held, seg.schemas \in DeclaredSchemas,
         WellTyped(seg.records, seg.schemas, r.filter)
  PROVE  /\ \A b \in OutcomesOf(seg, r) : b \subseteq Hits(seg, r.filter)
         /\ Strategy(seg, r, Found(seg, r.filter).maximum) \in {"exact_full_scan", "filter_then_exact"}
              => OutcomesOf(seg, r) = {BestOf(Hits(seg, r.filter), SegmentLimit(seg, r, Visible))}
<1> DEFINE live == LivePointsOf(seg.records)
           U == Scored(seg, live)
           found == Found(seg, r.filter)
           limit == SegmentLimit(seg, r, Visible)
           strategy == Strategy(seg, r, found.maximum)
           hits == Hits(seg, r.filter)
           meeting == Meeting(seg.records, r.filter)
<1>1. r.filter \in Conditions
  BY SearchAssumption
<1>2. found.ids \subseteq live /\ Passing(seg, found.ids, found.residual) = meeting
  BY <1>1, CandidatesAgree DEF Found, Passing
<1>3. Candidature(U) /\ LiveCount(seg) \in Nat
  BY ScoredIsCandidature
<1>4. hits \in SUBSET U /\ meeting \subseteq live
  BY HitsAreScored DEF Meeting
<1>5. CASE LiveCount(seg) = 0
  <2>1. OutcomesOf(seg, r) = {{}}
    BY <1>5 DEF OutcomesOf
  <2>2. live = {}
    BY <1>5, ScoredIsCandidature, FS_EmptySet DEF LiveCount
  <2>3. hits = {}
    BY <2>2, <1>4 DEF Hits, Scored
  <2>4. BestOf(hits, limit) = {}
    BY <2>3 DEF BestOf
  <2> QED BY <2>1, <2>4
<1>6. CASE LiveCount(seg) # 0
  <2>1. OutcomesOf(seg, r) = SegmentOutcomes(seg, r, limit)
    BY <1>6 DEF OutcomesOf
  <2>2. limit \in Nat \ {0}
    BY <1>6, LimitIsPositive
  <2>3. CASE strategy \in {"exact_full_scan", "filter_then_exact"}
    <3>1. OutcomesOf(seg, r) = {TopK(limit, Scored(seg, Passing(seg, found.ids, found.residual)))}
      BY <2>1, <2>3 DEF SegmentOutcomes
    <3>2. OutcomesOf(seg, r) = {TopK(limit, hits)}
      BY <3>1, <1>2 DEF Hits
    <3>3. TopK(limit, hits) = BestOf(hits, limit) /\ TopK(limit, hits) \subseteq hits
      <4> HIDE DEF limit, hits, U
      <4> QED BY <1>3, <1>4, <2>2, TopKOfPart
    <3> QED BY <3>2, <3>3
  <2>4. CASE strategy = "quantized_hnsw_rescore"
    <3>1. OutcomesOf(seg, r) = QuantizedOutcomes(seg, limit, found)
      BY <2>1, <2>4 DEF SegmentOutcomes
    <3>2. ASSUME NEW b \in OutcomesOf(seg, r) PROVE b \subseteq hits
      <4>1. PICK S \in SUBSET meeting : b = TopK(limit, Scored(seg, S))
        BY <3>1, <1>2 DEF QuantizedOutcomes
      <4>2. Scored(seg, S) \subseteq hits
        BY DEF Hits, Scored
      <4>3. Scored(seg, S) \in SUBSET U
        BY <4>2, <1>4
      <4>4. TopK(limit, Scored(seg, S)) \subseteq Scored(seg, S)
        <5> DEFINE C == Scored(seg, S)
        <5> HIDE DEF C, U, limit
        <5>1. TopK(limit, C) \subseteq C
          BY <4>3, <1>3, <2>2, TopKOfPart DEF C
        <5> QED BY <5>1 DEF C
      <4> QED BY <4>1, <4>2, <4>4
    <3> QED BY <3>2, <2>4
  <2>5. CASE strategy \notin {"exact_full_scan", "filter_then_exact", "quantized_hnsw_rescore"}
    <3>1. OutcomesOf(seg, r) = GraphOutcomes(seg, r, limit, found)
      BY <2>1, <2>5 DEF SegmentOutcomes
    <3> DEFINE width == IF r.filter = NoFilter THEN limit ELSE 4 * limit
               local == Lesser(LiveCount(seg), width)
               top(S) == TopK(local, Scored(seg, S \cap found.ids))
               kept(S) == {c \in top(S) : c.id \in Passing(seg, found.ids, found.residual)}
    <3>2. local \in Nat \ {0}
      BY <2>2, <1>3, <1>6 DEF Lesser
    <3>3. ASSUME NEW S PROVE kept(S) \subseteq hits
      <4>1. Scored(seg, S \cap found.ids) \in SUBSET U
        BY <1>2 DEF Scored
      <4> HIDE DEF local, found
      <4>2. top(S) \subseteq Scored(seg, S \cap found.ids)
        <5> DEFINE C == Scored(seg, S \cap found.ids)
        <5> HIDE DEF C, U
        <5>1. TopK(local, C) \subseteq C
          BY <4>1, <3>2, <1>3, TopKOfPart DEF C
        <5> QED BY <5>1 DEF C
      <4>3. ASSUME NEW c \in kept(S) PROVE c \in hits
        <5>1. c \in Scored(seg, S \cap found.ids) /\ c.id \in meeting
          BY <4>2, <1>2
        <5>2. c = Entry(seg, c.id)
          BY <5>1, ScoredAreEntries
        <5> QED BY <5>1, <5>2, ScoredAreEntries DEF Hits
      <4> QED BY <4>3
    <3>4. ASSUME NEW b \in OutcomesOf(seg, r) PROVE b \subseteq hits
      <4>1. PICK S : b = TopK(limit, kept(S))
        BY <3>1 DEF GraphOutcomes
      <4>2. kept(S) \in SUBSET U /\ kept(S) \subseteq hits
        BY <3>3, <1>4
      <4> HIDE DEF kept
      <4>3. TopK(limit, kept(S)) \subseteq kept(S)
        BY <4>2, <1>3, <2>2, TopKOfPart
      <4> QED BY <4>1, <4>2, <4>3
    <3> QED BY <3>4, <2>5
  <2> QED BY <2>3, <2>4, <2>5
<1> QED BY <1>5, <1>6

-----------------------------------------------------------------------------
(***************************************************************************)
(* What a collection returns.                                              *)
(***************************************************************************)
Asked(request) ==
  {id \in Ids : /\ Visible[id].val # Gone
                /\ MatchesFilter(id, Visible[id].val.payload, request.filter)
                /\ Visible[id].val.vec >= request.threshold}

Point(id) == [id |-> id, score |-> Visible[id].val.vec]

LEMMA WantedAreAsked ==
  ASSUME NEW request
  PROVE  /\ \A id \in Asked(request) : Point(id) \in Wanted(request)
         /\ \A c \in Wanted(request) : c.id \in Asked(request) /\ c = Point(c.id)
<1>1. Wanted(request) = {Point(id) : id \in Asked(request)}
  BY DEF Wanted, Asked, Point
<1>2. \A id : Point(id).id = id
  BY DEF Point
<1> HIDE DEF Asked
<1> QED BY <1>1, <1>2

LEMMA VisibleIsWritten ==
  ASSUME StoreInv, NEW id \in Ids, Visible[id].val # Gone
  PROVE  /\ id \in HeldIds /\ id \in Int /\ Visible[id].val.vec \in Int
         /\ \E seg \in Held : Visible[id] = seg[id] /\ seg # EmptySegment
<1>1. PICK seg \in Held : Visible[id] = seg[id]
  BY VisibleIsNewest
<1>2. seg[id].val \in Points /\ seg[id] # Absent /\ seg # EmptySegment
  BY <1>1, HeldAreWritten DEF Absent, EmptySegment
<1>3. id \in HeldIds
  BY <1>2 DEF HeldIds
<1> QED BY <1>1, <1>2, <1>3, SearchAssumption DEF Value

LEMMA WantedIsCandidature ==
  ASSUME StoreInv, NEW request
  PROVE  Candidature(Wanted(request))
<1> DEFINE U == Wanted(request)
           asked == Asked(request)
<1>1. \A id \in asked : id \in HeldIds /\ id \in Int /\ Visible[id].val.vec \in Int
  BY VisibleIsWritten DEF Asked
<1>2. /\ \A id \in asked : Point(id) \in U
      /\ \A c \in U : c.id \in asked /\ c = Point(c.id)
  BY WantedAreAsked
<1>3. IsFiniteSet(asked)
  <2>1. asked \subseteq HeldIds
    BY <1>1
  <2> QED BY <2>1, FS_Subset DEF StoreInv
<1> HIDE DEF U, asked
<1>4. IsFiniteSet(U)
  <2> DEFINE f == [id \in asked |-> Point(id)]
  <2>1. f \in Surjection(asked, U)
    BY <1>2 DEF Surjection
  <2> HIDE DEF f
  <2> QED BY <1>3, <2>1, FS_Surjection
<1>5. \A c \in U : c.id \in Int /\ c.score \in Int
  BY <1>1, <1>2 DEF Point
<1>6. \A c, d \in U : c.id = d.id => c = d
  BY <1>2
<1> QED BY <1>4, <1>5, <1>6 DEF Candidature, U

\* A point that a segment offers at its newest version is asked for, at its score.
LEMMA OfferedAreWanted ==
  ASSUME StoreInv, NEW request, NEW seg, seg.records \in Held,
         NEW d \in Hits(seg, request.filter), IsVisible(d, Visible), d.score >= request.threshold
  PROVE  /\ d.id \in Asked(request)
         /\ Point(d.id) = [id |-> d.id, score |-> d.score]
<1>1. d.id \in Meeting(seg.records, request.filter) /\ d = Entry(seg, d.id)
  BY ScoredAreEntries DEF Hits
<1> DEFINE i == d.id
<1>2. i \in Ids /\ MatchesFilter(i, seg.records[i].val.payload, request.filter)
  BY <1>1 DEF Meeting, LivePointsOf
<1>3. d.ver = seg.records[i].ver /\ d.score = seg.records[i].val.vec
  BY <1>1 DEF Entry
<1>4. Visible[i].val # Gone /\ Visible[i].ver = seg.records[i].ver
  BY <1>3 DEF IsVisible
<1> HIDE DEF i
<1>5. Visible[i] = seg.records[i]
  BY <1>2, <1>4, VisibleVersion
<1>6. i \in Asked(request)
  BY <1>2, <1>3, <1>4, <1>5 DEF Asked
<1> QED BY <1>3, <1>5, <1>6 DEF Point, i

LEMMA OfferedPart ==
  ASSUME StoreInv, NEW r \in Requests, SafeFor(r), NEW cs \in Merged(r)
  PROVE  Offered(cs, r) \in SUBSET Wanted(r)
<1> SUFFICES ASSUME NEW c \in Offered(cs, r) PROVE c \in Wanted(r)
  OBVIOUS
<1>1. PICK d \in cs : /\ IsVisible(d, Visible) /\ d.score >= r.threshold
                      /\ c = [id |-> d.id, score |-> d.score]
  BY DEF Offered
<1>2. PICK i \in DOMAIN View : \E b \in OutcomesOf(View[i], r) : d \in b
  BY ViewIsHeld, MergedAreOutcomes
<1>3. View[i].records \in Held /\ View[i].schemas \in DeclaredSchemas
  BY ViewIsHeld
<1>4. d \in Hits(View[i], r.filter)
  BY <1>2, <1>3, OutcomesAreHits DEF SafeFor
<1>5. d.id \in Asked(r) /\ c = Point(d.id)
  BY <1>1, <1>3, <1>4, OfferedAreWanted
<1> QED BY <1>5, WantedAreAsked

\* As many ids as candidates.
LEMMA IdsAreAsMany ==
  ASSUME NEW U, Candidature(U), NEW A \in SUBSET U
  PROVE  LET ids == {c.id : c \in A}
         IN  /\ IsFiniteSet(ids) /\ Cardinality(ids) = Cardinality(A)
             /\ Cardinality(A) \in Nat
<1> DEFINE ids == {c.id : c \in A}
           f == [c \in A |-> c.id]
<1>1. IsFiniteSet(A)
  BY FS_Subset DEF Candidature
<1>2. f \in [A -> ids] /\ \A c, d \in A : f[c] = f[d] => c = d
  BY DEF Candidature
<1>3. \A x \in ids : \E c \in A : f[c] = x
  OBVIOUS
<1> HIDE DEF f, ids
<1>4. f \in Surjection(A, ids)
  BY <1>2, <1>3 DEF Surjection
<1>5. f \in Injection(A, ids)
  BY <1>2 DEF Injection, IsInjective
<1>6. IsFiniteSet(ids)
  BY <1>1, <1>4, FS_Surjection
<1>7. Cardinality(ids) = Cardinality(A)
  BY <1>4, <1>5, <1>6, FS_Injection
<1> QED BY <1>1, <1>6, <1>7, FS_CardinalityType DEF ids

\* The limit of a segment is high enough: a point that is among the best wanted is among
\* the best its segment returns.  Ahead of it in the segment are stale records, as many
\* as were added to the limit, and points that are ahead of it among the wanted.
LEMMA LimitIsEnough ==
  ASSUME StoreInv, NEW r \in Requests,
         NEW w \in BestOf(Wanted(r), r.limit),
         NEW seg, seg.records \in Held, Visible[w.id] = seg.records[w.id]
  PROVE  Entry(seg, w.id) \in BestOf(Hits(seg, r.filter), SegmentLimit(seg, r, Visible))
<1> DEFINE i == w.id
           c == Entry(seg, i)
           records == seg.records
           live == LivePointsOf(records)
           hits == Hits(seg, r.filter)
           U == Scored(seg, live)
           stale == Stale(seg, Visible)
           A == {d \in hits : Better(d, c)}
           B == {d \in Wanted(r) : Better(d, w)}
           idsA == {d.id : d \in A}
           idsB == {d.id : d \in B}
<1>1. /\ w \in Wanted(r) /\ w = Point(i) /\ i \in Asked(r)
      /\ Cardinality(B) < r.limit
  BY WantedAreAsked DEF BestOf
<1>2. /\ i \in Ids /\ Visible[i].val # Gone
      /\ MatchesFilter(i, Visible[i].val.payload, r.filter)
      /\ Visible[i].val.vec >= r.threshold
      /\ w.score = Visible[i].val.vec
  BY <1>1 DEF Asked, Point
<1>3. i \in live /\ c \in hits /\ c.id = i /\ c.score = w.score
  <2>1. i \in Meeting(records, r.filter) /\ i \in live
    BY <1>2 DEF Meeting, LivePointsOf
  <2>2. c \in hits
    BY <2>1, ScoredAreEntries DEF Hits
  <2> QED BY <1>2, <2>1, <2>2 DEF Entry
<1>4. Candidature(U) /\ hits \in SUBSET U /\ LiveCount(seg) \in Nat /\ IsFiniteSet(live)
  BY ScoredIsCandidature, HitsAreScored
<1>5. IsFiniteSet(stale) /\ Cardinality(stale) \in Nat
  <2>1. stale \subseteq live
    BY DEF Stale
  <2> QED BY <2>1, <1>4, FS_Subset, FS_CardinalityType
<1>6. Candidature(Wanted(r))
  BY WantedIsCandidature
<1>7. \A d \in hits : d.id \in Meeting(records, r.filter) /\ d = Entry(seg, d.id)
  BY ScoredAreEntries DEF Hits
<1> HIDE DEF hits, U, stale, c
<1>8. IsFiniteSet(idsA) /\ Cardinality(idsA) = Cardinality(A) /\ Cardinality(A) \in Nat
  <2>1. A \in SUBSET U
    BY <1>4
  <2> HIDE DEF A
  <2> QED BY <1>4, <2>1, IdsAreAsMany
<1>9. IsFiniteSet(idsB) /\ Cardinality(idsB) = Cardinality(B) /\ Cardinality(B) \in Nat
  <2>1. B \in SUBSET Wanted(r)
    OBVIOUS
  <2> HIDE DEF B
  <2> QED BY <1>6, <2>1, IdsAreAsMany
<1>10. Cardinality(A) < LiveCount(seg)
  <2>1. idsA \subseteq live
    BY <1>7 DEF Meeting
  <2>2. i \notin idsA
    <3> SUFFICES ASSUME NEW d \in A, d.id = i PROVE FALSE
      OBVIOUS
    <3>1. d = c
      BY <1>7, <1>3 DEF c
    <3>2. c.score \in Int /\ c.id \in Int
      BY <1>3, <1>4 DEF Candidature
    <3> QED BY <3>1, <3>2 DEF Better
  <2> HIDE DEF idsA
  <2>3. Cardinality(idsA) <= Cardinality(live) /\ Cardinality(idsA) # Cardinality(live)
    BY <2>1, <2>2, <1>3, <1>4, FS_Subset
  <2> QED BY <2>3, <1>4, <1>8 DEF LiveCount
<1>11. idsA \subseteq stale \cup idsB
  <2> SUFFICES ASSUME NEW d \in A, d.id \notin stale PROVE d.id \in idsB
    OBVIOUS
  <2>1. d \in hits /\ Better(d, c)
    OBVIOUS
  <2>2. /\ d.id \in Ids /\ d.id \in live
        /\ d.score = records[d.id].val.vec /\ d.ver = records[d.id].ver
        /\ records[d.id].val # Gone
    BY <1>7, <2>1 DEF Entry, Meeting, LivePointsOf
  <2>3. Visible[d.id].ver = records[d.id].ver
    BY <2>2 DEF Stale, stale
  <2>4. Visible[d.id] = records[d.id]
    BY <2>2, <2>3, VisibleVersion
  <2>5. IsVisible(d, Visible)
    BY <2>2, <2>4 DEF IsVisible
  <2>6. d.score >= r.threshold
    <3>1. d.score \in Int /\ c.score \in Int /\ r.threshold \in Int
      BY <1>3, <1>4, <2>1, SearchAssumption DEF Candidature
    <3>2. d.score >= c.score
      BY <2>1, <3>1 DEF Better
    <3> QED BY <3>1, <3>2, <1>2, <1>3
  <2>7. d.id \in Asked(r) /\ Point(d.id) = [id |-> d.id, score |-> d.score]
    BY <2>1, <2>5, <2>6, OfferedAreWanted DEF hits
  <2> DEFINE e == Point(d.id)
  <2>8. e.id = d.id /\ e.score = d.score /\ e \in Wanted(r)
    BY <2>7, WantedAreAsked
  <2>9. Better(e, w)
    BY <2>1, <2>8, <1>3 DEF Better
  <2> HIDE DEF e
  <2> QED BY <2>8, <2>9
<1>12. Cardinality(A) < r.limit + Cardinality(stale)
  <2> HIDE DEF idsA, idsB, A, B
  <2>1. /\ IsFiniteSet(stale \cup idsB)
        /\ Cardinality(stale \cup idsB) \in Nat
        /\ Cardinality(stale \cup idsB) <= Cardinality(stale) + Cardinality(idsB)
    <3>1. /\ IsFiniteSet(stale \cup idsB)
          /\ Cardinality(stale \cup idsB)
               = Cardinality(stale) + Cardinality(idsB) - Cardinality(stale \cap idsB)
      BY <1>5, <1>9, FS_Union
    <3>2. Cardinality(stale \cap idsB) \in Nat
      BY <1>5, FS_Subset, FS_CardinalityType
    <3> QED BY <3>1, <3>2, <1>5, <1>9, FS_CardinalityType
  <2>2. Cardinality(idsA) <= Cardinality(stale \cup idsB)
    BY <1>11, <2>1, FS_Subset
  <2>3. r.limit \in Nat
    BY SearchAssumption
  <2> QED BY <2>1, <2>2, <2>3, <1>1, <1>5, <1>8, <1>9
<1>13. Cardinality(A) < SegmentLimit(seg, r, Visible)
  BY <1>10, <1>12 DEF SegmentLimit, Lesser, stale
<1> QED BY <1>3, <1>13 DEF BestOf, c, hits

\* A search that scans every segment.
LEMMA ScansFindTheBest ==
  ASSUME StoreInv, NEW r \in Requests, SafeFor(r), Scans(r)
  PROVE  Answers(r) = {BestOf(Wanted(r), r.limit)}
<1> DEFINE K == [i \in DOMAIN View |->
                   BestOf(Hits(View[i], r.filter), SegmentLimit(View[i], r, Visible))]
           all == AllOf(K)
           top == BestOf(Wanted(r), r.limit)
<1>1. \A i \in DOMAIN View : View[i].records \in Held /\ View[i].schemas \in DeclaredSchemas
  BY ViewIsHeld
<1>2. \A i \in DOMAIN View : OutcomesOf(View[i], r) = {K[i]}
  BY <1>1, OutcomesAreHits DEF Scans, SafeFor
<1>3. Merged(r) = {all}
  <2> HIDE DEF K
  <2>1. PICK n \in Nat : DOMAIN View = 1 .. n
    BY ViewIsHeld
  <2> QED BY <2>1, <1>2, OneOutcome
<1>4. Candidature(Wanted(r)) /\ r.limit \in Nat \ {0}
  BY WantedIsCandidature, SearchAssumption
<1>5. ASSUME NEW w \in top PROVE w \in Offered(all, r)
  <2>1. w \in Wanted(r) /\ w.id \in Asked(r) /\ w = Point(w.id)
    BY WantedAreAsked DEF BestOf
  <2>2. w.id \in Ids /\ Visible[w.id].val # Gone /\ Visible[w.id].val.vec >= r.threshold
    BY <2>1 DEF Asked
  <2>3. PICK records \in Held : Visible[w.id] = records[w.id] /\ records # EmptySegment
    BY <2>2, VisibleIsWritten
  <2>4. PICK i \in DOMAIN View : View[i].records = records
    BY <2>3, ViewIsHeld
  <2> DEFINE seg == View[i]
             c == Entry(seg, w.id)
  <2>5. c \in K[i]
    BY <2>3, <2>4, <1>1, LimitIsEnough
  <2> HIDE DEF K
  <2>6. c \in all
    BY <2>5 DEF AllOf
  <2> HIDE DEF all
  <2>7. c.id = w.id /\ c.score = Visible[w.id].val.vec /\ c.ver = Visible[w.id].ver
    BY <2>3, <2>4 DEF Entry
  <2>8. w = [id |-> c.id, score |-> c.score]
    BY <2>1, <2>7 DEF Point
  <2>9. IsVisible(c, Visible) /\ c.score >= r.threshold
    BY <2>2, <2>7 DEF IsVisible
  <2> QED BY <2>6, <2>8, <2>9 DEF Offered
<1> HIDE DEF all, top
<1>6. Offered(all, r) \in SUBSET Wanted(r)
  BY <1>3, OfferedPart
<1>7. TopK(r.limit, Offered(all, r)) = top
  <2> DEFINE offered == Offered(all, r)
  <2>1. top \subseteq offered
    BY <1>5
  <2> HIDE DEF offered
  <2>2. TopK(r.limit, offered) = BestOf(offered, r.limit)
    BY <1>4, <1>6, TopKOfPart DEF offered
  <2>3. BestOf(offered, r.limit) = top
    BY <1>4, <1>6, <2>1, BestOfPart DEF offered, top
  <2> QED BY <2>2, <2>3 DEF offered
<1>8. Answers(r) = {TopK(r.limit, Offered(all, r))}
  BY <1>3, AnswersOffer
<1> QED BY <1>7, <1>8 DEF top

\* Any search.
LEMMA AnswersAreWanted ==
  ASSUME StoreInv, NEW r \in Requests, SafeFor(r), NEW answer \in Answers(r)
  PROVE  answer \subseteq Wanted(r) /\ Cardinality(answer) <= r.limit
<1>1. PICK cs \in Merged(r) : answer = TopK(r.limit, Offered(cs, r))
  BY AnswersOffer
<1>2. Offered(cs, r) \in SUBSET Wanted(r)
  BY OfferedPart
<1>3. Candidature(Wanted(r)) /\ r.limit \in Nat \ {0}
  BY WantedIsCandidature, SearchAssumption
<1> DEFINE offered == Offered(cs, r)
<1> HIDE DEF offered
<1>4. TopK(r.limit, offered) \subseteq offered /\ Cardinality(TopK(r.limit, offered)) <= r.limit
  BY <1>2, <1>3, TopKOfPart DEF offered
<1> QED BY <1>1, <1>2, <1>4 DEF offered

\* A search whose plan scans every segment, for a filter that is well typed in each,
\* returns exactly the best of all visible points that match the filter and reach the
\* threshold, in every state: although each segment returns no more than its own limit,
\* stale versions of points included, and whatever is flushed, replaced, indexed or
\* reopened before.
THEOREM ExactSearchIsBruteForce == Spec => []ExactIsBruteForce
<1>1. ASSUME StoreInv PROVE ExactIsBruteForce
  BY <1>1, ScansFindTheBest DEF ExactIsBruteForce
<1> QED BY <1>1, StoreInitInv, StoreNextInv, PTL DEF Spec

\* Whatever plan each segment follows, graph or quantized, a search for a filter that is
\* well typed in each returns only points that are asked for, at their current score:
\* never a deleted one, an old version, or one that the filter rejects; and no more than
\* the limit.
THEOREM ApproximateSearchIsSound == Spec => []ApproximateIsSound
<1>1. ASSUME StoreInv PROVE ApproximateIsSound
  BY <1>1, AnswersAreWanted DEF ApproximateIsSound
<1> QED BY <1>1, StoreInitInv, StoreNextInv, PTL DEF Spec
=============================================================================
