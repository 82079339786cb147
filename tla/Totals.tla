-------------------------------- MODULE Totals --------------------------------
(***************************************************************************)
(* What is true of the sums and listings of Sums.  The models use them     *)
(* with quantities that are natural numbers and with strict linear orders. *)
(***************************************************************************)
EXTENDS Sums, FiniteSetTheorems, TLAPS

LEMMA UnitsOfOne ==
  ASSUME NEW x, NEW n \in Nat
  PROVE  IsFiniteSet({x} \X (1..n)) /\ Cardinality({x} \X (1..n)) = n
<1>1. IsFiniteSet(1..n) /\ Cardinality(1..n) = n
  BY FS_Interval
<1>2. IsFiniteSet({x}) /\ Cardinality({x}) = 1
  BY FS_Singleton
<1>3. IsFiniteSet({x} \X (1..n)) /\ Cardinality({x} \X (1..n)) = Cardinality({x}) * Cardinality(1..n)
  BY <1>1, <1>2, FS_Product, Zenon
<1>4. Cardinality({x}) * Cardinality(1..n) = n
  BY <1>1, <1>2
<1>. QED  BY <1>3, <1>4

LEMMA UnitsFinite ==
  ASSUME NEW S, IsFiniteSet(S), NEW q, \A x \in S : q[x] \in Nat
  PROVE  IsFiniteSet(UnitsOf(S, q))
<1>. DEFINE pile == [x \in S |-> {x} \X (1..q[x])]
            piles == {{x} \X (1..q[x]) : x \in S}
<1>1. pile \in Surjection(S, piles)
  <2>1. pile \in [S -> piles]
    OBVIOUS
  <2>2. \A T \in piles : \E x \in S : pile[x] = T
    OBVIOUS
  <2>. HIDE DEF pile, piles
  <2>. QED  BY <2>1, <2>2, Zenon DEF Surjection
<1>2. IsFiniteSet(piles)
  BY <1>1, FS_Surjection
<1>3. \A T \in piles : IsFiniteSet(T)
  <2>1. ASSUME NEW x \in S
        PROVE  IsFiniteSet({x} \X (1..q[x]))
    BY UnitsOfOne
  <2>. QED  BY <2>1, Zenon
<1>. HIDE DEF piles
<1>4. IsFiniteSet(UNION piles)
  BY <1>2, <1>3, FS_UNION
<1>. QED  BY <1>4 DEF UnitsOf, piles

(* A total of natural numbers is one.                                       *)
LEMMA TotalType ==
  ASSUME NEW S, IsFiniteSet(S), NEW q, \A x \in S : q[x] \in Nat
  PROVE  Total(S, q) \in Nat
BY UnitsFinite, FS_CardinalityType DEF Total

LEMMA TotalEmpty == \A q : Total({}, q) = 0
BY FS_EmptySet DEF Total, UnitsOf

(* A total depends on the quantities of the set only.                       *)
LEMMA TotalSame ==
  ASSUME NEW S, NEW q, NEW r, \A x \in S : q[x] = r[x]
  PROVE  Total(S, q) = Total(S, r)
<1>1. {{x} \X (1..q[x]) : x \in S} = {{x} \X (1..r[x]) : x \in S}
  OBVIOUS
<1>. QED  BY <1>1 DEF Total, UnitsOf

(* One more element adds its quantity.                                      *)
LEMMA TotalAdd ==
  ASSUME NEW S, IsFiniteSet(S), NEW x, x \notin S, NEW q, \A y \in S \cup {x} : q[y] \in Nat
  PROVE  Total(S \cup {x}, q) = Total(S, q) + q[x]
<1>. DEFINE U == UnitsOf(S, q)
            V == {x} \X (1..q[x])
<1>1. UnitsOf(S \cup {x}, q) = U \cup V
  <2>1. \A u : u \in UnitsOf(S \cup {x}, q) <=> \E y \in S \cup {x} : u \in {y} \X (1..q[y])
    BY Zenon DEF UnitsOf
  <2>2. \A u : u \in U <=> \E y \in S : u \in {y} \X (1..q[y])
    BY Zenon DEF UnitsOf
  <2>. HIDE DEF U
  <2>. QED  BY <2>1, <2>2, Zenon
<1>2. U \cap V = {}
  BY DEF UnitsOf
<1>3. IsFiniteSet(U) /\ IsFiniteSet(V) /\ Cardinality(V) = q[x]
  BY UnitsFinite, UnitsOfOne
<1>4. Cardinality(U) \in Nat
  BY <1>3, FS_CardinalityType
<1>. HIDE DEF U, V
<1>5. Cardinality(U \cup V) = Cardinality(U) + Cardinality(V) - Cardinality(U \cap V)
  BY <1>3, FS_Union, Zenon
<1>6. Cardinality(U \cap V) = 0
  BY <1>2, FS_EmptySet, Zenon
<1>7. Total(S \cup {x}, q) = Cardinality(U \cup V) /\ Total(S, q) = Cardinality(U)
  BY <1>1, Zenon DEF Total, U
<1>8. q[x] \in Nat
  OBVIOUS
<1>. QED  BY <1>3, <1>4, <1>5, <1>6, <1>7, <1>8

LEMMA TotalRemove ==
  ASSUME NEW S, IsFiniteSet(S), NEW x \in S, NEW q, \A y \in S : q[y] \in Nat
  PROVE  Total(S, q) = Total(S \ {x}, q) + q[x]
<1>1. IsFiniteSet(S \ {x}) /\ S = (S \ {x}) \cup {x}
  BY FS_RemoveElement
<1>. DEFINE T == S \ {x}
<1>2. IsFiniteSet(T) /\ x \notin T /\ T \cup {x} = S
  BY <1>1
<1>. HIDE DEF T
<1>3. Total(T \cup {x}, q) = Total(T, q) + q[x]
  BY <1>2, TotalAdd
<1>. QED  BY <1>2, <1>3 DEF T

(* When one quantity changes, the total changes by the difference.          *)
LEMMA TotalChange ==
  ASSUME NEW S, IsFiniteSet(S), NEW x \in S, NEW q, NEW r,
         \A y \in S : q[y] \in Nat /\ r[y] \in Nat,
         \A y \in S \ {x} : r[y] = q[y]
  PROVE  Total(S, r) = Total(S, q) - q[x] + r[x]
<1>1. Total(S, q) = Total(S \ {x}, q) + q[x] /\ Total(S, r) = Total(S \ {x}, r) + r[x]
  BY TotalRemove
<1>2. Total(S \ {x}, q) = Total(S \ {x}, r)
  BY TotalSame
<1>3. IsFiniteSet(S \ {x})
  BY FS_RemoveElement
<1>4. Total(S \ {x}, q) \in Nat
  BY <1>3, TotalType
<1>. QED  BY <1>1, <1>2, <1>4

(* A part of the set has no larger total.                                   *)
LEMMA TotalPart ==
  ASSUME NEW S, IsFiniteSet(S), NEW T \in SUBSET S, NEW q, \A y \in S : q[y] \in Nat
  PROVE  IsFiniteSet(T) /\ Total(T, q) <= Total(S, q)
<1>1. UnitsOf(T, q) \in SUBSET UnitsOf(S, q)
  BY Zenon DEF UnitsOf
<1>. QED  BY <1>1, UnitsFinite, FS_Subset DEF Total

(* The units are those of the elements.                                     *)
LEMMA UnitsAre ==
  ASSUME NEW S, NEW q
  PROVE  \A u : u \in UnitsOf(S, q) <=> \E x \in S : u \in {x} \X (1..q[x])
BY Zenon DEF UnitsOf

(* Larger quantities make a larger total.                                   *)
LEMMA TotalGrows ==
  ASSUME NEW S, IsFiniteSet(S), NEW q, NEW r,
         \A y \in S : q[y] \in Nat /\ r[y] \in Nat /\ q[y] <= r[y]
  PROVE  Total(S, q) <= Total(S, r)
<1>1. \A x \in S : {x} \X (1..q[x]) \subseteq {x} \X (1..r[x])
  OBVIOUS
<1>2. ASSUME NEW u \in UnitsOf(S, q)
      PROVE  u \in UnitsOf(S, r)
  <2>1. PICK x \in S : u \in {x} \X (1..q[x])
    BY UnitsAre, Zenon
  <2>2. u \in {x} \X (1..r[x])
    BY <1>1, <2>1, Zenon
  <2>. QED  BY <2>2, UnitsAre, Zenon
<1>3. IsFiniteSet(UnitsOf(S, r))
  BY UnitsFinite
<1>4. UnitsOf(S, q) \in SUBSET UnitsOf(S, r)
  BY <1>2, Zenon
<1>. QED  BY <1>3, <1>4, FS_Subset, Zenon DEF Total

(* No quantity exceeds the total.                                           *)
LEMMA TotalBound ==
  ASSUME NEW S, IsFiniteSet(S), NEW x \in S, NEW q, \A y \in S : q[y] \in Nat
  PROVE  q[x] <= Total(S, q)
<1>1. Total(S, q) = Total(S \ {x}, q) + q[x]
  BY TotalRemove
<1>2. IsFiniteSet(S \ {x})
  BY FS_RemoveElement
<1>3. Total(S \ {x}, q) \in Nat
  BY <1>2, TotalType
<1>. QED  BY <1>1, <1>3

(* f gives the elements of S other names in T, with the same quantities;    *)
(* what it leaves out of T has no quantity.                                 *)
Renames(f, S, r, T, q) ==
  /\ \A x \in S : f[x] \in T /\ r[x] = q[f[x]]
  /\ \A x, y \in S : f[x] = f[y] => x = y
  /\ \A y \in T : q[y] = 0 \/ \E x \in S : f[x] = y

LEMMA TotalRenamed ==
  ASSUME NEW S, IsFiniteSet(S), NEW r, \A x \in S : r[x] \in Nat, NEW T, NEW q, NEW f, Renames(f, S, r, T, q)
  PROVE  Total(S, r) = Total(T, q)
<1>1. /\ \A x \in S : f[x] \in T /\ r[x] = q[f[x]]
      /\ \A x, y \in S : f[x] = f[y] => x = y
      /\ \A y \in T : q[y] = 0 \/ \E x \in S : f[x] = y
  BY DEF Renames
<1>. DEFINE U == UnitsOf(S, r)
            V == UnitsOf(T, q)
            g == [u \in U |-> <<f[u[1]], u[2]>>]
<1>2. \A u : u \in U <=> \E x \in S : u \in {x} \X (1..r[x])
  BY UnitsAre
<1>3. \A v : v \in V <=> \E y \in T : v \in {y} \X (1..q[y])
  BY UnitsAre
<1>4. IsFiniteSet(U)
  BY UnitsFinite
<1>5. \A u \in U : u = <<u[1], u[2]>> /\ u[1] \in S /\ u[2] \in 1..r[u[1]]
  <2>. HIDE DEF U
  <2>. QED  BY <1>2
<1>6. \A x \in S : \A k \in 1..r[x] : <<x, k>> \in U
  <2>. HIDE DEF U
  <2>. QED  BY <1>2
<1>7. \A v \in V : \E y \in T : \E k \in 1..q[y] : v = <<y, k>>
  <2>. HIDE DEF V
  <2>. QED  BY <1>3
<1>8. \A y \in T : \A k \in 1..q[y] : <<y, k>> \in V
  <2>. HIDE DEF V
  <2>. QED  BY <1>3
<1>. HIDE DEF U, V
<1>9. \A u \in U : g[u] \in V
  BY <1>1, <1>5, <1>8
<1>10. \A u, w \in U : g[u] = g[w] => u = w
  BY <1>1, <1>5
<1>11. \A v \in V : \E u \in U : g[u] = v
  <2>. SUFFICES ASSUME NEW v \in V
                PROVE  \E u \in U : g[u] = v
    OBVIOUS
  <2>1. PICK y \in T : \E k \in 1..q[y] : v = <<y, k>>
    BY <1>7
  <2>2. PICK k \in 1..q[y] : v = <<y, k>>
    BY <2>1
  <2>3. q[y] # 0
    OBVIOUS
  <2>4. PICK x \in S : f[x] = y
    BY <1>1, <2>3
  <2>5. <<x, k>> \in U
    BY <1>1, <1>6, <2>4
  <2>. QED  BY <2>2, <2>4, <2>5
<1>12. g \in Bijection(U, V)
  <2>1. g \in [U -> V]
    BY <1>9
  <2>. HIDE DEF g
  <2>. QED  BY <1>10, <1>11, <2>1 DEF Bijection, Injection, Surjection, IsInjective
<1>13. ExistsBijection(U, V)
  BY <1>12 DEF ExistsBijection
<1>14. Cardinality(V) = Cardinality(U)
  BY <1>4, <1>13, FS_Bijection
<1>. QED  BY <1>14 DEF Total, U, V

(* `sooner' is a strict linear order on S.                                  *)
StrictlyOrders(sooner, S) ==
  /\ \A x \in S : <<x, x>> \notin sooner
  /\ \A x, y \in S : x # y => <<x, y>> \in sooner \/ <<y, x>> \in sooner
  /\ \A x, y, z \in S : <<x, y>> \in sooner /\ <<y, z>> \in sooner => <<x, z>> \in sooner

(* `list' has the n elements of S, each once, the sooner ones first.        *)
Listing(list, n, S, sooner) ==
  /\ n \in Nat
  /\ DOMAIN list = 1..n
  /\ list \in [1..n -> S]
  /\ \A x \in S : \E i \in 1..n : list[i] = x
  /\ \A i, j \in 1..n : i < j <=> <<list[i], list[j]>> \in sooner
  /\ \A i, j \in 1..n : list[i] = list[j] => i = j
  /\ \A i \in 1..n : \A x \in S : <<x, list[i]>> \in sooner <=> \E j \in 1..n : j < i /\ x = list[j]

LEMMA InOrderLists ==
  ASSUME NEW S, IsFiniteSet(S), NEW sooner, StrictlyOrders(sooner, S),
         NEW n, n = Cardinality(S),
         NEW list, list = InOrder(S, sooner)
  PROVE  Listing(list, n, S, sooner)
<1>. DEFINE Under(x) == {y \in S : <<y, x>> \in sooner}
            rank == [x \in S |-> Rank(S, sooner, x)]
<1>. USE DEF StrictlyOrders
<1>1. n \in Nat
  BY FS_CardinalityType
<1>2. \A x \in S : IsFiniteSet(Under(x)) /\ rank[x] = Cardinality(Under(x)) /\ rank[x] \in 0..(n - 1)
  <2>. SUFFICES ASSUME NEW x \in S
                PROVE  IsFiniteSet(Under(x)) /\ rank[x] = Cardinality(Under(x)) /\ rank[x] \in 0..(n - 1)
    OBVIOUS
  <2>1. Under(x) \in SUBSET (S \ {x})
    OBVIOUS
  <2>2. IsFiniteSet(S \ {x}) /\ Cardinality(S \ {x}) = n - 1
    BY FS_RemoveElement
  <2>3. IsFiniteSet(Under(x)) /\ Cardinality(Under(x)) <= Cardinality(S \ {x})
    BY <2>1, <2>2, FS_Subset, Zenon
  <2>4. Cardinality(Under(x)) \in Nat
    BY <2>3, FS_CardinalityType
  <2>5. rank[x] = Cardinality(Under(x))
    BY DEF Rank
  <2>. QED  BY <1>1, <2>2, <2>3, <2>4, <2>5
<1>3. \A x, y \in S : <<x, y>> \in sooner => rank[x] < rank[y]
  <2>. SUFFICES ASSUME NEW x \in S, NEW y \in S, <<x, y>> \in sooner
                PROVE  rank[x] < rank[y]
    OBVIOUS
  <2>1. Under(x) \in SUBSET Under(y) /\ x \in Under(y) /\ x \notin Under(x)
    OBVIOUS
  <2>2. Cardinality(Under(x)) <= Cardinality(Under(y)) /\ Cardinality(Under(x)) # Cardinality(Under(y))
    BY <1>2, <2>1, FS_Subset, Zenon
  <2>. HIDE DEF rank, Under
  <2>. QED  BY <1>2, <2>2
<1>. HIDE DEF rank, Under
<1>4. \A x, y \in S : rank[x] = rank[y] => x = y
  <2>1. \A x \in S : rank[x] \in Int
    BY <1>2
  <2>. SUFFICES ASSUME NEW x \in S, NEW y \in S, x # y
                PROVE  rank[x] # rank[y]
    OBVIOUS
  <2>2. <<x, y>> \in sooner \/ <<y, x>> \in sooner
    OBVIOUS
  <2>3. rank[x] < rank[y] \/ rank[y] < rank[x]
    BY <1>3, <2>2, Zenon
  <2>. QED  BY <2>1, <2>3
<1>5. rank \in [S -> 0..(n - 1)]
  BY <1>2 DEF rank
<1>6. rank \in Injection(S, 0..(n - 1))
  BY <1>4, <1>5 DEF Injection, IsInjective
<1>7. IsFiniteSet(0..(n - 1)) /\ Cardinality(0..(n - 1)) = n
  <2>1. n - 1 \in Int /\ 0 \in Int
    BY <1>1
  <2>2. \A b \in Int : IsFiniteSet(0..b) /\ Cardinality(0..b) = IF 0 > b THEN 0 ELSE b - 0 + 1
    BY <2>1, FS_Interval, Zenon
  <2>3. IsFiniteSet(0..(n - 1)) /\ Cardinality(0..(n - 1)) = IF 0 > n - 1 THEN 0 ELSE n - 1 - 0 + 1
    BY <2>1, <2>2, Zenon
  <2>. QED  BY <1>1, <2>3
<1>8. rank \in Surjection(S, 0..(n - 1))
  BY <1>6, <1>7, FS_Injection, Zenon
<1>9. \A i \in 1..n : \E x \in S : rank[x] = i - 1
  <2>1. \A k \in 0..(n - 1) : \E x \in S : rank[x] = k
    BY <1>8 DEF Surjection
  <2>. QED  BY <1>1, <2>1
<1>10. DOMAIN list = 1..n /\ \A i \in 1..n : list[i] = CHOOSE x \in S : rank[x] = i - 1
  BY DEF InOrder, rank
<1>11. \A i \in 1..n : list[i] \in S /\ rank[list[i]] = i - 1
  <2>. SUFFICES ASSUME NEW i \in 1..n
                PROVE  list[i] \in S /\ rank[list[i]] = i - 1
    OBVIOUS
  <2>1. PICK x \in S : rank[x] = i - 1
    BY <1>9
  <2>2. list[i] = CHOOSE y \in S : rank[y] = i - 1
    BY <1>10
  <2>. QED  BY <2>1, <2>2
<1>12. list \in [1..n -> S]
  <2>1. list = [i \in 1..n |-> list[i]]
    BY DEF InOrder
  <2>. QED  BY <1>11, <2>1, Zenon
<1>13. \A x \in S : \E i \in 1..n : list[i] = x
  <2>. SUFFICES ASSUME NEW x \in S
                PROVE  \E i \in 1..n : list[i] = x
    OBVIOUS
  <2>1. rank[x] \in 0..(n - 1)
    BY <1>2
  <2>2. PICK i \in 1..n : i - 1 = rank[x]
    BY <1>1, <2>1
  <2>3. rank[list[i]] = rank[x] /\ list[i] \in S
    BY <1>11, <2>2, Zenon
  <2>. QED  BY <1>4, <2>2, <2>3, Zenon
<1>14. \A i, j \in 1..n : i < j => <<list[i], list[j]>> \in sooner
  <2>. SUFFICES ASSUME NEW i \in 1..n, NEW j \in 1..n, i < j
                PROVE  <<list[i], list[j]>> \in sooner
    OBVIOUS
  <2>1. rank[list[i]] < rank[list[j]] /\ list[i] \in S /\ list[j] \in S
    BY <1>1, <1>11
  <2>2. rank[list[i]] \in Int /\ rank[list[j]] \in Int
    BY <1>1, <1>11
  <2>3. <<list[j], list[i]>> \notin sooner /\ list[i] # list[j]
    BY <1>3, <2>1, <2>2
  <2>. QED  BY <2>1, <2>3, Zenon
<1>15. \A i, j \in 1..n : <<list[i], list[j]>> \in sooner => i < j
  BY <1>1, <1>3, <1>11
<1>16. \A i, j \in 1..n : list[i] = list[j] => i = j
  BY <1>1, <1>11
<1>17. \A i \in 1..n : \A x \in S : <<x, list[i]>> \in sooner <=> \E j \in 1..n : j < i /\ x = list[j]
  BY <1>13, <1>14, <1>15
<1>. QED  BY <1>1, <1>10, <1>12, <1>13, <1>14, <1>15, <1>16, <1>17, Zenon DEF Listing

(* Numbers in ascending order.                                              *)
LEMMA AscendingLists ==
  ASSUME NEW S \in SUBSET Nat, IsFiniteSet(S)
  PROVE  Listing(Ascending(S), Cardinality(S), S, {p \in S \X S : p[1] < p[2]})
<1>. DEFINE sooner == {p \in S \X S : p[1] < p[2]}
<1>1. \A x, y \in S : <<x, y>> \in sooner <=> x < y
  OBVIOUS
<1>2. Ascending(S) = InOrder(S, sooner)
  BY DEF Ascending
<1>. HIDE DEF sooner
<1>3. StrictlyOrders(sooner, S)
  BY <1>1 DEF StrictlyOrders
<1>4. Listing(InOrder(S, sooner), Cardinality(S), S, sooner)
  BY <1>3, InOrderLists, Zenon
<1>. QED  BY <1>2, <1>4, Zenon DEF sooner
=============================================================================
