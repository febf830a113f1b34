------------------------------ MODULE SearchProofs ------------------------------
(* A Global search, for any graph, funds, market and bounds: it shares its routes *)
(* among the assets, and decides nothing that its reads do not bear out.          *)
EXTENDS GlobalSearch, FiniteSetTheorems, SequenceTheorems, WellFoundedInduction, TLAPS

--------------------------------------------------------------------------------
(* Counting.  In a finite set with a strict order that is total, an element's   *)
(* rank is the number of those before it; the ranks are 0 .. Cardinality - 1,   *)
(* and no two elements have the same.                                           *)

LEMMA LeastOne ==
  ASSUME NEW S \in SUBSET Nat, S # {}
  PROVE  \E m \in S : \A k \in S : m <= k
<1> DEFINE R == OpToRel(<, Nat)
<1>1. IsWellFoundedOn(R, Nat)
  BY NatLessThanWellFounded
<1>2. \A x, y \in Nat : x < y => <<x, y>> \in R
  BY Zenon DEF OpToRel
<1> HIDE DEF R
<1>3. PICK x \in S : \A y \in S : ~(<<y, x>> \in R)
  BY <1>1, WFMin
<1>4. ASSUME NEW k \in S PROVE x <= k
  <2>1. ~(k < x)
    BY <1>2, <1>3
  <2> QED
    BY <2>1
<1> QED
  BY <1>4

LEMMA Images ==
  ASSUME NEW S, NEW f, IsFiniteSet(S)
  PROVE  /\ IsFiniteSet({f[x] : x \in S}) /\ Cardinality({f[x] : x \in S}) <= Cardinality(S)
         /\ (\A x, y \in S : f[x] = f[y] => x = y) => Cardinality({f[x] : x \in S}) = Cardinality(S)
<1> DEFINE T == {f[x] : x \in S}
           g == [x \in S |-> f[x]]
<1>1. g \in Surjection(S, T)
  BY DEF Surjection
<1>2. IsFiniteSet(T) /\ Cardinality(T) <= Cardinality(S) /\ (Cardinality(T) = Cardinality(S) <=> g \in Injection(S, T))
  <2> HIDE DEF T, g
  <2> QED
    BY <1>1, FS_Surjection
<1>3. ASSUME \A x, y \in S : f[x] = f[y] => x = y PROVE g \in Injection(S, T)
  BY <1>1, <1>3 DEF Injection, IsInjective, Surjection
<1> QED
  BY <1>2, <1>3

Ordered(R, S) ==
  /\ \A x \in S : <<x, x>> \notin R
  /\ \A x, y, z \in S : <<x, y>> \in R /\ <<y, z>> \in R => <<x, z>> \in R
  /\ \A x, y \in S : x = y \/ <<x, y>> \in R \/ <<y, x>> \in R
Below(R, S, x) == {u \in S : <<u, x>> \in R}
Rank(R, S, x) == Cardinality(Below(R, S, x))

LEMMA RankType ==
  ASSUME NEW R, NEW S, NEW x \in S, IsFiniteSet(S), Ordered(R, S)
  PROVE  /\ Cardinality(S) \in Nat /\ Rank(R, S, x) \in Nat /\ Rank(R, S, x) < Cardinality(S)
         /\ IsFiniteSet(Below(R, S, x))
<1>1. Below(R, S, x) \in SUBSET S /\ Below(R, S, x) # S
  BY DEF Below, Ordered
<1> QED
  BY <1>1, FS_Subset, FS_CardinalityType DEF Rank

LEMMA RankGrows ==
  ASSUME NEW R, NEW S, NEW x \in S, NEW y \in S, IsFiniteSet(S), Ordered(R, S), <<x, y>> \in R
  PROVE  Rank(R, S, x) < Rank(R, S, y)
<1>1. Below(R, S, x) \in SUBSET Below(R, S, y) /\ Below(R, S, x) # Below(R, S, y)
  <2>1. \A u \in Below(R, S, x) : u \in Below(R, S, y)
    BY DEF Below, Ordered
  <2>2. x \in Below(R, S, y) /\ x \notin Below(R, S, x)
    BY DEF Below, Ordered
  <2> QED
    BY <2>1, <2>2
<1>2. IsFiniteSet(Below(R, S, y)) /\ Rank(R, S, y) \in Nat /\ Rank(R, S, x) \in Nat
  BY RankType
<1> QED
  BY <1>1, <1>2, FS_Subset DEF Rank

LEMMA RankOnce ==
  ASSUME NEW R, NEW S, NEW x \in S, NEW y \in S, IsFiniteSet(S), Ordered(R, S)
  PROVE  /\ Rank(R, S, x) = Rank(R, S, y) => x = y
         /\ Rank(R, S, x) < Rank(R, S, y) => <<x, y>> \in R
<1>1. Rank(R, S, x) \in Nat /\ Rank(R, S, y) \in Nat
  BY RankType
<1>2. x = y \/ <<x, y>> \in R \/ <<y, x>> \in R
  BY DEF Ordered
<1>3. <<x, y>> \in R => Rank(R, S, x) < Rank(R, S, y)
  BY RankGrows
<1>4. <<y, x>> \in R => Rank(R, S, y) < Rank(R, S, x)
  BY RankGrows
<1> QED
  BY <1>1, <1>2, <1>3, <1>4

LEMMA RankTaken ==
  ASSUME NEW R, NEW S, NEW k \in Nat, IsFiniteSet(S), Ordered(R, S), k < Cardinality(S)
  PROVE  \E x \in S : Rank(R, S, x) = k
<1> DEFINE n == Cardinality(S)
           f == [x \in S |-> Rank(R, S, x)]
           T == {f[x] : x \in S}
<1>1. n \in Nat
  BY FS_CardinalityType
<1>2. \A x, y \in S : f[x] = f[y] => x = y
  BY RankOnce
<1>3. Cardinality(T) = n
  <2> HIDE DEF f
  <2> QED
    BY <1>2, Images
<1>4. T \in SUBSET (0 .. n - 1)
  BY RankType
<1>5. IsFiniteSet(0 .. n - 1) /\ Cardinality(0 .. n - 1) = n
  <2> HIDE DEF n
  <2>1. IsFiniteSet(0 .. n - 1) /\ Cardinality(0 .. n - 1) = IF 0 > n - 1 THEN 0 ELSE n - 1 - 0 + 1
    BY <1>1, FS_Interval
  <2> QED
    BY <1>1, <2>1
<1>6. T = 0 .. n - 1
  <2> HIDE DEF T, n
  <2> QED
    BY <1>3, <1>4, <1>5, FS_Subset
<1> QED
  BY <1>1, <1>6

(* As many elements have a lower rank than b as b says, or all of them. *)
LEMMA RankedBelow ==
  ASSUME NEW R, NEW S, NEW b \in Nat, IsFiniteSet(S), Ordered(R, S)
  PROVE  Cardinality({x \in S : Rank(R, S, x) < b}) = PickMin(b, Cardinality(S))
<1> DEFINE n == Cardinality(S)
           U == {x \in S : Rank(R, S, x) < b}
           m == PickMin(b, n)
           f == [x \in U |-> Rank(R, S, x)]
           T == {f[x] : x \in U}
<1>1. n \in Nat /\ m \in Nat /\ (m = b \/ m = n) /\ m <= b /\ m <= n
  BY FS_CardinalityType DEF PickMin
<1>2. IsFiniteSet(U)
  BY FS_Subset
<1>3. \A x, y \in U : f[x] = f[y] => x = y
  BY RankOnce
<1>4. Cardinality(T) = Cardinality(U)
  <2> HIDE DEF f, U
  <2> QED
    BY <1>2, <1>3, Images
<1>5. T = 0 .. m - 1
  <2>1. ASSUME NEW x \in U PROVE f[x] \in 0 .. m - 1
    <3>1. f[x] = Rank(R, S, x) /\ Rank(R, S, x) \in Nat /\ Rank(R, S, x) < n /\ Rank(R, S, x) < b
      BY RankType
    <3> HIDE DEF f, n, m
    <3> QED
      BY <1>1, <3>1
  <2>2. ASSUME NEW k \in 0 .. m - 1 PROVE k \in T
    <3>1. k \in Nat /\ k < n /\ k < b
      <4> HIDE DEF n, m
      <4> QED
        BY <1>1
    <3>2. PICK x \in S : Rank(R, S, x) = k
      BY <3>1, RankTaken
    <3> QED
      BY <3>1, <3>2
  <2> QED
    BY <2>1, <2>2
<1>6. Cardinality(0 .. m - 1) = m
  BY SMTT(30), <1>1, FS_Interval
<1> QED
  BY <1>4, <1>5, <1>6

--------------------------------------------------------------------------------
(* Lists *)

List(s) == \E X : s \in Seq(X)

LEMMA Lists ==
  ASSUME NEW s, List(s)
  PROVE  /\ Len(s) \in Nat /\ DOMAIN s = 1 .. Len(s)
         /\ s \in Seq({s[i] : i \in DOMAIN s})
         /\ IsFiniteSet({s[i] : i \in DOMAIN s}) /\ Cardinality({s[i] : i \in DOMAIN s}) <= Len(s)
<1>1. PICK X : s \in Seq(X)
  BY DEF List
<1>2. Len(s) \in Nat /\ DOMAIN s = 1 .. Len(s) /\ s \in Seq({s[i] : i \in DOMAIN s})
  BY <1>1
<1>3. IsFiniteSet(DOMAIN s) /\ Cardinality(DOMAIN s) = Len(s)
  <2> DEFINE n == Len(s)
  <2>1. IsFiniteSet(1 .. n) /\ Cardinality(1 .. n) = IF 1 > n THEN 0 ELSE n - 1 + 1
    BY <1>2, FS_Interval
  <2> QED
    BY <1>2, <2>1
<1> QED
  BY <1>2, <1>3, Images

LEMMA SeqPlaces == ASSUME NEW X, NEW s \in Seq(X) PROVE DOMAIN s \subseteq Nat /\ IsFiniteSet(DOMAIN s)
<1> DEFINE l == Len(s)
<1>1. l \in Nat /\ DOMAIN s = 1 .. l
  OBVIOUS
<1> HIDE DEF l
<1>2. IsFiniteSet(1 .. l)
  BY <1>1, FS_Interval
<1> QED
  BY <1>1, <1>2

LEMMA Taken ==
  ASSUME NEW X, NEW s \in Seq(X), NEW n \in Nat
  PROVE  /\ take(s, n) \in Seq(X) /\ Len(take(s, n)) = PickMin(n, Len(s))
         /\ Len(take(s, n)) <= n /\ Len(take(s, n)) <= Len(s)
         /\ \A i \in DOMAIN take(s, n) : i \in DOMAIN s /\ take(s, n)[i] = s[i]
<1> DEFINE m == PickMin(n, Len(s))
<1>1. m \in Nat /\ m <= n /\ m <= Len(s)
  BY DEF PickMin
<1> HIDE DEF m
<1>2. [i \in 1 .. m |-> s[i]] \in Seq(X) /\ Len([i \in 1 .. m |-> s[i]]) = m
  BY <1>1
<1> QED
  BY <1>1, <1>2 DEF take, m

LEMMA Rotated ==
  ASSUME NEW X, NEW s \in Seq(X), NEW k \in Nat
  PROVE  /\ rotate(s, k) \in Seq(X) /\ Len(rotate(s, k)) = Len(s)
         /\ (\A i, j \in DOMAIN s : s[i] = s[j] => i = j) =>
              \A i, j \in DOMAIN rotate(s, k) : rotate(s, k)[i] = rotate(s, k)[j] => i = j
<1> DEFINE n == Len(s)
           at(i) == ((i - 1 + k) % n) + 1
<1>1. \A i \in 1 .. n : at(i) \in 1 .. n
  OBVIOUS
<1>2. ASSUME NEW i \in 1 .. n, NEW j \in 1 .. n, at(i) = at(j) PROVE i = j
  <2> DEFINE a == i - 1 + k
             b == j - 1 + k
             p == a \div n
             q == b \div n
  <2>1. n \in Nat \ {0} /\ a \in Nat /\ b \in Nat /\ a - b = i - j /\ i - j < n /\ j - i < n
    OBVIOUS
  <2>2. a = n * p + (a % n) /\ b = n * q + (b % n) /\ p \in Int /\ q \in Int
    <3> HIDE DEF a, b, n
    <3> QED
      BY <2>1
  <2>3. a % n = b % n
    BY <1>2, <2>1
  <2>4. n * p - n * q = a - b
    <3> HIDE DEF a, b, n, p, q
    <3>1. n * p \in Int /\ n * q \in Int /\ a % n \in Int
      BY <2>1, <2>2
    <3> QED
      BY <2>1, <2>2, <2>3, <3>1
  <2>5. p = q
    <3> HIDE DEF a, b, n, p, q
    <3>1. n * p - n * q < n /\ n * q - n * p < n
      <4>1. n * p \in Int /\ n * q \in Int
        BY <2>1, <2>2
      <4> QED
        BY <2>1, <2>4, <4>1
    <3>2. CASE p > q
      <4>1. n * p >= n * (q + 1) /\ n * (q + 1) = n * q + n
        BY <2>1, <2>2, <3>2
      <4>2. n * p \in Int /\ n * q \in Int
        BY <2>1, <2>2
      <4> QED
        BY <2>1, <3>1, <4>1, <4>2
    <3>3. CASE q > p
      <4>1. n * q >= n * (p + 1) /\ n * (p + 1) = n * p + n
        BY <2>1, <2>2, <3>3
      <4>2. n * p \in Int /\ n * q \in Int
        BY <2>1, <2>2
      <4> QED
        BY <2>1, <3>1, <4>1, <4>2
    <3> QED
      BY <2>2, <3>2, <3>3
  <2> QED
    <3>1. n * p - n * q = 0
      <4> HIDE DEF p, q, n
      <4> QED
        BY <2>1, <2>2, <2>5
    <3> HIDE DEF a, b, p, q, n
    <3> QED
      BY <2>1, <2>4, <3>1
<1>3. rotate(s, k) = [i \in 1 .. n |-> s[at(i)]]
  BY DEF rotate
<1>4. DOMAIN s = 1 .. n /\ n \in Nat
  OBVIOUS
<1>5. \A i \in 1 .. n : s[at(i)] \in X
  BY <1>1
<1> HIDE DEF at, n
<1>6. [i \in 1 .. n |-> s[at(i)]] \in Seq(X) /\ Len([i \in 1 .. n |-> s[at(i)]]) = n
  BY <1>4, <1>5
<1> QED
  BY <1>1, <1>2, <1>3, <1>4, <1>6 DEF n

(* A selection holds what it selects, each element where it was: in order. *)
LEMMA Selected ==
  ASSUME NEW X, NEW s \in Seq(X), NEW S
  PROVE  LET t == among(s, S)
             held == {k \in DOMAIN s : s[k] \in S} IN
         /\ t \in Seq(X \intersect S) /\ Len(t) = Cardinality(held)
         /\ \A i \in DOMAIN t : \E k \in held : t[i] = s[k]
         /\ \A k \in held : \E i \in DOMAIN t : t[i] = s[k]
         /\ (\A i, j \in DOMAIN s : s[i] = s[j] => i = j) => \A i, j \in DOMAIN t : t[i] = t[j] => i = j
<1> DEFINE held == {k \in DOMAIN s : s[k] \in S}
           R == {c \in held \X held : c[1] < c[2]}
           n == Cardinality(held)
           at(i) == CHOOSE k \in DOMAIN s : s[k] \in S /\ Cardinality({j \in 1 .. k : s[j] \in S}) = i
<1>1. IsFiniteSet(held) /\ n \in Nat /\ held \in SUBSET Nat
  <2>1. IsFiniteSet(DOMAIN s) /\ held \in SUBSET (DOMAIN s)
    BY FS_Interval
  <2>2. IsFiniteSet(held)
    <3> HIDE DEF held
    <3> QED
      BY <2>1, FS_Subset
  <2> QED
    BY <2>2, FS_CardinalityType
<1>2. Ordered(R, held)
  <2>1. \A x, y \in held : <<x, y>> \in R <=> x < y
    OBVIOUS
  <2> HIDE DEF R, held
  <2> QED
    BY <1>1, <2>1 DEF Ordered
<1>3. ASSUME NEW k \in held PROVE Cardinality({j \in 1 .. k : s[j] \in S}) = Rank(R, held, k) + 1
  <2>1. {j \in 1 .. k : s[j] \in S} = Below(R, held, k) \cup {k} /\ k \notin Below(R, held, k)
    BY DEF Below
  <2>2. IsFiniteSet(Below(R, held, k))
    <3> HIDE DEF R, held
    <3> QED
      BY <1>1, <1>2, RankType
  <2> HIDE DEF R, held
  <2> QED
    BY <2>1, <2>2, FS_AddElement DEF Rank
<1>4. \A i \in 1 .. n : at(i) \in held /\ Rank(R, held, at(i)) = i - 1
  <2> SUFFICES ASSUME NEW i \in 1 .. n PROVE at(i) \in held /\ Rank(R, held, at(i)) = i - 1
    OBVIOUS
  <2>1. \E k \in held : Rank(R, held, k) = i - 1
    <3> HIDE DEF R, held
    <3>1. i - 1 \in Nat /\ i - 1 < Cardinality(held)
      BY <1>1
    <3> QED
      BY <1>1, <1>2, <3>1, RankTaken
  <2>2. \E k \in DOMAIN s : s[k] \in S /\ Cardinality({j \in 1 .. k : s[j] \in S}) = i
    <3>1. PICK k \in held : Rank(R, held, k) = i - 1
      BY <2>1
    <3>2. Cardinality({j \in 1 .. k : s[j] \in S}) = i
      BY <1>3, <3>1
    <3> QED
      BY <3>2
  <2>3. at(i) \in DOMAIN s /\ s[at(i)] \in S /\ Cardinality({j \in 1 .. at(i) : s[j] \in S}) = i
    BY <2>2
  <2>4. at(i) \in held
    BY <2>3
  <2>5. Cardinality({j \in 1 .. at(i) : s[j] \in S}) = Rank(R, held, at(i)) + 1
    <3> HIDE DEF R, held, at
    <3> QED
      BY <1>3, <2>4
  <2>6. Rank(R, held, at(i)) \in Nat
    <3> HIDE DEF R, held, at
    <3> QED
      BY <1>1, <1>2, <2>4, RankType
  <2> QED
    BY <2>3, <2>4, <2>5, <2>6
<1>5. \A k \in held : \E i \in 1 .. n : at(i) = k
  <2> SUFFICES ASSUME NEW k \in held PROVE \E i \in 1 .. n : at(i) = k
    OBVIOUS
  <2> HIDE DEF R, held, at
  <2>1. Rank(R, held, k) \in Nat /\ Rank(R, held, k) < n
    BY <1>1, <1>2, RankType
  <2>2. Rank(R, held, k) + 1 \in 1 .. n
    BY <1>1, <2>1
  <2>3. Rank(R, held, at(Rank(R, held, k) + 1)) = Rank(R, held, k) /\ at(Rank(R, held, k) + 1) \in held
    BY <1>4, <2>1, <2>2
  <2> QED
    BY <1>1, <1>2, <2>2, <2>3, RankOnce
<1>6. among(s, S) = [i \in 1 .. n |-> s[at(i)]]
  BY DEF among
<1>7. \A i, j \in 1 .. n : at(i) = at(j) => i = j
  <2> HIDE DEF R, held, at, n
  <2> QED
    BY <1>4
<1>8. \A k \in held : k \in DOMAIN s /\ s[k] \in X \intersect S
  OBVIOUS
<1> HIDE DEF R, held, at, n
<1> DEFINE t == among(s, S)
<1>9. \A i \in 1 .. n : s[at(i)] \in X \intersect S
  BY <1>4, <1>8
<1>10. t \in Seq(X \intersect S) /\ Len(t) = n
  BY <1>1, <1>6, <1>9
<1>11. DOMAIN t = 1 .. n /\ \A i \in 1 .. n : t[i] = s[at(i)]
  BY <1>6
<1> HIDE DEF t
<1>12. \A i \in DOMAIN t : at(i) \in held /\ t[i] = s[at(i)]
  BY <1>4, <1>11
<1>13. \A k \in held : \E i \in DOMAIN t : t[i] = s[k]
  BY <1>5, <1>11
<1>14. ASSUME \A i, j \in DOMAIN s : s[i] = s[j] => i = j, NEW i \in DOMAIN t, NEW j \in DOMAIN t, t[i] = t[j] PROVE i = j
  <2>1. at(i) \in DOMAIN s /\ at(j) \in DOMAIN s /\ s[at(i)] = s[at(j)]
    BY <1>8, <1>12, <1>14
  <2> QED
    BY <1>7, <1>11, <1>14, <2>1
<1> QED
  BY <1>10, <1>12, <1>13, <1>14 DEF t, n, held

--------------------------------------------------------------------------------
(* Sharing a budget among lanes: the places of the lanes, <<lane, rank>>, are   *)
(* taken in the order of the rounds, until the budget is spent.                 *)

Places(lanes) == {c \in (DOMAIN lanes) \X (Nat \ {0}) : c[2] <= Len(lanes[c[1]])}
Rounds(lanes) ==
  {p \in Places(lanes) \X Places(lanes) : p[1][2] < p[2][2] \/ (p[1][2] = p[2][2] /\ p[1][1] < p[2][1])}
Turn(lanes, l, k) == Rank(Rounds(lanes), Places(lanes), <<l, k>>)

IsLanes(lanes) == DOMAIN lanes \subseteq Nat /\ IsFiniteSet(DOMAIN lanes) /\ \A l \in DOMAIN lanes : List(lanes[l])

LEMMA Leading ==
  ASSUME NEW n \in Nat, NEW D \in SUBSET (1 .. n), \A k \in D : \A i \in 1 .. k : i \in D
  PROVE  Cardinality(D) \in Nat /\ D = 1 .. Cardinality(D)
<1> DEFINE G == {k \in Nat \ {0} : k \notin D}
<1>1. G \in SUBSET Nat /\ n + 1 \in G
  OBVIOUS
<1>2. PICK m \in G : \A k \in G : m <= k
  <2> HIDE DEF G
  <2> QED
    BY <1>1, LeastOne
<1>3. m \in Nat \ {0} /\ m \notin D
  OBVIOUS
<1>4. D = 1 .. m - 1
  <2>1. ASSUME NEW k \in D PROVE k \in 1 .. m - 1
    <3>1. ~(m \in 1 .. k)
      BY <1>3
    <3> QED
      BY <1>3, <3>1
  <2>2. ASSUME NEW k \in 1 .. m - 1 PROVE k \in D
    <3>1. k \notin G
      BY <1>2, <1>3
    <3> QED
      BY <1>3, <3>1
  <2> QED
    BY <2>1, <2>2
<1>5. Cardinality(1 .. m - 1) = m - 1
  <2>1. Cardinality(1 .. m - 1) = IF 1 > m - 1 THEN 0 ELSE m - 1 - 1 + 1
    BY <1>3, FS_Interval
  <2> QED
    BY <1>3, <2>1
<1> QED
  BY <1>3, <1>4, <1>5

LEMMA PlacesOrdered ==
  ASSUME NEW lanes, IsLanes(lanes)
  PROVE  IsFiniteSet(Places(lanes)) /\ Ordered(Rounds(lanes), Places(lanes))
<1> DEFINE F == [l \in DOMAIN lanes |-> {l} \X (1 .. Len(lanes[l]))]
<1>1. \A l \in DOMAIN lanes : Len(lanes[l]) \in Nat
  BY Lists DEF IsLanes
<1>2. \A l \in DOMAIN lanes : IsFiniteSet(F[l])
  <2> SUFFICES ASSUME NEW l \in DOMAIN lanes PROVE IsFiniteSet({l} \X (1 .. Len(lanes[l])))
    OBVIOUS
  <2>1. IsFiniteSet({l})
    BY FS_Singleton
  <2>2. IsFiniteSet(1 .. Len(lanes[l]))
    BY <1>1, FS_Interval
  <2> QED
    BY <2>1, <2>2, FS_Product
<1>3. Places(lanes) = UNION {F[l] : l \in DOMAIN lanes}
  <2>1. ASSUME NEW c \in Places(lanes) PROVE \E l \in DOMAIN lanes : c \in F[l]
    <3>1. c[1] \in DOMAIN lanes /\ c \in {c[1]} \X (1 .. Len(lanes[c[1]]))
      BY <1>1 DEF Places
    <3> QED
      BY <3>1
  <2>2. ASSUME NEW l \in DOMAIN lanes, NEW c \in F[l] PROVE c \in Places(lanes)
    BY <1>1 DEF Places
  <2> QED
    BY <2>1, <2>2
<1>4. IsFiniteSet({F[l] : l \in DOMAIN lanes})
  <2> HIDE DEF F
  <2> QED
    BY Images DEF IsLanes
<1>5. IsFiniteSet(Places(lanes))
  <2>1. \A T \in {F[l] : l \in DOMAIN lanes} : IsFiniteSet(T)
    BY <1>2
  <2> HIDE DEF F
  <2> QED
    BY <1>3, <1>4, <2>1, FS_UNION
<1>6. \A c \in Places(lanes) : c = <<c[1], c[2]>> /\ c[1] \in Nat /\ c[2] \in Nat
  BY DEF Places, IsLanes
<1>7. \A c, d \in Places(lanes) : <<c, d>> \in Rounds(lanes) <=> c[2] < d[2] \/ (c[2] = d[2] /\ c[1] < d[1])
  BY DEF Rounds
<1>8. Ordered(Rounds(lanes), Places(lanes))
  <2>1. \A x \in Places(lanes) : <<x, x>> \notin Rounds(lanes)
    BY <1>6, <1>7
  <2>2. \A x, y, z \in Places(lanes) : <<x, y>> \in Rounds(lanes) /\ <<y, z>> \in Rounds(lanes) => <<x, z>> \in Rounds(lanes)
    BY <1>6, <1>7
  <2>3. ASSUME NEW x \in Places(lanes), NEW y \in Places(lanes) PROVE x = y \/ <<x, y>> \in Rounds(lanes) \/ <<y, x>> \in Rounds(lanes)
    <3>1. x[1] = y[1] /\ x[2] = y[2] => x = y
      BY <1>6
    <3> QED
      BY <1>6, <1>7, <3>1
  <2> QED
    BY <2>1, <2>2, <2>3 DEF Ordered
<1> QED
  BY <1>5, <1>8

LEMMA TurnIs ==
  ASSUME NEW lanes, NEW l \in DOMAIN lanes, NEW k \in DOMAIN lanes[l], IsLanes(lanes)
  PROVE  <<l, k>> \in Places(lanes) /\ before(lanes, l, k) = Turn(lanes, l, k) /\ Turn(lanes, l, k) \in Nat
<1>1. k \in Nat \ {0} /\ k <= Len(lanes[l]) /\ l \in Nat /\ \A i \in DOMAIN lanes : i \in Nat /\ Len(lanes[i]) \in Nat
  BY Lists DEF IsLanes
<1>2. <<l, k>> \in Places(lanes)
  BY <1>1 DEF Places
<1> DEFINE B == {c \in (DOMAIN lanes) \X (1 .. k) : c[2] <= Len(lanes[c[1]]) /\ (c[2] < k \/ (c[2] = k /\ c[1] < l))}
<1>3. B = Below(Rounds(lanes), Places(lanes), <<l, k>>)
  <2>1. ASSUME NEW c \in B PROVE c \in Places(lanes) /\ <<c, <<l, k>>>> \in Rounds(lanes)
    <3>1. c \in Places(lanes)
      BY <1>1 DEF Places
    <3> QED
      BY <1>2, <3>1 DEF Rounds
  <2>2. ASSUME NEW c \in Places(lanes), <<c, <<l, k>>>> \in Rounds(lanes) PROVE c \in B
    <3>1. c[1] \in DOMAIN lanes /\ c[2] \in Nat \ {0} /\ c[2] <= Len(lanes[c[1]]) /\ c = <<c[1], c[2]>>
      BY DEF Places
    <3>2. c[2] < k \/ (c[2] = k /\ c[1] < l)
      BY <2>2 DEF Rounds
    <3>3. c[2] \in 1 .. k
      BY <1>1, <3>1, <3>2
    <3> QED
      BY <3>1, <3>2, <3>3
  <2> QED
    BY <2>1, <2>2 DEF Below
<1>4. before(lanes, l, k) = Cardinality(B)
  BY DEF before
<1> HIDE DEF B
<1>5. Turn(lanes, l, k) \in Nat
  BY <1>2, PlacesOrdered, RankType DEF Turn
<1> QED
  BY <1>2, <1>3, <1>4, <1>5 DEF Turn, Rank

(* Each lane is given its first places, those whose turn comes in time. *)
LEMMA LaneShare ==
  ASSUME NEW lanes, NEW budget \in Nat, NEW l \in DOMAIN lanes, IsLanes(lanes)
  PROVE  LET given == shareBudget(lanes, budget)[l] IN
         /\ given \in Seq({lanes[l][k] : k \in DOMAIN lanes[l]}) /\ Len(given) <= Len(lanes[l])
         /\ \A k \in DOMAIN lanes[l] : k <= Len(given) <=> Turn(lanes, l, k) < budget
         /\ \A k \in DOMAIN given : k \in DOMAIN lanes[l] /\ given[k] = lanes[l][k]
<1> DEFINE lane == lanes[l]
           n == Len(lane)
           D == {k \in DOMAIN lane : before(lanes, l, k) < budget}
           m == Cardinality(D)
<1>1. n \in Nat /\ DOMAIN lane = 1 .. n /\ lane \in Seq({lane[k] : k \in DOMAIN lane})
  BY Lists DEF IsLanes
<1>2. shareBudget(lanes, budget)[l] = take(lane, m)
  BY DEF shareBudget
<1>3. D \in SUBSET (1 .. n) /\ \A k \in D : \A i \in 1 .. k : i \in D
  <2>1. ASSUME NEW k \in D, NEW i \in 1 .. k PROVE i \in D
    <3>1. k \in 1 .. n /\ i \in 1 .. n /\ i \in DOMAIN lane /\ k \in DOMAIN lane
      BY <1>1
    <3> HIDE DEF lane
    <3>2. <<l, i>> \in Places(lanes) /\ <<l, k>> \in Places(lanes) /\ before(lanes, l, i) = Turn(lanes, l, i)
          /\ before(lanes, l, k) = Turn(lanes, l, k) /\ Turn(lanes, l, i) \in Nat /\ Turn(lanes, l, k) \in Nat
      BY <3>1, TurnIs DEF lane
    <3>3. CASE i < k
      <4>1. <<<<l, i>>, <<l, k>>>> \in Rounds(lanes)
        BY <3>2, <3>3 DEF Rounds
      <4>2. Turn(lanes, l, i) < Turn(lanes, l, k)
        BY <3>2, <4>1, PlacesOrdered, RankGrows DEF Turn
      <4> QED
        BY <3>1, <3>2, <4>2
    <3> QED
      BY <3>1, <3>3
  <2> QED
    BY <1>1, <2>1
<1>4. m \in Nat /\ D = 1 .. m
  <2> HIDE DEF D, n
  <2> QED
    BY <1>1, <1>3, Leading
<1>5. m <= n
  <2> HIDE DEF D, n, m
  <2>1. m = 0 \/ m \in D
    BY <1>4
  <2> QED
    BY <1>1, <1>3, <1>4, <2>1
<1>6. \A k \in DOMAIN lane : k \in D <=> Turn(lanes, l, k) < budget
  <2> SUFFICES ASSUME NEW k \in DOMAIN lane PROVE before(lanes, l, k) = Turn(lanes, l, k)
    OBVIOUS
  <2> QED
    BY TurnIs
<1> HIDE DEF D, m, lane
<1>7. take(lane, m) \in Seq({lane[k] : k \in DOMAIN lane}) /\ Len(take(lane, m)) = m
      /\ \A k \in DOMAIN take(lane, m) : k \in DOMAIN lane /\ take(lane, m)[k] = lane[k]
  <2>1. PickMin(m, n) = m
    <3> HIDE DEF n
    <3> QED
      BY <1>1, <1>4, <1>5 DEF PickMin
  <2> QED
    BY <1>1, <1>4, <2>1, Taken
<1>8. \A k \in DOMAIN lane : k <= m <=> Turn(lanes, l, k) < budget
  BY <1>1, <1>4, <1>6
<1> QED
  BY <1>2, <1>5, <1>7, <1>8 DEF lane

(* The budget is spent while there is work, and a lane that had to leave        *)
(* something out is at most one behind any other.                               *)
LEMMA SharedOut ==
  ASSUME NEW lanes, NEW budget \in Nat, IsLanes(lanes)
  PROVE  LET given == shareBudget(lanes, budget) IN
         /\ DOMAIN given = DOMAIN lanes
         /\ Cardinality({c \in Places(lanes) : c[2] <= Len(given[c[1]])}) = PickMin(budget, Cardinality(Places(lanes)))
         /\ \A i, j \in DOMAIN lanes : Len(given[i]) < Len(lanes[i]) => Len(given[j]) <= Len(given[i]) + 1
<1> DEFINE given == shareBudget(lanes, budget)
<1>1. DOMAIN given = DOMAIN lanes
  BY DEF shareBudget
<1>2. \A l \in DOMAIN lanes : Len(lanes[l]) \in Nat /\ DOMAIN lanes[l] = 1 .. Len(lanes[l])
  BY Lists DEF IsLanes
<1>3. \A c \in Places(lanes) : c[2] <= Len(given[c[1]]) <=> Rank(Rounds(lanes), Places(lanes), c) < budget
  <2> SUFFICES ASSUME NEW c \in Places(lanes) PROVE c[2] <= Len(given[c[1]]) <=> Rank(Rounds(lanes), Places(lanes), c) < budget
    OBVIOUS
  <2>1. c[1] \in DOMAIN lanes /\ c[2] \in DOMAIN lanes[c[1]] /\ c = <<c[1], c[2]>>
    BY <1>2 DEF Places
  <2> HIDE DEF given
  <2> QED
    BY ZenonT(40), <2>1, LaneShare DEF Turn, given
<1>4. Cardinality({c \in Places(lanes) : c[2] <= Len(given[c[1]])}) = PickMin(budget, Cardinality(Places(lanes)))
  <2>1. {c \in Places(lanes) : c[2] <= Len(given[c[1]])} = {c \in Places(lanes) : Rank(Rounds(lanes), Places(lanes), c) < budget}
    BY <1>3
  <2> HIDE DEF given
  <2> QED
    BY <2>1, PlacesOrdered, RankedBelow
<1>5. ASSUME NEW i \in DOMAIN lanes, NEW j \in DOMAIN lanes, Len(given[i]) < Len(lanes[i]) PROVE Len(given[j]) <= Len(given[i]) + 1
  <2> DEFINE k == Len(given[i]) + 1
  <2>1. Len(given[i]) \in Nat /\ Len(given[j]) \in Nat /\ Len(given[j]) <= Len(lanes[j])
    <3>1. given[i] \in Seq({lanes[i][q] : q \in DOMAIN lanes[i]})
      BY LaneShare
    <3>2. given[j] \in Seq({lanes[j][q] : q \in DOMAIN lanes[j]}) /\ Len(given[j]) <= Len(lanes[j])
      BY LaneShare
    <3> QED
      BY <3>1, <3>2
  <2> HIDE DEF given
  <2>2. SUFFICES ASSUME Len(given[j]) > k PROVE FALSE
    BY <2>1
  <2>3. k \in DOMAIN lanes[i] /\ k + 1 \in DOMAIN lanes[j]
    BY <1>2, <1>5, <2>1, <2>2
  <2>4. ~(Turn(lanes, i, k) < budget)
    <3>1. ~(k <= Len(given[i]))
      BY <2>1
    <3> HIDE DEF k
    <3> QED
      BY <2>3, <3>1, LaneShare DEF given
  <2>5. Turn(lanes, j, k + 1) < budget
    <3>1. k + 1 <= Len(given[j])
      BY <2>1, <2>2
    <3> HIDE DEF k
    <3> QED
      BY <2>3, <3>1, LaneShare DEF given
  <2>6. <<i, k>> \in Places(lanes) /\ <<j, k + 1>> \in Places(lanes) /\ Turn(lanes, i, k) \in Nat /\ Turn(lanes, j, k + 1) \in Nat
    <3> HIDE DEF k
    <3> QED
      BY <2>3, TurnIs
  <2>7. <<<<i, k>>, <<j, k + 1>>>> \in Rounds(lanes)
    BY <2>1, <2>6 DEF Rounds
  <2>8. Turn(lanes, i, k) < Turn(lanes, j, k + 1)
    <3> HIDE DEF k
    <3> QED
      BY <2>6, <2>7, PlacesOrdered, RankGrows DEF Turn
  <2> QED
    <3> HIDE DEF k
    <3> QED
      BY <2>4, <2>5, <2>6, <2>8
<1> QED
  BY <1>1, <1>4, <1>5

--------------------------------------------------------------------------------
(* The amounts that are quoted *)

LEMMA SortedInts ==
  ASSUME NEW S \in SUBSET Int, IsFiniteSet(S)
  PROVE  LET t == sorted(S, LAMBDA u, v : u < v) IN t \in Seq(S) /\ Len(t) = Cardinality(S) /\ Cardinality(S) \in Nat
<1> DEFINE R == {p \in S \X S : p[1] < p[2]}
           n == Cardinality(S)
           at(i) == CHOOSE v \in S : Cardinality({u \in S : u < v}) = i - 1
<1>1. n \in Nat
  BY FS_CardinalityType
<1>2. Ordered(R, S)
  <2>1. \A x, y \in S : <<x, y>> \in R <=> x < y
    OBVIOUS
  <2> HIDE DEF R
  <2> QED
    BY <2>1 DEF Ordered
<1>3. \A i \in 1 .. n : at(i) \in S
  <2> SUFFICES ASSUME NEW i \in 1 .. n PROVE \E v \in S : Cardinality({u \in S : u < v}) = i - 1
    OBVIOUS
  <2>1. i - 1 \in Nat /\ i - 1 < Cardinality(S)
    BY <1>1
  <2>2. PICK v \in S : Rank(R, S, v) = i - 1
    <3> HIDE DEF R
    <3> QED
      BY <1>2, <2>1, RankTaken
  <2>3. Below(R, S, v) = {u \in S : u < v}
    BY DEF Below
  <2> QED
    BY <2>2, <2>3 DEF Rank
<1>4. sorted(S, LAMBDA u, v : u < v) = [i \in 1 .. n |-> at(i)]
  BY DEF sorted
<1> HIDE DEF at
<1>5. [i \in 1 .. n |-> at(i)] \in Seq(S) /\ Len([i \in 1 .. n |-> at(i)]) = n
  BY <1>1, <1>3
<1> QED
  BY <1>1, <1>4, <1>5

Amounts(S) == S \in SUBSET Int /\ IsFiniteSet(S)

LEMMA ProbesAre ==
  ASSUME SearchAssumption, NEW available \in Nat
  PROVE  Amounts(dynamicProbeAmounts(available))
<1> DEFINE I == {i \in DOMAIN Familiar : Familiar[i] <= available}
           values == {Familiar[i] : i \in I}
           n == Cardinality(values)
           last == Familiar[n]
           K == 1 .. PickMin(15 - n, MaxDigits)
           G == {last * (10 ^ k) : k \in K}
           grown == {v \in G : v < available}
<1>1. Familiar \in Seq(Nat \ {0}) /\ MaxDigits \in Nat
  BY DEF SearchAssumption
<1>2. IsFiniteSet(I) /\ Cardinality(I) <= Len(Familiar) /\ Cardinality(I) \in Nat
  <2>1. IsFiniteSet(1 .. Len(Familiar)) /\ Cardinality(1 .. Len(Familiar)) = Len(Familiar)
    <3> DEFINE l == Len(Familiar)
    <3>1. l \in Nat
      BY <1>1
    <3> HIDE DEF l
    <3>2. IsFiniteSet(1 .. l) /\ Cardinality(1 .. l) = IF 1 > l THEN 0 ELSE l - 1 + 1
      BY <3>1, FS_Interval
    <3>3. IsFiniteSet(1 .. l) /\ Cardinality(1 .. l) = l
      BY <3>1, <3>2
    <3> QED
      BY <3>3 DEF l
  <2>2. I \in SUBSET (1 .. Len(Familiar))
    BY <1>1
  <2> HIDE DEF I
  <2> QED
    BY <2>1, <2>2, FS_Subset, FS_CardinalityType
<1>3. IsFiniteSet(values) /\ n <= Len(Familiar) /\ n \in Nat /\ values \in SUBSET Nat
  <2>1. \A i \in I : Familiar[i] \in Nat
    BY <1>1
  <2>2. values \in SUBSET Nat
    BY <2>1
  <2> HIDE DEF I
  <2>3. IsFiniteSet(values) /\ n <= Cardinality(I)
    BY <1>2, Images
  <2>4. n \in Nat
    BY <2>3, FS_CardinalityType
  <2> QED
    BY <1>1, <1>2, <2>2, <2>3, <2>4
<1>4. CASE values = {}
  BY <1>4, FS_EmptySet DEF dynamicProbeAmounts, Amounts
<1>5. CASE values # {}
  <2>1. n # 0
    <3> HIDE DEF values
    <3> QED
      BY <1>3, <1>5, FS_EmptySet
  <2>2. last \in Nat
    <3> HIDE DEF n
    <3> QED
      BY <1>1, <1>3, <2>1
  <2>3. IsFiniteSet(K) /\ K \in SUBSET Nat
    <3>1. PickMin(15 - n, MaxDigits) \in Int
      <4> HIDE DEF n
      <4> QED
        BY <1>1, <1>3 DEF PickMin
    <3> QED
      BY <3>1, FS_Interval
  <2>4. G \in SUBSET Int /\ IsFiniteSet(G)
    <3> DEFINE f == [k \in K |-> last * (10 ^ k)]
    <3> HIDE DEF K, last
    <3>1. \A k \in K : 10 ^ k \in Int
      BY <2>3
    <3>2. \A k \in K : last * (10 ^ k) \in Int
      BY <2>2, <3>1
    <3>3. G = {f[k] : k \in K}
      OBVIOUS
    <3>4. IsFiniteSet({f[k] : k \in K})
      <4> HIDE DEF f
      <4> QED
        BY <2>3, Images
    <3> QED
      BY <3>2, <3>3, <3>4
  <2>5. dynamicProbeAmounts(available) = values \cup grown \cup {available}
    BY <1>5 DEF dynamicProbeAmounts
  <2> HIDE DEF values, G
  <2>6. grown \in SUBSET Int /\ IsFiniteSet(grown)
    BY <2>4, FS_Subset
  <2> HIDE DEF grown
  <2>7. IsFiniteSet((values \cup grown) \cup {available})
    BY <1>3, <2>6, FS_Union, FS_AddElement
  <2> QED
    BY <1>3, <2>5, <2>6, <2>7 DEF Amounts
<1> QED
  BY <1>4, <1>5

LEMMA CoarseAre ==
  ASSUME SearchAssumption, NEW available \in Nat
  PROVE  Amounts(coarseProbeAmounts(available))
<1> DEFINE D == dynamicProbeAmounts(available)
           values == sorted(D, LAMBDA u, v : u < v)
           n == Len(values)
           I == IF n <= 8 THEN 1 .. n ELSE {1, 2, 4, 6, 8, n - 2, n - 1, n}
<1>1. Amounts(D)
  BY ProbesAre
<1>2. values \in Seq(D)
  <2> HIDE DEF D
  <2> QED
    BY <1>1, SortedInts DEF Amounts
<1>3. D \in SUBSET Int
  BY <1>1 DEF Amounts
<1>4. coarseProbeAmounts(available) = {values[i] : i \in I}
  BY DEF coarseProbeAmounts
<1> HIDE DEF D, values
<1>5. n \in Nat /\ I \in SUBSET (1 .. n)
  BY <1>2
<1>6. IsFiniteSet(I)
  <2>1. IsFiniteSet(1 .. n)
    BY <1>5, FS_Interval
  <2> HIDE DEF I
  <2> QED
    BY <1>5, <2>1, FS_Subset
<1>7. \A i \in I : values[i] \in Int
  <2>1. \A i \in 1 .. n : values[i] \in D
    BY <1>2
  <2> HIDE DEF I, n
  <2> QED
    BY <1>3, <1>5, <2>1
<1> HIDE DEF I
<1>8. IsFiniteSet({values[i] : i \in I})
  BY <1>6, Images
<1> QED
  BY <1>4, <1>7, <1>8 DEF Amounts

LEMMA FourFinite == ASSUME NEW a, NEW b, NEW c, NEW d PROVE IsFiniteSet({a, b, c, d})
<1>1. IsFiniteSet({a})
  BY FS_Singleton
<1>2. IsFiniteSet({a} \cup {b})
  BY <1>1, FS_AddElement
<1>3. IsFiniteSet(({a} \cup {b}) \cup {c})
  BY <1>2, FS_AddElement
<1>4. IsFiniteSet((({a} \cup {b}) \cup {c}) \cup {d})
  BY <1>3, FS_AddElement
<1>5. {a, b, c, d} = (({a} \cup {b}) \cup {c}) \cup {d}
  OBVIOUS
<1> QED
  BY <1>4, <1>5

LEMMA BetweenAre ==
  ASSUME NEW coarse, Amounts(coarse), NEW best \in Int, NEW available \in Nat
  PROVE  Amounts(refinementProbeAmounts(coarse, best, available))
<1> DEFINE lower == {v \in coarse : v < best}
           higher == {v \in coarse : v > best}
           L == {v \in lower : \A u \in lower : u <= v}
           H == {v \in higher : \A u \in higher : u >= v}
           below == {(v + best) \div 2 : v \in L}
           above == IF higher = {} THEN {available} ELSE {(v + best) \div 2 : v \in H}
           four == {best \div 2, (best * 3) \div 4, (best * 5) \div 4, (best * 3) \div 2}
           half == [v \in Int |-> (v + best) \div 2]
<1>1. Amounts(four)
  <2>1. four \in SUBSET Int
    OBVIOUS
  <2>3. IsFiniteSet(four)
    BY FourFinite
  <2> HIDE DEF four
  <2> QED
    BY <2>1, <2>3 DEF Amounts
<1>2. ASSUME NEW S \in SUBSET coarse
      PROVE  Amounts({(v + best) \div 2 : v \in S})
  <2>1. S \in SUBSET Int /\ IsFiniteSet(S)
    BY FS_Subset DEF Amounts
  <2>2. {(v + best) \div 2 : v \in S} = {half[v] : v \in S}
    BY <2>1
  <2>3. \A v \in S : half[v] \in Int
    BY <2>1
  <2> HIDE DEF half
  <2>4. IsFiniteSet({half[v] : v \in S})
    BY <2>1, Images
  <2> QED
    BY <2>2, <2>3, <2>4 DEF Amounts
<1>3. Amounts(below)
  <2>1. L \in SUBSET coarse
    OBVIOUS
  <2> HIDE DEF L
  <2> QED
    BY <1>2, <2>1
<1>4. Amounts(above)
  <2>1. H \in SUBSET coarse
    OBVIOUS
  <2>2. Amounts({available})
    BY FS_Singleton DEF Amounts
  <2> HIDE DEF H
  <2> QED
    BY <1>2, <2>1, <2>2
<1>5. refinementProbeAmounts(coarse, best, available) \in SUBSET ((four \cup below) \cup above)
  BY DEF refinementProbeAmounts
<1> HIDE DEF four, below, above
<1>6. IsFiniteSet((four \cup below) \cup above) /\ (four \cup below) \cup above \in SUBSET Int
  BY <1>1, <1>3, <1>4, FS_Union DEF Amounts
<1> QED
  BY <1>5, <1>6, FS_Subset DEF Amounts

LEMMA AmountsAre ==
  ASSUME SearchAssumption, NEW m \in DOMAIN Balance
  PROVE  /\ Amounts(Coarse[m])
         /\ \A p \in Coarse[m] : Amounts(Between[m][p])
<1>1. Balance[m] \in Nat
  BY DEF SearchAssumption
<1>2. Amounts(Coarse[m])
  BY <1>1, CoarseAre DEF Coarse
<1>3. ASSUME NEW p \in Coarse[m] PROVE Amounts(Between[m][p])
  <2>1. p \in Int
    BY <1>2 DEF Amounts
  <2>2. Between[m][p] = refinementProbeAmounts(Coarse[m], p, Balance[m])
    BY DEF Between
  <2> QED
    BY <1>1, <1>2, <2>1, <2>2, BetweenAre
<1> QED
  BY <1>2, <1>3

--------------------------------------------------------------------------------
(* What the quotes of a route say *)

Quote == [mode : {"flash", "inventory"}, principal : Int, delta : Int, refined : BOOLEAN]
Market == Curve \cup {Unbuildable}

LEMMA Yields ==
  ASSUME SearchAssumption, NEW curve \in Market, NEW p \in Int
  PROVE  yield(curve, p) \in Int /\ (curve = Unbuildable => yield(curve, p) <= 0)
<1>1. curve.peak \in Int /\ curve.height \in Int
  BY DEF SearchAssumption, Market, Unbuildable
<1>2. curve = Unbuildable => curve.peak = 0 /\ curve.height = 0
  BY DEF Unbuildable
<1> QED
  BY <1>1, <1>2 DEF yield

LEMMA QuotesAre ==
  ASSUME SearchAssumption, NEW curve \in Market, NEW m \in DOMAIN Balance, NEW f \in Failures
  PROVE  LET says == quotesOf(curve, m, f) IN
         /\ IsFiniteSet(says.good) /\ says.good \subseteq Quote
         /\ says.seen \subseteq Definite \cup Unavailable
         /\ (\E p \in Coarse[m] : yield(curve, p) > 0) => says.good # {} \/ "RPC_ERROR" \in says.seen
<1> DEFINE coarse == Coarse[m]
           lost == IF f = "all" THEN coarse ELSE {}
           gains == {p \in coarse \ lost : yield(curve, p) > 0}
           between == UNION {Between[m][p] : p \in bestAmounts(gains, curve)}
           quoted == (coarse \ lost) \cup (IF f = "between" THEN {} ELSE between)
           failed == lost \cup (IF f = "between" THEN between ELSE {})
           earning == {p \in quoted : yield(curve, p) > 0}
           asked(p) == [mode |-> m, principal |-> p, delta |-> yield(curve, p), refined |-> p \notin coarse]
           good == {asked(p) : p \in earning}
<1>1. Amounts(coarse) /\ \A p \in coarse : Amounts(Between[m][p])
  BY AmountsAre
<1>2. Amounts(between)
  <2> DEFINE B == bestAmounts(gains, curve)
             g == [p \in B |-> Between[m][p]]
  <2>1. B \in SUBSET coarse
    BY DEF bestAmounts
  <2>2. IsFiniteSet(B)
    <3> HIDE DEF B, coarse
    <3> QED
      BY <1>1, <2>1, FS_Subset DEF Amounts
  <2>3. between = UNION {g[p] : p \in B} /\ \A p \in B : Amounts(g[p])
    BY <1>1, <2>1
  <2> HIDE DEF B, g, between
  <2>4. IsFiniteSet({g[p] : p \in B}) /\ \A T \in {g[p] : p \in B} : IsFiniteSet(T) /\ T \in SUBSET Int
    BY <2>2, <2>3, Images DEF Amounts
  <2>5. IsFiniteSet(UNION {g[p] : p \in B})
    BY <2>4, FS_UNION
  <2> QED
    BY <2>3, <2>4, <2>5 DEF Amounts
<1>3. Amounts(quoted)
  <2> HIDE DEF coarse, between
  <2>1. Amounts(coarse \ lost)
    BY <1>1, FS_Subset DEF Amounts
  <2>2. Amounts({})
    BY FS_EmptySet DEF Amounts
  <2> HIDE DEF lost
  <2> QED
    BY <1>2, <2>1, <2>2, FS_Union DEF Amounts
<1>4. m \in {"flash", "inventory"}
  BY DEF SearchAssumption
<1>5. earning \in SUBSET Int /\ IsFiniteSet(earning) /\ \A p \in earning : yield(curve, p) \in Int
  <2> HIDE DEF quoted
  <2> QED
    BY <1>3, FS_Subset, Yields DEF Amounts
<1>6. IsFiniteSet(good) /\ good \subseteq Quote
  <2> DEFINE g == [p \in earning |-> asked(p)]
  <2> HIDE DEF earning, coarse
  <2>1. good = {g[p] : p \in earning} /\ \A p \in earning : asked(p) \in Quote
    BY <1>4, <1>5 DEF Quote
  <2> HIDE DEF g, good, asked
  <2>2. IsFiniteSet({g[p] : p \in earning})
    BY <1>5, Images
  <2>3. good = {g[p] : p \in earning} /\ good \subseteq Quote
    BY <2>1 DEF good
  <2> QED
    BY <2>2, <2>3
<1>7. CASE curve = Unbuildable
  <2>1. quotesOf(curve, m, f) = [good |-> {}, seen |-> {"UNSUPPORTED"}]
    BY <1>7 DEF quotesOf
  <2>2. \A p \in Coarse[m] : ~(yield(curve, p) > 0)
    BY <1>1, <1>7, Yields DEF Amounts
  <2> QED
    BY <2>1, <2>2, FS_EmptySet DEF Definite, Unavailable
<1>8. CASE curve # Unbuildable
  <2>1. quotesOf(curve, m, f) = [good |-> good, seen |-> quotePlan(curve, m, quoted, failed)]
    BY <1>8 DEF quotesOf
  <2>2. quotePlan(curve, m, quoted, failed) \subseteq Definite \cup Unavailable
    BY DEF quotePlan, classifyQuoteOutcome, Definite, Unavailable
  <2>3. failed # {} => "RPC_ERROR" \in quotePlan(curve, m, quoted, failed)
    BY DEF quotePlan
  <2>4. ASSUME NEW p \in coarse, yield(curve, p) > 0 PROVE good # {} \/ failed # {}
    <3>1. CASE f = "all"
      BY <2>4, <3>1
    <3>2. CASE f # "all"
      <4>1. p \in earning
        BY <2>4, <3>2
      <4> HIDE DEF earning, asked
      <4> QED
        BY <4>1
    <3> QED
      BY <3>1, <3>2
  <2> HIDE DEF good, failed, quoted
  <2> QED
    BY <1>6, <2>1, <2>2, <2>3, <2>4
<1> QED
  BY <1>7, <1>8

(* Among the quotes of a route there is one to prefer. *)
LEMMA PreferredOrders ==
  /\ \A c, d : c.quote \in Quote /\ d.quote \in Quote => preferred(c, d) \/ preferred(d, c)
  /\ \A c, d, e : c.quote \in Quote /\ d.quote \in Quote /\ e.quote \in Quote /\ preferred(c, d) /\ preferred(d, e) => preferred(c, e)
<1> DEFINE less(p, q) ==
             \/ p.delta > q.delta
             \/ /\ p.delta = q.delta
                /\ \/ p.mode = "inventory" /\ q.mode # "inventory"
                   \/ /\ p.mode = q.mode
                      /\ (~p.refined /\ q.refined) \/ (p.refined = q.refined /\ p.principal <= q.principal)
<1>1. \A p, q \in Quote : less(p, q) \/ less(q, p)
  BY DEF Quote
<1>2. \A p, q, r \in Quote : less(p, q) /\ less(q, r) => less(p, r)
  BY DEF Quote
<1>3. \A c, d : preferred(c, d) <=> less(c.quote, d.quote)
  BY DEF preferred
<1> HIDE DEF less
<1> QED
  BY <1>1, <1>2, <1>3

LEMMA OneIsPreferred ==
  ASSUME NEW G, IsFiniteSet(G), G # {}, \A c \in G : c.quote \in Quote
  PROVE  \E c \in G : \A d \in G : preferred(c, d)
<1> DEFINE better(c) == {d \in G : ~preferred(c, d)}
           N == {Cardinality(better(c)) : c \in G}
<1>1. \A c \in G : IsFiniteSet(better(c)) /\ Cardinality(better(c)) \in Nat
  <2> SUFFICES ASSUME NEW c \in G PROVE IsFiniteSet(better(c)) /\ Cardinality(better(c)) \in Nat
    OBVIOUS
  <2>1. better(c) \in SUBSET G
    OBVIOUS
  <2> HIDE DEF better
  <2> QED
    BY <2>1, FS_Subset, FS_CardinalityType
<1>2. N \in SUBSET Nat /\ N # {}
  <2> HIDE DEF better
  <2> QED
    BY <1>1
<1>3. PICK n \in N : \A k \in N : n <= k
  <2> HIDE DEF N
  <2> QED
    BY <1>2, LeastOne
<1>4. PICK c \in G : n = Cardinality(better(c))
  OBVIOUS
<1>5. ASSUME NEW d \in better(c) PROVE FALSE
  <2>1. preferred(d, c) /\ d \in G
    BY PreferredOrders
  <2>2. better(d) \in SUBSET better(c)
    BY <2>1, PreferredOrders
  <2>3. d \notin better(d)
    BY PreferredOrders
  <2>4. Cardinality(better(d)) \in N
    BY <2>1
  <2> HIDE DEF better, N
  <2>5. Cardinality(better(d)) < Cardinality(better(c))
    <3>1. better(d) # better(c)
      BY <1>5, <2>3
    <3>2. IsFiniteSet(better(c)) /\ Cardinality(better(c)) \in Nat /\ Cardinality(better(d)) \in Nat
      BY <1>1, <2>1
    <3> QED
      BY <2>2, <3>1, <3>2, FS_Subset
  <2>6. n <= Cardinality(better(d)) /\ n \in Nat /\ Cardinality(better(d)) \in Nat
    BY <1>1, <1>2, <1>3, <2>1, <2>4
  <2> QED
    BY <1>4, <2>5, <2>6
<1> QED
  BY <1>5

--------------------------------------------------------------------------------
(* The candidates of the exact evaluation *)

IsPositive(p) == IsFiniteSet(p) /\ \A c \in p : c.asset \in AssetSet /\ c.quote \in Quote

ManagedLanes == [i \in DOMAIN ByAddress |-> sorted(bestOfRoutes(ByAddress[i]), larger)]

LEMMA BestOf ==
  ASSUME IsPositive(search.positive), NEW asset
  PROVE  /\ IsFiniteSet(bestOfRoutes(asset)) /\ Cardinality(bestOfRoutes(asset)) \in Nat
         /\ (\E c \in search.positive : c.asset = asset) => Cardinality(bestOfRoutes(asset)) # 0
<1>1. IsFiniteSet(bestOfRoutes(asset))
  <2>1. bestOfRoutes(asset) \in SUBSET search.positive
    BY DEF bestOfRoutes
  <2> QED
    BY <2>1, FS_Subset DEF IsPositive
<1>2. ASSUME NEW c \in search.positive, c.asset = asset PROVE bestOfRoutes(asset) # {}
  <2> DEFINE G == {d \in search.positive : d.asset = asset /\ d.route = c.route}
  <2>1. G # {} /\ G \in SUBSET search.positive
    BY <1>2
  <2>2. IsFiniteSet(G) /\ \A d \in G : d.quote \in Quote
    <3> HIDE DEF G
    <3> QED
      BY <2>1, FS_Subset DEF IsPositive
  <2>3. PICK b \in G : \A d \in G : preferred(b, d)
    <3> HIDE DEF G
    <3> QED
      BY <2>1, <2>2, OneIsPreferred
  <2>4. b \in bestOfRoutes(asset)
    BY <2>3 DEF bestOfRoutes
  <2> QED
    BY <2>4
<1> QED
  BY <1>1, <1>2, FS_CardinalityType, FS_EmptySet

LEMMA ManagedAre ==
  ASSUME SearchAssumption, IsPositive(search.positive)
  PROVE  LET managed == selectBoundedManagedCandidates IN
         /\ Cardinality(managed) <= MaxManaged
         /\ search.positive # {} => managed # {}
<1> DEFINE lanes == ManagedLanes
           given == shareBudget(lanes, MaxManaged)
           Q == {c \in Places(lanes) : c[2] <= Len(given[c[1]])}
           g == [c \in Q |-> given[c[1]][c[2]]]
<1>1. DOMAIN lanes = DOMAIN ByAddress /\ DOMAIN ByAddress \subseteq Nat /\ IsFiniteSet(DOMAIN ByAddress)
  BY SeqPlaces DEF SearchAssumption, ManagedLanes
<1>2. ASSUME NEW i \in DOMAIN ByAddress
      PROVE  /\ List(lanes[i]) /\ Len(lanes[i]) \in Nat
             /\ (\E c \in search.positive : c.asset = ByAddress[i]) => Len(lanes[i]) # 0
  <2> DEFINE S == bestOfRoutes(ByAddress[i])
             n == Cardinality(S)
             at(k) == CHOOSE v \in S : Cardinality({u \in S : larger(u, v)}) = k - 1
  <2>1. n \in Nat /\ ((\E c \in search.positive : c.asset = ByAddress[i]) => n # 0)
    BY BestOf
  <2>2. lanes[i] = [k \in 1 .. n |-> at(k)]
    BY DEF ManagedLanes, sorted
  <2> HIDE DEF n, at, lanes
  <2>3. [k \in 1 .. n |-> at(k)] \in Seq({at(k) : k \in 1 .. n}) /\ Len([k \in 1 .. n |-> at(k)]) = n
    BY <2>1
  <2> QED
    BY <2>1, <2>2, <2>3 DEF List
<1>3. IsLanes(lanes)
  <2> HIDE DEF lanes
  <2> QED
    BY <1>1, <1>2 DEF IsLanes
<1>4. MaxManaged \in Nat \ {0}
  BY DEF SearchAssumption
<1>5. IsFiniteSet(Places(lanes)) /\ Cardinality(Places(lanes)) \in Nat /\ (Cardinality(Places(lanes)) = 0 <=> Places(lanes) = {})
  <2> HIDE DEF lanes
  <2>1. IsFiniteSet(Places(lanes))
    BY <1>3, PlacesOrdered
  <2> QED
    BY <2>1, FS_CardinalityType, FS_EmptySet
<1>6. DOMAIN given = DOMAIN lanes /\ Cardinality(Q) = PickMin(MaxManaged, Cardinality(Places(lanes)))
  <2> HIDE DEF lanes
  <2> QED
    BY <1>3, <1>4, SharedOut
<1>7. \A i \in DOMAIN lanes : Len(given[i]) \in Nat /\ DOMAIN given[i] = 1 .. Len(given[i]) /\ Len(given[i]) <= Len(lanes[i]) /\ Len(lanes[i]) \in Nat
  <2> SUFFICES ASSUME NEW i \in DOMAIN lanes
               PROVE  Len(given[i]) \in Nat /\ DOMAIN given[i] = 1 .. Len(given[i]) /\ Len(given[i]) <= Len(lanes[i]) /\ Len(lanes[i]) \in Nat
    OBVIOUS
  <2> HIDE DEF lanes
  <2>1. given[i] \in Seq({lanes[i][k] : k \in DOMAIN lanes[i]}) /\ Len(given[i]) <= Len(lanes[i])
    BY <1>3, <1>4, LaneShare
  <2> HIDE DEF given
  <2> QED
    BY <1>1, <1>2, <2>1
<1>8. selectBoundedManagedCandidates = {g[c] : c \in Q}
  <2>1. selectBoundedManagedCandidates = UNION {{given[i][k] : k \in DOMAIN given[i]} : i \in DOMAIN given}
    BY DEF selectBoundedManagedCandidates, ManagedLanes
  <2> HIDE DEF lanes, given
  <2>2. ASSUME NEW i \in DOMAIN lanes, NEW k \in DOMAIN given[i] PROVE <<i, k>> \in Q /\ g[<<i, k>>] = given[i][k]
    <3>1. k \in Nat \ {0} /\ k <= Len(given[i]) /\ k <= Len(lanes[i])
      BY <1>7
    <3>2. <<i, k>> \in Places(lanes)
      BY <3>1 DEF Places
    <3> QED
      BY <3>1, <3>2
  <2>3. ASSUME NEW c \in Q PROVE c[1] \in DOMAIN lanes /\ c[2] \in DOMAIN given[c[1]] /\ g[c] = given[c[1]][c[2]]
    <3>1. c[1] \in DOMAIN lanes /\ c[2] \in Nat \ {0} /\ c[2] <= Len(given[c[1]])
      BY DEF Places
    <3> QED
      BY <1>7, <3>1
  <2> HIDE DEF Q, g
  <2>4. ASSUME NEW x \in selectBoundedManagedCandidates PROVE x \in {g[c] : c \in Q}
    <3>1. PICK i \in DOMAIN given : x \in {given[i][k] : k \in DOMAIN given[i]}
      BY <2>1
    <3>2. PICK k \in DOMAIN given[i] : x = given[i][k]
      BY <3>1
    <3> QED
      BY <1>6, <2>2, <3>2
  <2>5. ASSUME NEW c \in Q PROVE g[c] \in selectBoundedManagedCandidates
    <3>1. c[1] \in DOMAIN given /\ g[c] \in {given[c[1]][k] : k \in DOMAIN given[c[1]]}
      BY <1>6, <2>3
    <3> QED
      BY <2>1, <3>1
  <2> QED
    BY <2>4, <2>5
<1>9. IsFiniteSet(Q)
  <2> HIDE DEF lanes, given
  <2> QED
    BY <1>5, FS_Subset
<1>10. Cardinality({g[c] : c \in Q}) <= Cardinality(Q) /\ IsFiniteSet({g[c] : c \in Q}) /\ Cardinality({g[c] : c \in Q}) \in Nat
  <2> HIDE DEF Q, g
  <2> QED
    BY <1>9, Images, FS_CardinalityType
<1>11. ASSUME search.positive # {} PROVE Places(lanes) # {}
  <2>1. PICK c \in search.positive : TRUE
    BY <1>11
  <2>2. PICK i \in DOMAIN ByAddress : c.asset = ByAddress[i]
    BY <2>1 DEF IsPositive, SearchAssumption
  <2> HIDE DEF lanes
  <2>3. i \in DOMAIN lanes /\ Len(lanes[i]) \in Nat /\ Len(lanes[i]) # 0 /\ i \in Nat
    BY <1>1, <1>2, <2>1, <2>2
  <2>4. <<i, 1>> \in Places(lanes)
    BY <2>3 DEF Places
  <2> QED
    BY <2>4
<1>12. search.positive # {} => Q # {}
  <2> HIDE DEF lanes, Q
  <2>1. search.positive # {} => Cardinality(Q) # 0
    BY <1>4, <1>5, <1>6, <1>11 DEF PickMin
  <2> QED
    BY <1>9, <2>1, FS_EmptySet
<1>13. Cardinality(Q) <= MaxManaged /\ Cardinality(Q) \in Nat
  <2> HIDE DEF lanes, Q
  <2> QED
    BY <1>4, <1>5, <1>6 DEF PickMin
<1> HIDE DEF Q, g
<1> QED
  BY <1>4, <1>8, <1>10, <1>12, <1>13

--------------------------------------------------------------------------------
(* The routes of a wake *)

Budget == IF eventWake THEN MaxEventRoutes ELSE MaxRoutes

LEMMA WorksetIs ==
  ASSUME SearchAssumption, NEW a \in AssetSet, NEW block \in Nat
  PROVE  LET routes == selectGlobalRouteWorkset(Routes[a], block) IN List(routes) /\ Len(routes) <= Budget
<1>1. PICK Route : Routes \in [AssetSet -> Seq(Route)]
  BY DEF SearchAssumption
<1> DEFINE routes == Routes[a]
           all == {routes[i] : i \in DOMAIN routes}
           S == {r \in all : matches(r) > 0}
           n == Cardinality(S)
           at(k) == CHOOSE v \in S : Cardinality({u \in S : closer(u, v)}) = k - 1
           bpt == among(routes, {r \in all : r.bpt})
           size == PickMax(1, MaxRoutes \div 4)
           priority == take(rotate(bpt, block), size)
           rest == all \ {priority[i] : i \in DOMAIN priority}
           broad == among(routes, rest)
<1>2. routes \in Seq(Route) /\ routes \in Seq(all) /\ IsFiniteSet(all)
  <2>1. routes \in Seq(Route)
    BY <1>1
  <2> HIDE DEF routes
  <2> QED
    BY <2>1, Lists DEF List
<1>3. MaxRoutes \in Nat \ {0} /\ MaxEventRoutes \in Nat
  BY DEF SearchAssumption
<1> HIDE DEF routes
<1>4. CASE eventWake
  <2>1. n \in Nat
    <3>1. S \in SUBSET all
      OBVIOUS
    <3> HIDE DEF S, all
    <3> QED
      BY <1>2, <3>1, FS_Subset, FS_CardinalityType
  <2>2. selectGlobalRouteWorkset(routes, block) = take([k \in 1 .. n |-> at(k)], MaxEventRoutes)
    BY <1>4 DEF selectGlobalRouteWorkset, sorted
  <2> HIDE DEF n, at
  <2>3. [k \in 1 .. n |-> at(k)] \in Seq({at(k) : k \in 1 .. n})
    BY <2>1
  <2> DEFINE t == [k \in 1 .. n |-> at(k)]
  <2> HIDE DEF t
  <2>4. take(t, MaxEventRoutes) \in Seq({at(k) : k \in 1 .. n}) /\ Len(take(t, MaxEventRoutes)) <= MaxEventRoutes
    BY <1>3, <2>3, Taken DEF t
  <2> QED
    BY <1>4, <2>2, <2>4 DEF List, Budget, t, routes
<1>5. CASE ~eventWake
  <2>1. size \in Nat
    BY <1>3 DEF PickMax
  <2>2. bpt \in Seq(all)
    <3> DEFINE X == {r \in all : r.bpt}
    <3>1. X \subseteq all
      OBVIOUS
    <3> HIDE DEF X, all
    <3>2. among(routes, X) \in Seq(all \intersect X)
      BY <1>2, Selected
    <3>3. among(routes, X) \in Seq(all)
      BY <3>2
    <3> QED
      BY <3>3 DEF X
  <2> HIDE DEF bpt, size, all
  <2>3. rotate(bpt, block) \in Seq(all)
    BY <2>2, Rotated
  <2>4. priority \in Seq(all)
    BY <2>1, <2>3, Taken
  <2> HIDE DEF priority, rest
  <2>5. broad \in Seq(all)
    <3>1. broad \in Seq(all \intersect rest)
      BY <1>2, Selected
    <3> QED
      BY <3>1
  <2> HIDE DEF broad
  <2>6. rotate(broad, block) \in Seq(all)
    BY <2>5, Rotated
  <2>7. priority \o rotate(broad, block) \in Seq(all)
    BY <2>4, <2>6
  <2>8. take(priority \o rotate(broad, block), MaxRoutes) \in Seq(all) /\ Len(take(priority \o rotate(broad, block), MaxRoutes)) <= MaxRoutes
    BY <1>3, <2>7, Taken
  <2>9. selectGlobalRouteWorkset(routes, block) = take(priority \o rotate(broad, block), MaxRoutes)
    BY <1>5 DEF selectGlobalRouteWorkset, priority, broad, rest, bpt, size, all
  <2> QED
    BY <1>5, <2>8, <2>9 DEF List, Budget, routes
<1> QED
  BY <1>4, <1>5

(* One search shares its budget. *)
LEMMA WorksetsShared ==
  ASSUME SearchAssumption, NEW assets \in Seq(AssetSet), search.block \in Nat
  PROVE  LET all == allWorksets(assets)
             given == shareBudget(all, Budget)
             quoted == {c \in (DOMAIN all) \X (1 .. MaxRoutes) : c[2] <= Len(given[c[1]])}
             work == {c \in (DOMAIN all) \X (1 .. MaxRoutes) : c[2] <= Len(all[c[1]])} IN
         /\ DOMAIN given = DOMAIN assets /\ \A i \in DOMAIN given : List(given[i])
         /\ Cardinality(quoted) = PickMin(Budget, Cardinality(work))
         /\ \A i, j \in DOMAIN all : Len(given[i]) < Len(all[i]) => Len(given[j]) <= Len(given[i]) + 1
<1> DEFINE all == allWorksets(assets)
           given == shareBudget(all, Budget)
           quoted == {c \in (DOMAIN all) \X (1 .. MaxRoutes) : c[2] <= Len(given[c[1]])}
           work == {c \in (DOMAIN all) \X (1 .. MaxRoutes) : c[2] <= Len(all[c[1]])}
<1>1. Budget \in Nat /\ Budget <= MaxRoutes /\ MaxRoutes \in Nat
  BY DEF Budget, SearchAssumption
<1>2. DOMAIN all = DOMAIN assets /\ \A i \in DOMAIN assets : all[i] = selectGlobalRouteWorkset(Routes[assets[i]], search.block) /\ assets[i] \in AssetSet
  BY DEF allWorksets
<1> HIDE DEF all
<1>3. \A i \in DOMAIN assets : List(all[i]) /\ Len(all[i]) <= Budget
  BY <1>2, WorksetIs
<1>4. IsLanes(all)
  <2>1. DOMAIN assets \subseteq Nat /\ IsFiniteSet(DOMAIN assets)
    BY SeqPlaces
  <2> QED
    BY <1>2, <1>3, <2>1 DEF IsLanes
<1>5. \A i \in DOMAIN all : Len(all[i]) \in Nat /\ Len(given[i]) \in Nat /\ List(given[i]) /\ Len(given[i]) <= Len(all[i]) /\ Len(all[i]) <= MaxRoutes
  <2> SUFFICES ASSUME NEW i \in DOMAIN all
               PROVE  Len(all[i]) \in Nat /\ Len(given[i]) \in Nat /\ List(given[i]) /\ Len(given[i]) <= Len(all[i]) /\ Len(all[i]) <= MaxRoutes
    OBVIOUS
  <2>1. given[i] \in Seq({all[i][k] : k \in DOMAIN all[i]}) /\ Len(given[i]) <= Len(all[i])
    BY <1>1, <1>4, LaneShare
  <2>2. Len(all[i]) \in Nat /\ Len(all[i]) <= Budget
    BY <1>2, <1>3, Lists
  <2> HIDE DEF given
  <2> QED
    BY <1>1, <2>1, <2>2 DEF List
<1>6. work = Places(all)
  BY <1>1, <1>5 DEF Places
<1>7. quoted = {c \in Places(all) : c[2] <= Len(given[c[1]])}
  <2> HIDE DEF given
  <2> QED
    BY <1>1, <1>5 DEF Places
<1>8. /\ DOMAIN given = DOMAIN all
      /\ Cardinality({c \in Places(all) : c[2] <= Len(given[c[1]])}) = PickMin(Budget, Cardinality(Places(all)))
      /\ \A i, j \in DOMAIN all : Len(given[i]) < Len(all[i]) => Len(given[j]) <= Len(given[i]) + 1
  BY <1>1, <1>4, SharedOut
<1> HIDE DEF given, work, quoted
<1> QED
  BY <1>2, <1>5, <1>6, <1>7, <1>8 DEF given, work, quoted, all

--------------------------------------------------------------------------------
(* The inductive invariant *)

IsSearch(s) ==
  s = [pc |-> s.pc, wake |-> s.wake, block |-> s.block, version |-> s.version, complete |-> s.complete,
       funds |-> s.funds, checked |-> s.checked, funded |-> s.funded, sure |-> s.sure, admitted |-> s.admitted,
       worksets |-> s.worksets, lane |-> s.lane, gain |-> s.gain, seen |-> s.seen, positive |-> s.positive,
       managed |-> s.managed, left |-> s.left, exactSeen |-> s.exactSeen, exact |-> s.exact, status |-> s.status,
       coverage |-> s.coverage, selected |-> s.selected]
Apart(s) == \A i, j \in DOMAIN s : s[i] = s[j] => i = j
Outcomes == Definite \cup Unavailable

(* The search with wake and block as parameters: a later state reads them alike. *)
WorksetOf(wake, routes, block) ==
  LET hits(r) == Cardinality(r.pools \cap wake)
      all == {routes[i] : i \in DOMAIN routes}
      priority == take(rotate(among(routes, {r \in all : r.bpt}), block), PickMax(1, MaxRoutes \div 4))
      broad == among(routes, all \ {priority[i] : i \in DOMAIN priority}) IN
  IF wake # {} THEN take(sorted({r \in all : hits(r) > 0}, LAMBDA r, q : hits(r) > hits(q) \/ (hits(r) = hits(q) /\ r.rank < q.rank)), MaxEventRoutes)
  ELSE take(priority \o rotate(broad, block), MaxRoutes)
AllOf(wake, block, assets) == [i \in DOMAIN assets |-> WorksetOf(wake, Routes[assets[i]], block)]
BudgetOf(wake) == IF wake # {} THEN MaxEventRoutes ELSE MaxRoutes

Started ==
  /\ IsSearch(search) /\ search.block \in Nat /\ search.lane \in Nat \ {0} /\ search.gain \in BOOLEAN
  /\ search.pc \in {"idle", "graph", "funding", "valuation", "quote", "exact", "decided", "rebuilt", "refused"}
(* Without funds, and sure of it, no asset of the graph has any. *)
FundingInv ==
  /\ search.funds \in [AssetSet -> SUBSET DOMAIN Balance] /\ search.funded \subseteq AssetSet
  /\ search.checked \in Seq(AssetSet) /\ Apart(search.checked)
  /\ search.funded = {} /\ search.sure => \A a \in AssetSet : search.funds[a] = {}
WorksetInv ==
  /\ search.admitted \in Seq(AssetSet) /\ Len(search.admitted) <= MaxAdmitted
  /\ DOMAIN search.worksets = DOMAIN search.admitted /\ \A i \in DOMAIN search.worksets : List(search.worksets[i])
  /\ search.pc = "quote" /\ search.lane = 1 =>
       search.worksets = shareBudget(AllOf(search.wake, search.block, search.admitted), BudgetOf(search.wake))
(* What would have yielded something was quoted so, or could not be read; and   *)
(* of what was quoted so, something is evaluated exactly.                       *)
GainInv ==
  /\ IsPositive(search.positive) /\ search.seen \subseteq Outcomes /\ search.exactSeen \subseteq Outcomes
  /\ search.pc \in {"idle", "graph", "funding", "valuation"} => search.positive = {} /\ ~search.gain
  /\ search.pc \in {"idle", "graph", "funding", "valuation", "quote"} => search.managed = {}
  /\ search.pc = "quote" /\ search.gain => search.positive # {} \/ search.seen \cap Unavailable # {}
  /\ search.pc = "exact" /\ search.gain => search.managed # {} \/ search.seen \cap Unavailable # {}
  /\ Cardinality(search.managed) <= MaxManaged
DecisionInv ==
  /\ search.coverage \in {"none", "EMPTY", "COMPLETE", "PARTIAL", "UNAVAILABLE"}
  /\ search.pc \notin {"decided", "rebuilt", "refused"} => search.status = "none"
  /\ DecisionHonest

SearchInv == Started /\ FundingInv /\ WorksetInv /\ GainInv /\ DecisionInv

LEMMA WorksetsAre ==
  /\ \A assets : allWorksets(assets) = AllOf(search.wake, search.block, assets)
  /\ Budget = BudgetOf(search.wake)
<1>1. \A routes, block : selectGlobalRouteWorkset(routes, block) = WorksetOf(search.wake, routes, block)
  BY DEF selectGlobalRouteWorkset, WorksetOf, eventWake, matches, closer, sorted
<1> QED
  BY <1>1 DEF allWorksets, AllOf, Budget, BudgetOf, eventWake

LEMMA SearchBegins == ASSUME SearchAssumption, SearchInit PROVE SearchInv
<1>1. IsSearch(search) /\ search = Idle
  BY DEF SearchInit, Idle, IsSearch
<1>2. IsFiniteSet({}) /\ Cardinality({}) = 0
  BY FS_EmptySet
<1>3. Started
  BY <1>1 DEF Started, Idle
<1>4. FundingInv
  BY <1>1 DEF FundingInv, Idle, Apart
<1>5. WorksetInv
  BY <1>1 DEF WorksetInv, Idle, SearchAssumption
<1>6. GainInv
  BY <1>1, <1>2 DEF GainInv, Idle, SearchAssumption, IsPositive, Outcomes
<1>7. DecisionInv
  BY <1>1 DEF DecisionInv, Idle, DecisionHonest
<1> QED
  BY <1>3, <1>4, <1>5, <1>6, <1>7 DEF SearchInv

LEMMA SearchStays == ASSUME SearchInv, UNCHANGED search PROVE SearchInv'
  BY DEF SearchInv, Started, FundingInv, WorksetInv, GainInv, DecisionInv, DecisionHonest

LEMMA StartKeeps == ASSUME SearchAssumption, SearchInv, NEW wake, NEW block \in Nat, StartSearch(wake, block) PROVE SearchInv'
<1>1. /\ IsSearch(search') /\ search.pc = "idle"
      /\ search' = [search EXCEPT !.pc = "graph", !.wake = wake, !.block = block]
  BY DEF StartSearch, SearchInv, Started, IsSearch
<1>2. Started'
  BY <1>1 DEF Started, SearchInv, IsSearch
<1>3. FundingInv'
  BY <1>1 DEF FundingInv, SearchInv, Started, IsSearch
<1>4. WorksetInv'
  BY <1>1 DEF WorksetInv, SearchInv, Started, IsSearch
<1>5. GainInv'
  BY <1>1 DEF GainInv, SearchInv, Started, IsSearch
<1>6. DecisionInv'
  BY <1>1 DEF DecisionInv, SearchInv, Started, DecisionHonest, IsSearch
<1> QED
  BY <1>2, <1>3, <1>4, <1>5, <1>6 DEF SearchInv

LEMMA LoadKeeps == ASSUME SearchInv, LoadGraph PROVE SearchInv'
<1>1. IsSearch(search) /\ search.pc = "graph"
  BY DEF LoadGraph, SearchInv, Started
<1>2. \/ search' = [search EXCEPT !.pc = "decided", !.status = "PREFLIGHT_FAILED_NO_SIGNATURE", !.coverage = "UNAVAILABLE", !.selected = {}]
      \/ search' = [search EXCEPT !.pc = "funding", !.version = file.version, !.complete = file.state = "complete"]
  BY DEF LoadGraph, decides
<1>3. Started'
  BY ZenonT(40), <1>1, <1>2 DEF Started, SearchInv, IsSearch
<1>4. FundingInv'
  BY ZenonT(40), <1>1, <1>2 DEF FundingInv, SearchInv, Started, IsSearch
<1>5. WorksetInv'
  BY ZenonT(40), <1>1, <1>2 DEF WorksetInv, SearchInv, Started, IsSearch
<1>6. GainInv'
  BY <1>1, <1>2 DEF GainInv, SearchInv, Started, IsSearch
<1>7. DecisionInv'
  BY <1>1, <1>2 DEF DecisionInv, SearchInv, Started, DecisionHonest, IsSearch
<1> QED
  BY <1>3, <1>4, <1>5, <1>6, <1>7 DEF SearchInv

(* Lists one after the other, of nothing twice. *)
LEMMA Joined ==
  ASSUME NEW X, NEW Y, NEW s \in Seq(X), NEW t \in Seq(Y), X \cap Y = {}, Apart(s), Apart(t)
  PROVE  s \o t \in Seq(X \cup Y) /\ Apart(s \o t)
<1>1. s \o t \in Seq(X \cup Y)
  <2>1. s \in Seq(X \cup Y) /\ t \in Seq(X \cup Y)
    OBVIOUS
  <2> QED
    BY <2>1
<1>2. ASSUME NEW i \in DOMAIN (s \o t), NEW j \in DOMAIN (s \o t), (s \o t)[i] = (s \o t)[j] PROVE i = j
  <2>1. /\ i \in 1 .. Len(s) + Len(t) /\ j \in 1 .. Len(s) + Len(t) /\ Len(s) \in Nat /\ Len(t) \in Nat
        /\ DOMAIN s = 1 .. Len(s) /\ DOMAIN t = 1 .. Len(t)
    OBVIOUS
  <2>2. \A k \in 1 .. Len(s) + Len(t) : (s \o t)[k] = IF k <= Len(s) THEN s[k] ELSE t[k - Len(s)]
    OBVIOUS
  <2>3. \A k \in 1 .. Len(s) + Len(t) : IF k <= Len(s) THEN k \in DOMAIN s /\ s[k] \in X ELSE k - Len(s) \in DOMAIN t /\ t[k - Len(s)] \in Y
    BY <2>1
  <2>4. (i <= Len(s) <=> j <= Len(s))
    BY <1>2, <2>1, <2>2, <2>3
  <2>5. CASE i <= Len(s)
    BY <1>2, <2>1, <2>2, <2>3, <2>4, <2>5 DEF Apart
  <2>6. CASE ~(i <= Len(s))
    <3>1. i - Len(s) \in DOMAIN t /\ j - Len(s) \in DOMAIN t /\ t[i - Len(s)] = t[j - Len(s)]
      BY <1>2, <2>1, <2>2, <2>3, <2>4, <2>6
    <3>2. i - Len(s) = j - Len(s)
      BY <3>1 DEF Apart
    <3> QED
      BY <2>1, <3>2
  <2> QED
    BY <2>5, <2>6
<1> QED
  BY <1>1, <1>2 DEF Apart

LEMMA Among == ASSUME NEW X, NEW s \in Seq(X), NEW S, Apart(s)
               PROVE  among(s, S) \in Seq(X \cap S) /\ among(s, S) \in Seq(X) /\ Apart(among(s, S))
<1>1. among(s, S) \in Seq(X \cap S)
  BY Selected
<1>2. Apart(among(s, S))
  BY Selected DEF Apart
<1> QED
  BY <1>1, <1>2

LEMMA CandidatesAre ==
  ASSUME SearchAssumption, NEW block \in Nat
  PROVE  LET candidates == selectSettlementFundingCandidates(block) IN candidates \in Seq(AssetSet) /\ Apart(candidates)
<1> DEFINE named == {a \in AssetSet : touched(a)}
           rest == AssetSet \ named
           w == among(Asset, named \cap Seeds)
           x == among(Asset, rest \cap Seeds)
           y == among(Asset, named \ Seeds)
           z == among(Asset, rest \ Seeds)
           all == w \o x \o y \o rotate(z, block)
           some == {a \in AssetSet : eventWake => a \in Seeds \/ touched(a)}
<1>1. Asset \in Seq(AssetSet) /\ Apart(Asset) /\ MaxChecks \in Nat
  BY DEF SearchAssumption, Apart
<1>2. selectSettlementFundingCandidates(block) = among(take(all, MaxChecks), some)
  BY DEF selectSettlementFundingCandidates, rankDynamicSettlementCandidates
<1> HIDE DEF named, some
<1>3. /\ w \in Seq(AssetSet \cap (named \cap Seeds)) /\ Apart(w) /\ x \in Seq(AssetSet \cap (rest \cap Seeds)) /\ Apart(x)
      /\ y \in Seq(AssetSet \cap (named \ Seeds)) /\ Apart(y) /\ z \in Seq(AssetSet \cap (rest \ Seeds)) /\ Apart(z)
  BY <1>1, Among
<1> HIDE DEF w, x, y, z
<1>4. rotate(z, block) \in Seq(AssetSet \cap (rest \ Seeds)) /\ Apart(rotate(z, block))
  <2>1. rotate(z, block) \in Seq(AssetSet \cap (rest \ Seeds))
    BY <1>3, Rotated
  <2>2. Apart(rotate(z, block))
    BY <1>3, Rotated DEF Apart
  <2> QED
    BY <2>1, <2>2
<1>5. w \o x \in Seq((AssetSet \cap (named \cap Seeds)) \cup (AssetSet \cap (rest \cap Seeds))) /\ Apart(w \o x)
  <2>1. (AssetSet \cap (named \cap Seeds)) \cap (AssetSet \cap (rest \cap Seeds)) = {}
    OBVIOUS
  <2> HIDE DEF rest
  <2> QED
    BY <1>3, <2>1, Joined
<1> DEFINE A == (AssetSet \cap (named \cap Seeds)) \cup (AssetSet \cap (rest \cap Seeds))
           B == AssetSet \cap (named \ Seeds)
           C == AssetSet \cap (rest \ Seeds)
<1>6. A \cap B = {} /\ (A \cup B) \cap C = {} /\ (A \cup B) \cup C \subseteq AssetSet
  OBVIOUS
<1>7. (w \o x) \o y \in Seq(A \cup B) /\ Apart((w \o x) \o y)
  <2> HIDE DEF A, B, C
  <2>1. w \o x \in Seq(A) /\ y \in Seq(B)
    BY <1>3, <1>5 DEF A, B
  <2> QED
    BY <1>3, <1>5, <1>6, <2>1, Joined
<1>8. all \in Seq(AssetSet) /\ Apart(all)
  <2> HIDE DEF A, B, C
  <2>1. rotate(z, block) \in Seq(C)
    BY <1>4 DEF C
  <2>2. all \in Seq((A \cup B) \cup C) /\ Apart(all)
    BY <1>4, <1>6, <1>7, <2>1, Joined
  <2> HIDE DEF all
  <2> QED
    BY <1>6, <2>2
<1> HIDE DEF all
<1>9. take(all, MaxChecks) \in Seq(AssetSet) /\ Apart(take(all, MaxChecks))
  <2>1. take(all, MaxChecks) \in Seq(AssetSet)
    BY <1>1, <1>8, Taken
  <2>2. \A i \in DOMAIN take(all, MaxChecks) : i \in DOMAIN all /\ take(all, MaxChecks)[i] = all[i]
    BY <1>1, <1>8, Taken
  <2> QED
    BY <1>8, <2>1, <2>2 DEF Apart
<1> QED
  BY <1>2, <1>9, Among

LEMMA FundingKeeps == ASSUME SearchAssumption, SearchInv, ReadFunding PROVE SearchInv'
<1> DEFINE candidates == selectSettlementFundingCandidates(search.block)
           checked == among(candidates, Valued)
           names == {checked[i] : i \in DOMAIN checked}
<1>1. PICK funds \in [names -> SUBSET DOMAIN Balance], read \in [names -> {"ok", "RPC_ERROR", "UNSUPPORTED"}] :
        LET outcome(a) == fundingOutcome(funds[a], read[a])
            rejected == {outcome(a) : a \in names} \ {"FUNDED"} IN
        search' = [search EXCEPT !.pc = "valuation", !.checked = checked,
                     !.funds = [a \in AssetSet |-> IF a \in names THEN funds[a] ELSE {}],
                     !.funded = {a \in names : outcome(a) = "FUNDED"},
                     !.sure = rejected \subseteq {"POLICY_FILTERED"},
                     !.seen = rejected \cup (IF Len(checked) = Len(candidates) THEN {} ELSE {"UNSUPPORTED"})]
  BY DEF ReadFunding
<1>2. IsSearch(search) /\ search.pc = "funding" /\ search.block \in Nat
  BY DEF ReadFunding, SearchInv, Started
<1>3. checked \in Seq(AssetSet) /\ Apart(checked)
  <2>1. candidates \in Seq(AssetSet) /\ Apart(candidates)
    BY <1>2, CandidatesAre
  <2> HIDE DEF candidates
  <2> QED
    BY <2>1, Among
<1> DEFINE extra == IF Len(checked) = Len(candidates) THEN {} ELSE {"UNSUPPORTED"}
<1>4. extra \subseteq {"UNSUPPORTED"}
  OBVIOUS
<1> HIDE DEF checked, candidates
<1>5. names \subseteq AssetSet
  BY <1>3
<1> DEFINE outcome(a) == fundingOutcome(funds[a], read[a])
           rejected == {outcome(a) : a \in names} \ {"FUNDED"}
           lent == [a \in AssetSet |-> IF a \in names THEN funds[a] ELSE {}]
           funded == {a \in names : outcome(a) = "FUNDED"}
<1>6. search' = [search EXCEPT !.pc = "valuation", !.checked = checked, !.funds = lent, !.funded = funded,
                   !.sure = rejected \subseteq {"POLICY_FILTERED"}, !.seen = rejected \cup extra]
  BY <1>1
<1> HIDE DEF names, extra
<1>7. rejected \subseteq {"POLICY_FILTERED", "RPC_ERROR", "UNSUPPORTED"}
  <2>1. \A a \in names : outcome(a) \in {"FUNDED", "POLICY_FILTERED", "RPC_ERROR", "UNSUPPORTED"}
    BY DEF fundingOutcome
  <2> HIDE DEF outcome
  <2> QED
    BY <2>1
<1>8. lent \in [AssetSet -> SUBSET DOMAIN Balance] /\ funded \subseteq AssetSet
  BY <1>5
<1>9. ASSUME funded = {}, rejected \subseteq {"POLICY_FILTERED"}, NEW a \in AssetSet PROVE lent[a] = {}
  <2>1. CASE a \notin names
    BY <2>1
  <2>2. CASE a \in names
    <3>1. outcome(a) = "POLICY_FILTERED"
      <4>1. outcome(a) # "FUNDED"
        BY <1>9, <2>2
      <4>2. outcome(a) \in rejected
        BY <2>2, <4>1
      <4> HIDE DEF outcome, rejected
      <4> QED
        BY <1>9, <4>2
    <3>2. read[a] \in {"ok", "RPC_ERROR", "UNSUPPORTED"}
      BY <2>2
    <3>3. funds[a] = {}
      BY <3>1, <3>2 DEF fundingOutcome
    <3> QED
      BY <2>2, <3>3
  <2> QED
    BY <2>1, <2>2
<1> HIDE DEF outcome, rejected, lent, funded
<1>10. Started'
  BY <1>2, <1>6 DEF Started, SearchInv, IsSearch
<1>11. FundingInv'
  BY <1>2, <1>3, <1>6, <1>8, <1>9 DEF FundingInv, IsSearch
<1>12. WorksetInv'
  BY <1>2, <1>6 DEF WorksetInv, SearchInv, Started, IsSearch
<1>13. GainInv'
  <2>1. (rejected \cup extra) \subseteq Outcomes
    BY <1>4, <1>7 DEF Outcomes, Definite, Unavailable
  <2> QED
    BY <1>2, <1>6, <2>1 DEF GainInv, SearchInv, Started, IsSearch
<1>14. DecisionInv'
  BY <1>2, <1>6 DEF DecisionInv, SearchInv, Started, DecisionHonest, IsSearch
<1> QED
  BY <1>10, <1>11, <1>12, <1>13, <1>14 DEF SearchInv

(* The first assets whose quotes come back are admitted, up to the bound. *)
Good(lenders, value, i) == {j \in 1 .. i : value[lenders[j]] = "ok"}
Tried(lenders, value, max) == {lenders[i] : i \in {i \in DOMAIN lenders : Cardinality(Good(lenders, value, i - 1)) < max}}
Admitted(lenders, value, max) == {a \in Tried(lenders, value, max) : value[a] = "ok"}

LEMMA AdmittedFew ==
  ASSUME NEW X, NEW lenders \in Seq(X), NEW value, NEW max \in Nat
  PROVE  /\ Tried(lenders, value, max) \subseteq X
         /\ IsFiniteSet(Admitted(lenders, value, max)) /\ Cardinality(Admitted(lenders, value, max)) <= max
         /\ Cardinality(Admitted(lenders, value, max)) \in Nat
<1> DEFINE good(i) == Good(lenders, value, i)
           tried == Tried(lenders, value, max)
           admitted == Admitted(lenders, value, max)
           O == {i \in DOMAIN lenders : value[lenders[i]] = "ok"}
           R == {p \in O \X O : p[1] < p[2]}
           U == {i \in O : Rank(R, O, i) < max}
<1>1. DOMAIN lenders = 1 .. Len(lenders) /\ Len(lenders) \in Nat /\ \A i \in DOMAIN lenders : lenders[i] \in X
  OBVIOUS
<1>2. IsFiniteSet(O) /\ O \in SUBSET Nat
  <2>1. IsFiniteSet(DOMAIN lenders) /\ O \in SUBSET DOMAIN lenders /\ DOMAIN lenders \subseteq Nat
    BY SeqPlaces
  <2> HIDE DEF O
  <2> QED
    BY <2>1, FS_Subset
<1>3. Ordered(R, O)
  <2>1. \A x, y \in O : <<x, y>> \in R <=> x < y
    OBVIOUS
  <2> HIDE DEF R, O
  <2> QED
    BY <1>2, <2>1 DEF Ordered
<1>4. \A i \in O : good(i - 1) = Below(R, O, i)
  BY <1>1 DEF Below, Good
<1>5. admitted = {lenders[i] : i \in U}
  <2>1. ASSUME NEW a \in admitted PROVE \E i \in U : a = lenders[i]
    <3>1. PICK i \in DOMAIN lenders : a = lenders[i] /\ Cardinality(good(i - 1)) < max
      BY DEF Tried, Admitted
    <3>2. i \in O
      BY <3>1 DEF Admitted
    <3> HIDE DEF O, R, good
    <3> QED
      BY <1>4, <3>1, <3>2 DEF Rank
  <2>2. ASSUME NEW i \in U PROVE lenders[i] \in admitted
    <3>1. i \in O /\ Rank(R, O, i) < max
      OBVIOUS
    <3>2. Cardinality(good(i - 1)) < max
      <4> HIDE DEF O, R, good
      <4> QED
        BY <1>4, <3>1 DEF Rank
    <3>3. i \in DOMAIN lenders /\ value[lenders[i]] = "ok"
      BY <3>1
    <3> QED
      BY <3>2, <3>3 DEF Tried, Admitted
  <2> HIDE DEF admitted, U
  <2> QED
    BY <2>1, <2>2
<1>6. Cardinality(U) = PickMin(max, Cardinality(O)) /\ IsFiniteSet(U) /\ Cardinality(O) \in Nat
  <2> HIDE DEF R, O
  <2> QED
    BY <1>2, <1>3, RankedBelow, FS_Subset, FS_CardinalityType
<1> HIDE DEF U, O
<1>7. IsFiniteSet({lenders[i] : i \in U}) /\ Cardinality({lenders[i] : i \in U}) <= Cardinality(U) /\ Cardinality({lenders[i] : i \in U}) \in Nat
  BY <1>6, Images, FS_CardinalityType
<1>8. Cardinality(U) <= max /\ Cardinality(U) \in Nat
  BY <1>6 DEF PickMin
<1>9. tried \subseteq X
  BY <1>1 DEF Tried
<1> QED
  BY <1>5, <1>7, <1>8, <1>9

LEMMA AdmittedList ==
  ASSUME SearchAssumption, NEW lenders \in Seq(AssetSet), NEW S, Apart(lenders), IsFiniteSet(S)
  PROVE  LET funded == among(topology(among(lenders, S)), S) IN
         funded \in Seq(AssetSet) /\ Len(funded) <= Cardinality(S)
<1> DEFINE own == among(Asset, Seeds)
           picked == among(lenders, S)
           others == among(picked, AssetSet \ Seeds)
           all == own \o others
           held == {k \in DOMAIN all : all[k] \in S}
<1>1. Asset \in Seq(AssetSet) /\ Apart(Asset)
  BY DEF SearchAssumption, Apart
<1>2. own \in Seq(AssetSet \cap Seeds) /\ Apart(own)
  BY <1>1, Among
<1>3. picked \in Seq(AssetSet) /\ Apart(picked)
  BY Among
<1> HIDE DEF picked
<1>4. others \in Seq(AssetSet \cap (AssetSet \ Seeds)) /\ Apart(others)
  BY <1>3, Among
<1> HIDE DEF own, others
<1>5. all \in Seq(AssetSet) /\ Apart(all)
  <2> DEFINE A == AssetSet \cap Seeds
             B == AssetSet \cap (AssetSet \ Seeds)
  <2>1. A \cap B = {} /\ A \cup B \subseteq AssetSet
    OBVIOUS
  <2>2. own \in Seq(A) /\ others \in Seq(B)
    BY <1>2, <1>4
  <2> HIDE DEF A, B
  <2>3. all \in Seq(A \cup B) /\ Apart(all)
    BY <1>2, <1>4, <2>1, <2>2, Joined
  <2> HIDE DEF all
  <2> QED
    BY <2>1, <2>3
<1>6. topology(among(lenders, S)) = all
  BY DEF topology, all, own, others, picked
<1> HIDE DEF all
<1>7. among(all, S) \in Seq(AssetSet \cap S) /\ Len(among(all, S)) = Cardinality(held)
  BY <1>5, Selected
<1>8. IsFiniteSet(held)
  <2>1. IsFiniteSet(DOMAIN all) /\ held \in SUBSET DOMAIN all
    BY <1>5, SeqPlaces
  <2> HIDE DEF held
  <2> QED
    BY <2>1, FS_Subset
<1>9. Cardinality({all[k] : k \in held}) = Cardinality(held)
  <2>1. \A x, y \in held : all[x] = all[y] => x = y
    BY <1>5 DEF Apart
  <2> HIDE DEF held
  <2> QED
    BY <1>8, <2>1, Images
<1>10. Cardinality({all[k] : k \in held}) <= Cardinality(S)
  <2>1. {all[k] : k \in held} \in SUBSET S
    OBVIOUS
  <2> HIDE DEF held
  <2> QED
    BY <2>1, FS_Subset
<1>11. among(all, S) \in Seq(AssetSet)
  BY <1>7
<1> QED
  BY <1>6, <1>7, <1>9, <1>10, <1>11

LEMMA ValueKeeps == ASSUME SearchAssumption, SearchInv, ValueAssets PROVE SearchInv'
<1> DEFINE lenders == among(search.checked, search.funded)
<1>1. PICK value \in [search.funded -> valuationOutcomes] :
       LET good(i) == {j \in 1 .. i : value[lenders[j]] = "ok"}
           tried == {lenders[i] : i \in {i \in DOMAIN lenders : Cardinality(good(i - 1)) < MaxAdmitted}}
           admitted == {a \in tried : value[a] = "ok"}
           funded == among(topology(among(lenders, admitted)), admitted) IN
       search' = [search EXCEPT !.pc = "quote", !.admitted = funded,
                    !.worksets = shareBudget(allWorksets(funded), IF eventWake THEN MaxEventRoutes ELSE MaxRoutes),
                    !.seen = @ \cup ({value[a] : a \in tried} \ {"ok"})]
  BY DEF ValueAssets
<1> DEFINE tried == Tried(lenders, value, MaxAdmitted)
           admitted == Admitted(lenders, value, MaxAdmitted)
           funded == among(topology(among(lenders, admitted)), admitted)
           said == {value[a] : a \in tried} \ {"ok"}
<1>2. IsSearch(search) /\ search.pc = "valuation" /\ search.block \in Nat /\ MaxAdmitted \in Nat
  BY DEF ValueAssets, SearchInv, Started, SearchAssumption
<1>3. lenders \in Seq(AssetSet) /\ lenders \in Seq(search.funded) /\ Apart(lenders)
  <2>1. search.checked \in Seq(AssetSet) /\ Apart(search.checked) /\ search.funded \subseteq AssetSet
    BY DEF SearchInv, FundingInv
  <2>2. lenders \in Seq(AssetSet \cap search.funded) /\ lenders \in Seq(AssetSet) /\ Apart(lenders)
    BY <2>1, Among
  <2> HIDE DEF lenders
  <2> QED
    BY <2>2
<1> HIDE DEF lenders
<1>4. tried \subseteq search.funded /\ IsFiniteSet(admitted) /\ Cardinality(admitted) <= MaxAdmitted /\ Cardinality(admitted) \in Nat
  BY <1>2, <1>3, AdmittedFew
<1>5. search' = [search EXCEPT !.pc = "quote", !.admitted = funded, !.worksets = shareBudget(allWorksets(funded), Budget),
                   !.seen = @ \cup said]
  BY <1>1 DEF Budget, Good, Tried, Admitted
<1> HIDE DEF tried, admitted
<1>6. said \subseteq Outcomes
  BY <1>4 DEF valuationOutcomes, Outcomes, Definite, Unavailable
<1>7. funded \in Seq(AssetSet) /\ Len(funded) <= MaxAdmitted
  <2>1. funded \in Seq(AssetSet) /\ Len(funded) <= Cardinality(admitted)
    BY <1>3, <1>4, AdmittedList
  <2> HIDE DEF funded
  <2> QED
    BY <1>2, <1>4, <2>1
<1> HIDE DEF said, funded
<1>8. LET given == shareBudget(allWorksets(funded), Budget) IN DOMAIN given = DOMAIN funded /\ \A i \in DOMAIN given : List(given[i])
  BY <1>2, <1>7, WorksetsShared
<1>9. allWorksets(funded) = AllOf(search.wake, search.block, funded) /\ Budget = BudgetOf(search.wake)
  BY WorksetsAre
<1>10. Started'
  BY <1>2, <1>5 DEF Started, SearchInv, IsSearch
<1>11. FundingInv'
  BY <1>2, <1>5 DEF FundingInv, SearchInv, Started, IsSearch
<1>12. WorksetInv'
  BY <1>2, <1>5, <1>7, <1>8, <1>9 DEF WorksetInv, IsSearch
<1>13. GainInv'
  BY <1>2, <1>5, <1>6 DEF GainInv, SearchInv, Started, IsSearch
<1>14. DecisionInv'
  BY <1>2, <1>5 DEF DecisionInv, SearchInv, Started, DecisionHonest, IsSearch
<1> QED
  BY <1>10, <1>11, <1>12, <1>13, <1>14 DEF SearchInv

LEMMA QuoteKeeps == ASSUME SearchAssumption, SearchInv, QuoteAsset PROVE SearchInv'
<1> DEFINE asset == search.admitted[search.lane]
           routes == routesAt(search.lane)
           lent == search.funds[asset]
           says == [c \in Market |-> [m \in lent |-> [f \in Failures |-> quotesOf(c, m, f)]]]
           yields == [c \in Market |-> \E m \in lent : \E p \in Coarse[m] : yield(c, p) > 0]
<1>1. PICK market \in [routes -> Market], fails \in [routes -> Failures] :
       LET quotes == [r \in routes |-> {says[market[r]][m][fails[r]] : m \in lent}] IN
       search' = [search EXCEPT !.lane = @ + 1, !.gain = @ \/ \E r \in routes : yields[market[r]],
                    !.positive = @ \cup UNION {{[asset |-> asset, route |-> r, quote |-> q] : q \in UNION {x.good : x \in quotes[r]}} : r \in routes},
                    !.seen = @ \cup UNION {x.seen : x \in UNION {quotes[r] : r \in routes}}]
  BY DEF QuoteAsset, Market
<1> DEFINE heard(r) == {says[market[r]][m][fails[r]] : m \in lent}
           goods(r) == UNION {x.good : x \in heard(r)}
           found(r) == {[asset |-> asset, route |-> r, quote |-> q] : q \in goods(r)}
           new == UNION {found(r) : r \in routes}
           said == UNION {x.seen : x \in UNION {heard(r) : r \in routes}}
           gained == \E r \in routes : yields[market[r]]
           gains == search.gain \/ gained
<1>2. search' = [search EXCEPT !.lane = @ + 1, !.gain = gains, !.positive = @ \cup new, !.seen = @ \cup said]
  <2> DEFINE quotes == [r \in routes |-> heard(r)]
             positive == UNION {{[asset |-> asset, route |-> r, quote |-> q] : q \in UNION {x.good : x \in quotes[r]}} : r \in routes}
             seen == UNION {x.seen : x \in UNION {quotes[r] : r \in routes}}
  <2>1. search' = [search EXCEPT !.lane = @ + 1, !.gain = gains, !.positive = @ \cup positive, !.seen = @ \cup seen]
    <3> HIDE DEF says, yields
    <3> QED
      BY <1>1, Zenon
  <2>2. \A r \in routes : quotes[r] = heard(r)
    OBVIOUS
  <2> HIDE DEF says, heard, quotes
  <2>3. positive = new
    BY <2>2
  <2>4. seen = said
    BY <2>2
  <2> HIDE DEF positive, new, seen, said, gains
  <2> QED
    BY <2>1, <2>3, <2>4
<1>3. IsSearch(search) /\ search.pc = "quote" /\ search.lane \in Nat \ {0} /\ search.lane <= Len(search.admitted) /\ search.gain \in BOOLEAN
  BY DEF QuoteAsset, SearchInv, Started
<1>4. asset \in AssetSet /\ search.lane \in DOMAIN search.worksets
  BY <1>3 DEF SearchInv, WorksetInv
<1>5. IsFiniteSet(routes)
  <2>1. List(search.worksets[search.lane])
    BY <1>4 DEF SearchInv, WorksetInv
  <2> QED
    BY <2>1, Lists DEF routesAt
<1>6. lent \subseteq DOMAIN Balance /\ IsFiniteSet(lent)
  <2>1. lent \subseteq DOMAIN Balance
    BY <1>4 DEF SearchInv, FundingInv
  <2>2. lent \in SUBSET ({"flash"} \cup {"inventory"})
    BY <2>1 DEF SearchAssumption
  <2>3. IsFiniteSet({"flash"} \cup {"inventory"})
    BY FS_Singleton, FS_AddElement
  <2> HIDE DEF lent
  <2> QED
    BY <2>1, <2>2, <2>3, FS_Subset
<1> HIDE DEF asset, lent, routes
<1>7. ASSUME NEW r \in routes, NEW m \in lent
      PROVE  LET x == says[market[r]][m][fails[r]] IN
             /\ IsFiniteSet(x.good) /\ x.good \subseteq Quote /\ x.seen \subseteq Outcomes
             /\ (\E p \in Coarse[m] : yield(market[r], p) > 0) => x.good # {} \/ "RPC_ERROR" \in x.seen
  <2>1. says[market[r]][m][fails[r]] = quotesOf(market[r], m, fails[r])
    OBVIOUS
  <2>2. market[r] \in Market /\ fails[r] \in Failures /\ m \in DOMAIN Balance
    BY <1>6
  <2> HIDE DEF says
  <2> QED
    BY <2>1, <2>2, QuotesAre DEF Outcomes
<1> HIDE DEF says
<1>8. ASSUME NEW r \in routes
      PROVE  IsFiniteSet(goods(r)) /\ goods(r) \subseteq Quote
  <2> DEFINE h == [m \in lent |-> says[market[r]][m][fails[r]].good]
  <2>1. goods(r) = UNION {h[m] : m \in lent} /\ \A m \in lent : IsFiniteSet(h[m]) /\ h[m] \subseteq Quote
    BY <1>7
  <2> HIDE DEF h
  <2>2. IsFiniteSet({h[m] : m \in lent}) /\ \A T \in {h[m] : m \in lent} : IsFiniteSet(T) /\ T \subseteq Quote
    BY ZenonT(40), <1>6, <2>1, Images
  <2>3. IsFiniteSet(UNION {h[m] : m \in lent}) /\ UNION {h[m] : m \in lent} \subseteq Quote
    BY <2>2, FS_UNION
  <2> HIDE DEF goods
  <2> QED
    BY <2>1, <2>3
<1>9. said \subseteq Outcomes
  <2> HIDE DEF Outcomes
  <2> QED
    BY <1>7
<1>10. ASSUME gained PROVE new # {} \/ said \cap Unavailable # {}
  <2>1. PICK r \in routes : yields[market[r]]
    BY <1>10
  <2>2. market[r] \in Market
    OBVIOUS
  <2>3. PICK m \in lent : \E p \in Coarse[m] : yield(market[r], p) > 0
    BY <2>1, <2>2
  <2> DEFINE x == says[market[r]][m][fails[r]]
  <2>4. x.good # {} \/ "RPC_ERROR" \in x.seen
    BY <1>7, <2>3
  <2>5. x \in heard(r)
    OBVIOUS
  <2>6. x.seen \subseteq said
    BY <2>5
  <2>7. CASE x.good # {}
    <3>1. PICK q \in x.good : TRUE
      BY <2>7
    <3>2. q \in goods(r)
      BY <2>5, <3>1
    <3> HIDE DEF goods
    <3>3. [asset |-> asset, route |-> r, quote |-> q] \in found(r)
      BY <3>2
    <3>4. found(r) \subseteq new
      OBVIOUS
    <3> HIDE DEF found, new
    <3> QED
      BY <3>3, <3>4
  <2> HIDE DEF x, said
  <2> QED
    BY <2>4, <2>6, <2>7 DEF Unavailable
<1> HIDE DEF goods
<1>11. IsPositive(new)
  <2> DEFINE h == [r \in routes |-> found(r)]
  <2>1. ASSUME NEW r \in routes PROVE IsFiniteSet(found(r))
    <3> DEFINE g == [q \in goods(r) |-> [asset |-> asset, route |-> r, quote |-> q]]
    <3>1. found(r) = {g[q] : q \in goods(r)}
      OBVIOUS
    <3>2. IsFiniteSet(goods(r))
      BY <1>8
    <3> HIDE DEF g, found
    <3>3. IsFiniteSet({g[q] : q \in goods(r)})
      BY <3>2, Images
    <3> QED
      BY <3>1, <3>3
  <2>2. \A c \in new : c.asset \in AssetSet /\ c.quote \in Quote
    BY <1>4, <1>8
  <2>3. new = UNION {h[r] : r \in routes} /\ \A r \in routes : IsFiniteSet(h[r])
    BY <2>1
  <2> HIDE DEF h, new
  <2>4. IsFiniteSet({h[r] : r \in routes}) /\ \A T \in {h[r] : r \in routes} : IsFiniteSet(T)
    BY <1>5, <2>3, Images
  <2> QED
    BY <2>2, <2>3, <2>4, FS_UNION DEF IsPositive
<1>13. gains \in BOOLEAN /\ (gains => search.gain \/ gained)
  BY <1>3
<1> HIDE DEF new, said, gained, gains
<1>12. IsPositive(search.positive \cup new)
  BY <1>11, FS_Union DEF IsPositive, SearchInv, GainInv
<1>14. Started'
  <2>1. IsSearch(search')
    BY <1>2, <1>3 DEF IsSearch
  <2>2. /\ search'.block = search.block /\ search'.pc = search.pc
        /\ search'.lane = search.lane + 1 /\ search'.gain = gains
    BY <1>2, <1>3 DEF IsSearch
  <2>3. search.block \in Nat
    BY DEF SearchInv, Started
  <2> QED
    BY <1>3, <1>13, <2>1, <2>2, <2>3 DEF Started, IsSearch
<1>15. FundingInv'
  BY <1>2, <1>3 DEF FundingInv, SearchInv, Started, IsSearch
<1>16. WorksetInv'
  BY <1>2, <1>3 DEF WorksetInv, SearchInv, Started, IsSearch
<1>17. GainInv'
  BY <1>2, <1>3, <1>9, <1>10, <1>12, <1>13 DEF GainInv, SearchInv, Started, IsSearch
<1>18. DecisionInv'
  BY <1>2, <1>3 DEF DecisionInv, SearchInv, Started, DecisionHonest, IsSearch
<1> QED
  BY <1>14, <1>15, <1>16, <1>17, <1>18 DEF SearchInv

LEMMA SelectKeeps == ASSUME SearchAssumption, SearchInv, SelectCandidates PROVE SearchInv'
<1> DEFINE managed == selectBoundedManagedCandidates
<1>1. /\ IsSearch(search) /\ search.pc = "quote"
      /\ search' = [search EXCEPT !.pc = "exact", !.positive = {}, !.managed = managed, !.left = managed]
  BY DEF SelectCandidates, SearchInv, Started
<1>2. Cardinality(managed) <= MaxManaged /\ (search.positive # {} => managed # {})
  BY ManagedAre DEF SearchInv, GainInv
<1>3. IsPositive({})
  BY FS_EmptySet DEF IsPositive
<1> HIDE DEF managed
<1>4. Started'
  BY <1>1 DEF Started, SearchInv, IsSearch
<1>5. FundingInv'
  BY <1>1 DEF FundingInv, SearchInv, Started, IsSearch
<1>6. WorksetInv'
  BY <1>1 DEF WorksetInv, SearchInv, Started, IsSearch
<1>7. GainInv'
  BY <1>1, <1>2, <1>3 DEF GainInv, SearchInv, Started, IsSearch
<1>8. DecisionInv'
  BY <1>1 DEF DecisionInv, SearchInv, Started, DecisionHonest, IsSearch
<1> QED
  BY <1>4, <1>5, <1>6, <1>7, <1>8 DEF SearchInv

LEMMA ExactKeeps == ASSUME SearchInv, NEW c, NEW curve, NEW read, EvaluateExact(c, curve, read) PROVE SearchInv'
<1> DEFINE delta == yield(curve, c.quote.principal)
           outcome == exactNetEvaluation(delta, read)
           exact == IF outcome = "PROFITABLE" THEN search.exact \cup {[candidate |-> c, delta |-> delta]} ELSE search.exact
<1>1. /\ IsSearch(search) /\ search.pc = "exact"
      /\ search' = [search EXCEPT !.left = @ \ {c}, !.exactSeen = @ \cup {outcome}, !.exact = exact]
  BY DEF EvaluateExact, SearchInv, Started
<1>2. outcome \in Outcomes
  BY DEF exactNetEvaluation, Outcomes, Definite, Unavailable
<1> HIDE DEF delta, outcome, exact
<1>3. Started'
  BY <1>1 DEF Started, SearchInv, IsSearch
<1>4. FundingInv'
  BY <1>1 DEF FundingInv, SearchInv, Started, IsSearch
<1>5. WorksetInv'
  BY <1>1 DEF WorksetInv, SearchInv, Started, IsSearch
<1>6. GainInv'
  BY <1>1, <1>2 DEF GainInv, SearchInv, Started, IsSearch
<1>7. DecisionInv'
  BY <1>1 DEF DecisionInv, SearchInv, Started, DecisionHonest, IsSearch
<1> QED
  BY <1>3, <1>4, <1>5, <1>6, <1>7 DEF SearchInv

LEMMA DecideKeeps == ASSUME SearchInv, Decide PROVE SearchInv'
<1> DEFINE covered == IF fundingBlocked \/ evaluationIncomplete THEN "PARTIAL" ELSE coverageOf(evaluated)
<1>1. PICK selected : search' = [search EXCEPT !.pc = "decided", !.status = readiness, !.coverage = covered, !.selected = selected]
  BY DEF Decide, decides
<1>2. IsSearch(search) /\ search.pc = "exact"
  BY DEF Decide, SearchInv, Started
<1>3. covered \in {"EMPTY", "COMPLETE", "PARTIAL", "UNAVAILABLE"}
  BY DEF coverageOf
<1>4. readiness = "NO_EXECUTABLE_FUNDING" => search.funded = {} /\ search.sure
  BY DEF readiness, fundingBlocked
<1>5. ASSUME readiness = "NO_EXACT_NET_OPPORTUNITY", covered = "COMPLETE", search.managed = {}
      PROVE  search.complete /\ search.seen \cap Unavailable = {}
  <2>1. search.exact = {} /\ ~fundingBlocked /\ ~evaluationIncomplete
    BY <1>5 DEF readiness
  <2>2. search.complete
    BY <2>1 DEF evaluationIncomplete
  <2>3. coverageOf(search.seen) = "COMPLETE"
    BY <1>5, <2>1 DEF evaluated
  <2> QED
    BY <2>2, <2>3 DEF coverageOf
<1> HIDE DEF covered
<1>6. Started'
  BY <1>1, <1>2 DEF Started, SearchInv, IsSearch
<1>7. FundingInv'
  BY <1>1, <1>2 DEF FundingInv, SearchInv, Started, IsSearch
<1>8. WorksetInv'
  BY <1>1, <1>2 DEF WorksetInv, SearchInv, Started, IsSearch
<1>9. GainInv'
  BY <1>1, <1>2 DEF GainInv, SearchInv, Started, IsSearch
<1>10. DecisionInv'
  <2>1. search'.funds = search.funds /\ search'.complete = search.complete /\ search'.gain = search.gain /\ search'.managed = search.managed
        /\ search'.status = readiness /\ search'.coverage = covered /\ search'.pc = "decided"
    BY <1>1, <1>2 DEF IsSearch
  <2>2. readiness = "NO_EXECUTABLE_FUNDING" => \A a \in AssetSet : search.funds[a] = {}
    BY <1>4 DEF SearchInv, FundingInv
  <2>3. readiness = "NO_EXACT_NET_OPPORTUNITY" /\ covered = "COMPLETE" /\ search.managed = {} => search.complete /\ ~search.gain
    BY <1>2, <1>5 DEF SearchInv, GainInv
  <2> QED
    BY <1>3, <2>1, <2>2, <2>3 DEF DecisionInv, DecisionHonest
<1> QED
  BY <1>6, <1>7, <1>8, <1>9, <1>10 DEF SearchInv

LEMMA RebuildKeeps == ASSUME SearchInv, NEW available, Rebuild(available) PROVE SearchInv'
<1>1. PICK pc \in {"rebuilt", "refused"} : search' = [search EXCEPT !.pc = pc]
  BY DEF Rebuild
<1>2. IsSearch(search) /\ search.pc = "decided"
  BY DEF Rebuild, SearchInv, Started
<1>3. Started'
  BY <1>1, <1>2 DEF Started, SearchInv, IsSearch
<1>4. FundingInv'
  BY <1>1, <1>2 DEF FundingInv, SearchInv, Started, IsSearch
<1>5. WorksetInv'
  BY <1>1, <1>2 DEF WorksetInv, SearchInv, Started, IsSearch
<1>6. GainInv'
  BY <1>1, <1>2 DEF GainInv, SearchInv, Started, IsSearch
<1>7. DecisionInv'
  BY <1>1, <1>2 DEF DecisionInv, SearchInv, Started, DecisionHonest, IsSearch
<1> QED
  BY <1>3, <1>4, <1>5, <1>6, <1>7 DEF SearchInv

LEMMA SearchKeeps == ASSUME SearchAssumption, SearchInv, [SearchNext]_searchVars PROVE SearchInv'
<1>1. CASE \/ UNCHANGED searchVars
           \/ \E state \in {"complete", "partial", "stale"} : PublishCatalog(state)
  BY <1>1, SearchStays DEF searchVars, PublishCatalog
<1>2. CASE \E wake \in Wakes : \E block \in (IF wake = {} THEN 0 .. 1 ELSE {0}) : StartSearch(wake, block)
  <2>1. PICK wake \in Wakes : \E block \in (IF wake = {} THEN 0 .. 1 ELSE {0}) : StartSearch(wake, block)
    BY <1>2
  <2>2. PICK block \in Nat : StartSearch(wake, block)
    BY <2>1
  <2> QED
    BY <2>2, StartKeeps
<1>3. CASE LoadGraph \/ ReadFunding \/ ValueAssets \/ QuoteAsset \/ SelectCandidates \/ Decide
  BY <1>3, LoadKeeps, FundingKeeps, ValueKeeps, QuoteKeeps, SelectKeeps, DecideKeeps
<1>4. CASE \E c \in search.left, curve \in Curve, read \in {"ok", "lost", "reverts"} : EvaluateExact(c, curve, read)
  BY <1>4, ExactKeeps
<1>5. CASE \E available \in {Balance[m] : m \in DOMAIN Balance} : Rebuild(available)
  BY <1>5, RebuildKeeps
<1> QED
  BY <1>1, <1>2, <1>3, <1>4, <1>5 DEF SearchNext

LEMMA SearchFollows == ASSUME SearchAssumption, SearchInv PROVE BudgetShared /\ DecisionHonest /\ SearchTypeOK
<1>1. ASSUME search.pc = "quote", search.lane = 1 PROVE search.worksets = shareBudget(allWorksets(search.admitted), Budget)
  <2>1. search.worksets = shareBudget(AllOf(search.wake, search.block, search.admitted), BudgetOf(search.wake))
    BY <1>1 DEF SearchInv, WorksetInv
  <2>2. allWorksets(search.admitted) = AllOf(search.wake, search.block, search.admitted) /\ Budget = BudgetOf(search.wake)
    BY WorksetsAre
  <2> QED
    BY <2>1, <2>2
<1>2. search.admitted \in Seq(AssetSet) /\ search.block \in Nat
  BY DEF SearchInv, WorksetInv, Started
<1>3. BudgetShared
  BY <1>1, <1>2, WorksetsShared DEF BudgetShared, Budget
<1>4. SearchTypeOK
  BY DEF SearchInv, GainInv, WorksetInv, DecisionInv, SearchTypeOK, Outcomes
<1> QED
  BY <1>3, <1>4 DEF SearchInv, DecisionInv

(* Whatever its reads answer or lose, a search shares the routes of a wake among *)
(* the assets, and its decision is borne out: funding that is said to be missing *)
(* is missing, and where complete evidence is said to leave no opportunity, no   *)
(* amount of any route would have yielded anything.                              *)
THEOREM SearchDecides == ASSUME SearchAssumption PROVE SearchSpec => [](BudgetShared /\ DecisionHonest /\ SearchTypeOK)
<1>1. SearchInit => SearchInv
  BY SearchBegins
<1>2. SearchInv /\ [SearchNext]_searchVars => SearchInv'
  BY SearchKeeps
<1>3. SearchInv => BudgetShared /\ DecisionHonest /\ SearchTypeOK
  BY SearchFollows
<1> QED
  BY <1>1, <1>2, <1>3, PTL DEF SearchSpec

================================================================================
