------------------------------ MODULE ShotProofs -------------------------------
(* The Earn lane, for any pools, routes, gas costs and bounds: it stays         *)
(* net-positive over its life, and a route that reverted is shot again only     *)
(* after a wake that names one of its pools and holds something new.            *)
EXTENDS EarnShot, FiniteSetTheorems, SequenceTheorems, WellFoundedInduction, TLAPS

--------------------------------------------------------------------------------
(* Sums.  A fold takes the elements of a set in one order; that the order does  *)
(* not matter follows by the least number of elements for which it would.       *)

LEMMA Least ==
  ASSUME NEW S \in SUBSET Nat, S # {}
  PROVE  \E m \in S : \A k \in S : m <= k
<1> DEFINE R == OpToRel(<, Nat)
<1>1. IsWellFoundedOn(R, Nat)
  BY NatLessThanWellFounded
<1>2. \A x, y \in Nat : x < y => <<x, y>> \in R
  BY Zenon DEF OpToRel
<1> HIDE DEF R
<1>3. PICK x \in S : \A y \in S : ~(<<y, x>> \in R)
  BY <1>1, WFMin
<1>4. ASSUME NEW k \in S PROVE x <= k
  <2>1. ~(k < x)
    BY <1>2, <1>3
  <2> QED
    BY <2>1
<1> QED
  BY <1>4

one(s) == CHOOSE x \in s : TRUE
Folds(g, w, S) == g = [s \in SUBSET S |-> IF s = {} THEN 0 ELSE w[one(s)] + g[s \ {one(s)}]]

(* Numbers over a finite set, and a fold of them. *)
Ints(w, S) == IsFiniteSet(S) /\ \A i \in S : w[i] \in Int
Folding(g, w, S) == Ints(w, S) /\ g \in [SUBSET S -> Int] /\ Folds(g, w, S)

LEMMA OneIn == ASSUME NEW s, s # {} PROVE one(s) \in s
  BY DEF one

LEMMA Smaller ==
  ASSUME NEW S, NEW s \in SUBSET S, NEW x \in s, IsFiniteSet(S)
  PROVE  s \ {x} \in SUBSET S /\ Cardinality(s \ {x}) = Cardinality(s) - 1 /\ Cardinality(s) \in Nat \ {0}
         /\ Cardinality(s \ {x}) \in Nat
<1>1. IsFiniteSet(s)
  BY FS_Subset
<1>2. Cardinality(s) \in Nat /\ Cardinality(s) # 0
  BY <1>1, FS_CardinalityType, FS_EmptySet
<1>3. Cardinality(s \ {x}) = Cardinality(s) - 1
  BY <1>1, FS_RemoveElement
<1> QED
  BY <1>2, <1>3

(* There is a fold of any numbers over a finite set. *)
LEMMA FoldExists ==
  ASSUME NEW S, NEW w, Ints(w, S)
  PROVE  \E g : Folding(g, w, S)
<1> USE DEF Ints
<1> DEFINE UpTo(n) == {s \in SUBSET S : Cardinality(s) <= n}
           Partial(g, n) == \A s \in UpTo(n) : g[s] = IF s = {} THEN 0 ELSE w[one(s)] + g[s \ {one(s)}]
           Bad == {n \in Nat : ~ \E g \in [UpTo(n) -> Int] : Partial(g, n)}
<1>1. \A s \in SUBSET S : Cardinality(s) \in Nat
  BY FS_Subset, FS_CardinalityType
<1>2. Bad = {}
  <2> SUFFICES ASSUME Bad # {} PROVE FALSE
    OBVIOUS
  <2>1. PICK m \in Bad : \A k \in Bad : m <= k
    <3>1. Bad \in SUBSET Nat
      OBVIOUS
    <3> HIDE DEF Bad
    <3> QED
      BY <3>1, Least
  <2>2. CASE m = 0
    <3>1. \A s \in UpTo(0) : s = {}
      <4>1. ASSUME NEW s \in SUBSET S, Cardinality(s) <= 0 PROVE s = {}
        <5>1. IsFiniteSet(s) /\ Cardinality(s) = 0
          BY <1>1, <4>1, FS_Subset
        <5> QED
          BY <5>1, FS_EmptySet
      <4> QED
        BY <4>1
    <3> DEFINE g == [s \in UpTo(0) |-> 0]
    <3>2. g \in [UpTo(0) -> Int] /\ Partial(g, 0)
      BY <3>1
    <3> HIDE DEF g, Partial, UpTo
    <3> QED
      BY <2>1, <2>2, <3>2
  <2>3. CASE m # 0
    <3>1. m \in Nat /\ m - 1 \in Nat /\ m - 1 \notin Bad
      <4>1. m \in Nat
        OBVIOUS
      <4> HIDE DEF Bad
      <4> QED
        BY <2>1, <2>3, <4>1
    <3>2. PICK g \in [UpTo(m - 1) -> Int] : Partial(g, m - 1)
      BY <3>1
    <3> DEFINE h == [s \in UpTo(m) |-> IF s = {} THEN 0 ELSE w[one(s)] + g[s \ {one(s)}]]
    <3>3. ASSUME NEW s \in UpTo(m), s # {}
          PROVE  one(s) \in S /\ s \ {one(s)} \in UpTo(m - 1) /\ s \ {one(s)} \in UpTo(m)
      <4>1. one(s) \in s
        BY <3>3, OneIn
      <4> QED
        BY <3>1, <4>1, Smaller
    <3>4. h \in [UpTo(m) -> Int]
      <4>1. ASSUME NEW s \in UpTo(m), s # {} PROVE w[one(s)] + g[s \ {one(s)}] \in Int
        <5>1. w[one(s)] \in Int /\ g[s \ {one(s)}] \in Int
          BY <3>2, <3>3, <4>1
        <5> QED
          BY <5>1
      <4> QED
        BY <4>1
    <3>5. \A s \in UpTo(m - 1) : s \in UpTo(m) /\ h[s] = g[s]
      BY <1>1, <3>1, <3>2
    <3>6. Partial(h, m)
      <4> SUFFICES ASSUME NEW s \in UpTo(m) PROVE h[s] = IF s = {} THEN 0 ELSE w[one(s)] + h[s \ {one(s)}]
        OBVIOUS
      <4> QED
        BY <3>3, <3>5
    <3> HIDE DEF h, Partial, UpTo
    <3> QED
      BY <2>1, <3>4, <3>6
  <2> QED
    BY <2>2, <2>3
<1> DEFINE n == Cardinality(S)
<1>3. n \in Nat /\ UpTo(n) = SUBSET S
  <2>1. \A s \in SUBSET S : Cardinality(s) <= n
    BY FS_Subset
  <2> QED
    BY <2>1, FS_CardinalityType
<1>4. PICK g \in [UpTo(n) -> Int] : Partial(g, n)
  BY <1>2, <1>3
<1> QED
  BY <1>3, <1>4 DEF Folds, Folding

(* Folds of numbers that agree are the same. *)
LEMMA FoldsAgree ==
  ASSUME NEW S, NEW w, NEW g, NEW T, NEW v, NEW h, NEW t \in SUBSET (S \intersect T),
         Folding(g, w, S), Folds(h, v, T), \A i \in t : w[i] = v[i]
  PROVE  g[t] = h[t]
<1> USE DEF Folding, Ints
<1> DEFINE Bad == {n \in Nat : \E s \in SUBSET t : Cardinality(s) = n /\ g[s] # h[s]}
<1>1. \A s \in SUBSET t : Cardinality(s) \in Nat
  BY FS_Subset, FS_CardinalityType
<1>2. CASE Bad # {}
  <2>1. PICK m \in Bad : \A k \in Bad : m <= k
    <3>1. Bad \in SUBSET Nat
      OBVIOUS
    <3> HIDE DEF Bad
    <3> QED
      BY <1>2, <3>1, Least
  <2>2. PICK s \in SUBSET t : Cardinality(s) = m /\ g[s] # h[s]
    BY <2>1
  <2>3. s # {}
    BY <2>2 DEF Folds
  <2>4. one(s) \in s /\ s \ {one(s)} \in SUBSET t /\ s \in SUBSET S /\ s \in SUBSET T
    BY <2>3, OneIn
  <2>5. Cardinality(s \ {one(s)}) = m - 1 /\ m - 1 \in Nat
    BY <2>2, <2>4, Smaller
  <2>6. g[s \ {one(s)}] = h[s \ {one(s)}]
    BY <2>1, <2>4, <2>5
  <2>7. g[s] = w[one(s)] + g[s \ {one(s)}] /\ h[s] = v[one(s)] + h[s \ {one(s)}]
    BY <2>3, <2>4 DEF Folds
  <2> QED
    BY <2>2, <2>4, <2>6, <2>7
<1>3. CASE Bad = {}
  BY <1>1, <1>3
<1> QED
  BY <1>2, <1>3

LEMMA OneFold ==
  ASSUME NEW S, NEW w, NEW g, NEW h, Folding(g, w, S), Folds(h, w, S)
  PROVE  g[S] = h[S]
<1>1. S \in SUBSET (S \intersect S)
  OBVIOUS
<1> QED
  BY <1>1, FoldsAgree

(* Any element may be taken first. *)
LEMMA FoldTakes ==
  ASSUME NEW S, NEW w, NEW g, NEW s \in SUBSET S, NEW x \in s, Folding(g, w, S)
  PROVE  g[s] = w[x] + g[s \ {x}]
<1> USE DEF Folding, Ints
<1> DEFINE Bad == {n \in Nat : \E t \in SUBSET S : Cardinality(t) = n /\ \E y \in t : g[t] # w[y] + g[t \ {y}]}
<1>1. \A t \in SUBSET S : Cardinality(t) \in Nat
  BY FS_Subset, FS_CardinalityType
<1>2. CASE Bad # {}
  <2>1. PICK m \in Bad : \A k \in Bad : m <= k
    <3>1. Bad \in SUBSET Nat
      OBVIOUS
    <3> HIDE DEF Bad
    <3> QED
      BY <1>2, <3>1, Least
  <2>2. PICK t \in SUBSET S : Cardinality(t) = m /\ \E y \in t : g[t] # w[y] + g[t \ {y}]
    BY <2>1
  <2>3. PICK y \in t : g[t] # w[y] + g[t \ {y}]
    BY <2>2
  <2>4. one(t) \in t /\ g[t] = w[one(t)] + g[t \ {one(t)}]
    <3>1. one(t) \in t
      BY <2>3, OneIn
    <3> QED
      BY <3>1 DEF Folds
  <2>5. one(t) # y
    BY <2>3, <2>4
  <2>6. Cardinality(t \ {one(t)}) \in Nat /\ Cardinality(t \ {y}) \in Nat
        /\ Cardinality(t \ {one(t)}) < m /\ Cardinality(t \ {y}) < m
    BY <2>2, <2>4, Smaller
  <2>0. m \in Nat
    OBVIOUS
  <2>20. \A k \in Nat : k < m => k \notin Bad
    <3> HIDE DEF Bad
    <3> QED
      BY <2>0, <2>1
  <2>7. g[t \ {one(t)}] = w[y] + g[(t \ {one(t)}) \ {y}]
    <3>1. Cardinality(t \ {one(t)}) \notin Bad
      BY <2>6, <2>20
    <3>2. t \ {one(t)} \in SUBSET S /\ y \in t \ {one(t)}
      BY <2>5
    <3> QED
      BY <2>6, <3>1, <3>2
  <2>8. g[t \ {y}] = w[one(t)] + g[(t \ {y}) \ {one(t)}]
    <3>1. Cardinality(t \ {y}) \notin Bad
      BY <2>6, <2>20
    <3>2. t \ {y} \in SUBSET S /\ one(t) \in t \ {y}
      BY <2>4, <2>5
    <3> QED
      BY <2>6, <3>1, <3>2
  <2>9. (t \ {one(t)}) \ {y} = (t \ {y}) \ {one(t)}
    OBVIOUS
  <2>10. w[y] \in Int /\ w[one(t)] \in Int /\ g[(t \ {y}) \ {one(t)}] \in Int
    <3>1. y \in S /\ one(t) \in S /\ (t \ {y}) \ {one(t)} \in SUBSET S
      BY <2>4
    <3> QED
      BY <3>1
  <2> DEFINE a == w[y]
             b == w[one(t)]
             c == g[(t \ {y}) \ {one(t)}]
  <2>11. g[t] = b + (a + c) /\ w[y] + g[t \ {y}] = a + (b + c)
    BY <2>4, <2>7, <2>8, <2>9
  <2>12. a \in Int /\ b \in Int /\ c \in Int
    BY <2>10
  <2> HIDE DEF a, b, c
  <2> QED
    BY <2>3, <2>11, <2>12
<1>3. CASE Bad = {}
  BY <1>1, <1>3
<1> QED
  BY <1>2, <1>3

(* The sum of numbers over a finite set, and what the proofs know of it.        *)
Sum(w, S) == (CHOOSE g : Folds(g, w, S))[S]

LEMMA SumFold ==
  ASSUME NEW S, NEW w, Ints(w, S)
  PROVE  \E g : Folding(g, w, S) /\ Sum(w, S) = g[S]
<1>1. PICK g : Folding(g, w, S)
  BY FoldExists
<1> DEFINE h == CHOOSE h : Folds(h, w, S)
<1>2. Folds(h, w, S)
  BY <1>1 DEF Folding
<1> HIDE DEF h
<1>3. g[S] = h[S]
  BY <1>1, <1>2, OneFold
<1>4. Sum(w, S) = h[S]
  BY DEF Sum, h
<1> QED
  BY <1>1, <1>3, <1>4

LEMMA SumInt == ASSUME NEW S, NEW w, Ints(w, S) PROVE Sum(w, S) \in Int
<1>1. PICK g : Folding(g, w, S) /\ Sum(w, S) = g[S]
  BY SumFold
<1>2. S \in SUBSET S
  OBVIOUS
<1> QED
  BY <1>1, <1>2 DEF Folding

LEMMA SumEmpty == ASSUME NEW w PROVE Sum(w, {}) = 0
<1>1. Ints(w, {})
  BY FS_EmptySet DEF Ints
<1>2. PICK g : Folding(g, w, {}) /\ Sum(w, {}) = g[{}]
  BY <1>1, SumFold
<1> QED
  BY <1>2 DEF Folds, Folding

(* The sum depends on the numbers it takes only. *)
LEMMA SumSame ==
  ASSUME NEW S, NEW w, NEW v, Ints(w, S), \A i \in S : w[i] = v[i]
  PROVE  Sum(w, S) = Sum(v, S)
<1>1. Ints(v, S)
  BY DEF Ints
<1>2. PICK g : Folding(g, w, S) /\ Sum(w, S) = g[S]
  BY SumFold
<1>3. PICK h : Folding(h, v, S) /\ Sum(v, S) = h[S]
  BY <1>1, SumFold
<1>4. S \in SUBSET (S \intersect S)
  OBVIOUS
<1>5. g[S] = h[S]
  BY <1>2, <1>3, <1>4, FoldsAgree DEF Folding
<1> QED
  BY <1>2, <1>3, <1>5

LEMMA SumTakes ==
  ASSUME NEW S, NEW w, NEW x \in S, Ints(w, S)
  PROVE  Sum(w, S) = w[x] + Sum(w, S \ {x})
<1>1. PICK g : Folding(g, w, S) /\ Sum(w, S) = g[S]
  BY SumFold
<1>2. Ints(w, S \ {x})
  BY FS_Subset DEF Ints
<1>3. PICK h : Folding(h, w, S \ {x}) /\ Sum(w, S \ {x}) = h[S \ {x}]
  BY <1>2, SumFold
<1>4. g[S \ {x}] = h[S \ {x}]
  <2> DEFINE t == S \ {x}
  <2>1. t \in SUBSET (S \intersect t)
    OBVIOUS
  <2>2. Folding(g, w, S) /\ Folds(h, w, t)
    BY <1>1, <1>3 DEF Folding
  <2> HIDE DEF t
  <2>3. ASSUME NEW u \in SUBSET (S \intersect t) PROVE g[u] = h[u]
    BY <2>2, FoldsAgree
  <2> QED
    BY <2>1, <2>3 DEF t
<1>5. g[S] = w[x] + g[S \ {x}]
  BY <1>1, FoldTakes
<1> QED
  BY <1>1, <1>3, <1>4, <1>5

LEMMA SumAdds ==
  ASSUME NEW S, NEW x, NEW w, Ints(w, S), x \notin S, w[x] \in Int
  PROVE  Ints(w, S \union {x}) /\ Sum(w, S \union {x}) = Sum(w, S) + w[x]
<1>1. Ints(w, S \union {x}) /\ (S \union {x}) \ {x} = S
  BY FS_AddElement DEF Ints
<1>2. Sum(w, S \union {x}) = w[x] + Sum(w, (S \union {x}) \ {x})
  BY <1>1, SumTakes
<1>3. Sum(w, S \union {x}) = w[x] + Sum(w, S)
  BY <1>1, <1>2
<1>4. Sum(w, S) \in Int
  BY SumInt
<1> QED
  BY <1>1, <1>3, <1>4

(* Elements that count for nothing. *)
LEMMA SumZeros ==
  ASSUME NEW S, NEW w, NEW R \in SUBSET S, Ints(w, S), \A i \in S \ R : w[i] = 0
  PROVE  Ints(w, R) /\ Sum(w, S) = Sum(w, R)
<1> DEFINE Bad == {n \in Nat : \E s \in SUBSET S : R \subseteq s /\ Cardinality(s) = n /\ Sum(w, s) # Sum(w, R)}
<1>1. \A s \in SUBSET S : Ints(w, s) /\ Cardinality(s) \in Nat
  BY FS_Subset, FS_CardinalityType DEF Ints
<1>2. CASE Bad # {}
  <2>1. PICK m \in Bad : \A k \in Bad : m <= k
    <3>1. Bad \in SUBSET Nat
      OBVIOUS
    <3> HIDE DEF Bad
    <3> QED
      BY <1>2, <3>1, Least
  <2>2. PICK s \in SUBSET S : R \subseteq s /\ Cardinality(s) = m /\ Sum(w, s) # Sum(w, R)
    BY <2>1
  <2>3. PICK x \in s : x \notin R
    BY <2>2
  <2>4. s \ {x} \in SUBSET S /\ R \subseteq s \ {x} /\ Cardinality(s \ {x}) \in Nat /\ Cardinality(s \ {x}) < m
    BY <2>2, <2>3, Smaller DEF Ints
  <2>5. Sum(w, s \ {x}) = Sum(w, R)
    BY <2>1, <2>4
  <2>6. Sum(w, s) = w[x] + Sum(w, s \ {x}) /\ w[x] = 0
    BY <1>1, <2>3, SumTakes
  <2>7. Sum(w, s \ {x}) \in Int
    BY <1>1, <2>4, SumInt
  <2> QED
    BY <2>2, <2>5, <2>6, <2>7
<1>3. CASE Bad = {}
  BY <1>1, <1>3
<1> QED
  BY <1>2, <1>3

--------------------------------------------------------------------------------
(* The audits.  Nothing counts in the surplus that is not on the chain, and at  *)
(* most the last transaction is unresolved, of the authorization that is armed. *)
Shot == [route : Route, cap : Nat \ {0}, auth : Nat, journaled : BOOLEAN, chain : {"held", "sent", "mined"},
         net : Int, block : Nat, local : Nat, at : Nat, shared : BOOLEAN]

(* What is so of a transaction in the audits. *)
Kept(x) ==
  /\ x.shared => x.journaled /\ x.local > 0
  /\ x.local > 0 => x.chain = "mined"
  /\ x.chain # "held" => x.journaled
  /\ x.chain = "mined" => x.net >= -x.cap

ShotsInv ==
  /\ shots \in Seq(Shot)
  /\ \A i \in Shots :
       /\ Kept(shots[i]) /\ shots[i].auth <= arm.id
       /\ shots[i].journaled /\ ~shots[i].shared => i = last /\ shots[i].auth = arm.id

(* The child is of the armed authorization.  None starts while something is     *)
(* unresolved, and until it signs nothing is; what it signs is the last.        *)
Pcs == {"idle", "start", "exact", "ready", "signed", "journaled", "sent", "recorded", "reconcile"}
ChildInv ==
  /\ arm \in [id : Nat, initial : Int, live : BOOLEAN]
  /\ child \in [pc : Pcs, auth : Nat, excluded : SUBSET Route, route : SUBSET Route, cap : Nat]
  /\ child.pc # "idle" => child.auth = arm.id
  /\ child.pc \in {"exact", "ready", "signed", "journaled"} => \E r \in Route : child.route = {r}
  /\ child.pc \in {"ready", "signed", "journaled"} => child.cap # 0
  /\ child.pc \in {"start", "exact", "ready", "signed"} => unresolved = {}
  /\ child.pc \in {"journaled", "sent", "reconcile", "recorded"} => unresolved = {last}
  /\ child.pc \in {"signed", "journaled"} =>
       last \in Shots /\ shots[last].chain = "held" /\ shots[last].cap = child.cap /\ shots[last].auth = arm.id
  /\ child.pc = "recorded" => shots[last].local > 0

(* What the audits say was earned, and what may yet be lost.  The surplus of    *)
(* the authorization is that of the whole history.                              *)
recorded == {i \in Shots : shots[i].shared}
ofThis == {i \in Shots : shots[i].shared /\ shots[i].auth = arm.id}
nets == [i \in Shots |-> shots[i].net]
risk(x) == CASE x.chain = "mined" -> x.net [] x.chain = "sent" -> -x.cap [] OTHER -> 0
risks == [i \in Shots |-> risk(shots[i])]

BookInv ==
  /\ arm.initial + Sum(nets, ofThis) = InitialNet + Sum(nets, recorded)
  /\ InitialNet + Sum(risks, Shots) > 0

(* Signals are of the past. *)
SignalsInv ==
  /\ height \in Nat /\ now \in Nat
  /\ flight \subseteq [pools : SUBSET Pool, block : 0..height]
  /\ waiting \subseteq [pools : SUBSET Pool, block : 0..height, at : 1..now]

(* A route in quarantine is not the child's; one that was let out was named by  *)
(* a wake with something new in it.                                             *)
Entry == [held : BOOLEAN, block : Nat, at : Nat, wake : SUBSET [pools : SUBSET Pool, block : Nat, at : Nat]]
Named(pools, entry) ==
  /\ pools \intersect eventPools(entry.wake) # {}
  /\ \E s \in entry.wake : s.block > entry.block \/ s.at > entry.at

QuarantineInv ==
  /\ quarantine \in [Route -> Entry]
  /\ \A r \in Route : quarantine[r].block # 0 /\ ~quarantine[r].held => Named(RoutePools[r], quarantine[r])
  /\ child.pc \in {"exact", "ready", "signed", "journaled"} =>
       \A r \in child.route : quarantine[r].held => r \in child.excluded
  /\ child.pc \in {"ready", "signed", "journaled"} => eligible

ShotInv == ShotsInv /\ ChildInv /\ BookInv /\ SignalsInv /\ QuarantineInv

--------------------------------------------------------------------------------
(* What a step does to the transactions: to none, to one, or it adds one.       *)

LEMMA InShots ==
  ASSUME ShotsInv
  PROVE  /\ last \in Nat /\ Shots = 1..last /\ IsFiniteSet(Shots)
         /\ \A i \in Shots : shots[i] \in Shot
<1>1. last \in Nat /\ Shots = 1..last /\ \A i \in Shots : shots[i] \in Shot
  BY DEF ShotsInv, last, Shots
<1>2. IsFiniteSet(1..last)
  BY <1>1, FS_Interval
<1> QED
  BY <1>1, <1>2

Alters(i, x) ==
  /\ shots' \in Seq(Shot) /\ last' = last /\ Shots' = Shots /\ i \in Shots
  /\ shots'[i] = x /\ \A j \in Shots : j # i => shots'[j] = shots[j]

LEMMA Altered ==
  ASSUME ShotsInv, NEW i \in Shots, NEW x \in Shot, shots' = [shots EXCEPT ![i] = x]
  PROVE  Alters(i, x)
<1>1. shots \in Seq(Shot)
  BY DEF ShotsInv
<1>2. shots' \in Seq(Shot) /\ Len(shots') = Len(shots) /\ DOMAIN shots' = DOMAIN shots
  BY <1>1, ExceptSeq DEF Shots
<1>3. shots'[i] = x /\ \A j \in Shots : j # i => shots'[j] = shots[j]
  BY <1>1 DEF Shots
<1> QED
  BY <1>2, <1>3 DEF Alters, Shots, last

Adds(x) ==
  /\ shots' \in Seq(Shot) /\ last' = last + 1 /\ last' \notin Shots /\ Shots' = Shots \union {last'}
  /\ shots'[last'] = x /\ \A j \in Shots : shots'[j] = shots[j]

LEMMA Added ==
  ASSUME ShotsInv, NEW x \in Shot, shots' = Append(shots, x)
  PROVE  Adds(x)
<1>1. shots \in Seq(Shot)
  BY DEF ShotsInv
<1>2. /\ shots' \in Seq(Shot) /\ Len(shots') = Len(shots) + 1 /\ shots'[Len(shots) + 1] = x
      /\ \A j \in 1..Len(shots) : shots'[j] = shots[j]
  BY <1>1, AppendProperties
<1>3. DOMAIN shots' = 1..(Len(shots) + 1) /\ DOMAIN shots = 1..Len(shots) /\ Len(shots) \in Nat
  BY <1>1, <1>2
<1> QED
  BY <1>2, <1>3 DEF Adds, Shots, last

(* The numbers in the sums. *)
Numbers ==
  /\ \A S \in SUBSET Shots : Ints(nets, S) /\ Ints(risks, S)
  /\ \A i \in Shots : nets[i] = shots[i].net /\ risks[i] = risk(shots[i]) /\ nets[i] \in Int /\ risks[i] \in Int

LEMMA Counted == ASSUME ShotsInv PROVE Numbers
<1>1. \A i \in Shots : nets[i] = shots[i].net /\ risks[i] = risk(shots[i])
  BY DEF nets, risks
<1>2. \A i \in Shots : shots[i].net \in Int /\ risk(shots[i]) \in Int
  <2> SUFFICES ASSUME NEW i \in Shots PROVE shots[i].net \in Int /\ risk(shots[i]) \in Int
    OBVIOUS
  <2>1. shots[i].net \in Int /\ shots[i].cap \in Int
    BY InShots DEF Shot
  <2> QED
    BY <2>1 DEF risk
<1> QED
  BY <1>1, <1>2, InShots, FS_Subset DEF Ints, Numbers

LEMMA CountedNext == ShotsInv' => Numbers'
<1>1. ShotsInv => Numbers
  BY Counted
<1> QED
  BY <1>1, PTL

(* The folds of the program are these sums. *)
LEMMA OneOf ==
  ASSUME ShotsInv, NEW S \in SUBSET Shots, NEW g, Folding(g, nets, S)
  PROVE  g = [s \in SUBSET S |-> IF s = {} THEN 0 ELSE shots[one(s)].net + g[s \ {one(s)}]]
<1>1. g = [s \in SUBSET S |-> IF s = {} THEN 0 ELSE nets[one(s)] + g[s \ {one(s)}]]
  BY DEF Folding, Folds
<1>2. ASSUME NEW s \in SUBSET S, s # {} PROVE nets[one(s)] = shots[one(s)].net
  BY <1>2, OneIn, Counted DEF Numbers
<1> HIDE DEF nets, one
<1> QED
  BY <1>1, <1>2, Zenon

LEMMA Agrees ==
  ASSUME ShotsInv, NEW S \in SUBSET Shots, NEW h,
         h = [s \in SUBSET S |-> IF s = {} THEN 0 ELSE shots[one(s)].net + h[s \ {one(s)}]]
  PROVE  h[S] = Sum(nets, S)
<1>1. PICK g : Folding(g, nets, S) /\ Sum(nets, S) = g[S]
  BY SumFold, Counted DEF Numbers
<1>2. ASSUME NEW s \in SUBSET S, s # {} PROVE nets[one(s)] = shots[one(s)].net
  BY <1>2, OneIn, Counted DEF Numbers
<1>3. h = [s \in SUBSET S |-> IF s = {} THEN 0 ELSE nets[one(s)] + h[s \ {one(s)}]]
  <2> HIDE DEF nets, one
  <2> QED
    BY <1>2, Zenon
<1>4. Folds(h, nets, S)
  BY <1>3 DEF Folds
<1>5. g[S] = h[S]
  BY <1>1, <1>4, OneFold
<1> QED
  BY <1>1, <1>5

LEMMA Historical ==
  ASSUME ShotsInv
  PROVE  historicalSurplus = InitialNet + Sum(nets, {i \in Shots : shots[i].local > 0})
<1> DEFINE S == {i \in Shots : shots[i].local > 0}
<1>1. PICK g : Folding(g, nets, S)
  BY FoldExists, Counted DEF Numbers
<1>2. g = [s \in SUBSET S |-> IF s = {} THEN 0 ELSE shots[one(s)].net + g[s \ {one(s)}]]
  BY <1>1, OneOf
<1>3. \E h : /\ h = [s \in SUBSET S |-> IF s = {} THEN 0 ELSE shots[one(s)].net + h[s \ {one(s)}]]
             /\ historicalSurplus = InitialNet + h[S]
  BY <1>2 DEF historicalSurplus, SumOf, MapThenSumSet, MapThenFoldSet, one
<1> QED
  BY <1>3, Agrees

LEMMA OfArm ==
  ASSUME ShotsInv
  PROVE  earnGasSurplus = arm.initial + Sum(nets, ofThis)
<1> DEFINE S == ofThis
<1>1. PICK g : Folding(g, nets, S)
  BY FoldExists, Counted DEF ofThis, Numbers
<1>2. g = [s \in SUBSET S |-> IF s = {} THEN 0 ELSE shots[one(s)].net + g[s \ {one(s)}]]
  BY <1>1, OneOf DEF ofThis
<1>3. \E h : /\ h = [s \in SUBSET S |-> IF s = {} THEN 0 ELSE shots[one(s)].net + h[s \ {one(s)}]]
             /\ earnGasSurplus = arm.initial + h[S]
  BY <1>2 DEF earnGasSurplus, SumOf, MapThenSumSet, MapThenFoldSet, one, ofThis
<1> QED
  BY <1>3, Agrees DEF ofThis

LEMMA Solvency ==
  ASSUME ShotsInv, InitialNet + Sum(risks, Shots) > 0
  PROVE  EverySolvent
<1>1. PICK g : Folding(g, risks, Shots) /\ Sum(risks, Shots) = g[Shots]
  BY SumFold, Counted DEF Numbers
<1>2. ASSUME NEW s \in SUBSET Shots, s # {} PROVE risks[one(s)] = risk(shots[one(s)])
  BY <1>2, OneIn, Counted DEF Numbers
<1> DEFINE fold(h) == [s \in SUBSET Shots |-> IF s = {} THEN 0 ELSE risk(shots[one(s)]) + h[s \ {one(s)}]]
<1>3. ASSUME NEW h PROVE h = fold(h) <=> Folds(h, risks, Shots)
  <2> HIDE DEF risks, one, risk
  <2> QED
    BY <1>2, Zenon DEF Folds
<1>4. g = fold(g)
  BY <1>1, <1>3 DEF Folding
<1>5. \E h : h = fold(h) /\ (EverySolvent <=> InitialNet + h[Shots] > 0)
  BY <1>4 DEF EverySolvent, SumOf, MapThenSumSet, MapThenFoldSet, one, risk
<1>6. PICK h : h = fold(h) /\ (EverySolvent <=> InitialNet + h[Shots] > 0)
  BY <1>5
<1> HIDE DEF fold
<1>7. Folds(h, risks, Shots)
  BY <1>3, <1>6
<1>8. g[Shots] = h[Shots]
  BY <1>1, <1>7, OneFold
<1> QED
  BY <1>1, <1>6, <1>8

--------------------------------------------------------------------------------
(* What a step that alters one transaction, or adds one, keeps.                 *)

SameArm == arm'.id = arm.id /\ arm'.initial = arm.initial

LEMMA AuditsAltered ==
  ASSUME ShotsInv, NEW i \in Shots, NEW x, Alters(i, x), SameArm,
         Kept(x), x.auth = shots[i].auth, x.journaled /\ ~x.shared => i = last /\ x.auth = arm.id
  PROVE  ShotsInv'
  BY DEF ShotsInv, Alters, SameArm, Kept

LEMMA BookAltered ==
  ASSUME ShotsInv, ShotsInv', NEW i \in Shots, NEW x, Alters(i, x), SameArm,
         x.shared = shots[i].shared, x.auth = shots[i].auth, x.shared => x.net = shots[i].net
  PROVE  /\ recorded' = recorded /\ ofThis' = ofThis
         /\ Sum(nets', recorded') = Sum(nets, recorded) /\ Sum(nets', ofThis') = Sum(nets, ofThis)
<1>1. recorded' = recorded /\ ofThis' = ofThis /\ ofThis \subseteq recorded /\ recorded \subseteq Shots
  BY DEF recorded, ofThis, Alters, SameArm
<1>2. \A j \in recorded : nets'[j] = nets[j]
  <2> SUFFICES ASSUME NEW j \in recorded PROVE nets'[j] = nets[j]
    OBVIOUS
  <2>1. j \in Shots /\ shots[j].shared
    BY DEF recorded
  <2>2. nets'[j] = shots'[j].net /\ nets[j] = shots[j].net
    BY <2>1 DEF Alters, nets
  <2> QED
    BY <2>1, <2>2 DEF Alters
<1>3. Ints(nets, recorded) /\ Ints(nets, ofThis)
  BY <1>1, Counted DEF Numbers
<1> QED
  BY <1>1, <1>2, <1>3, SumSame

LEMMA RiskAltered ==
  ASSUME ShotsInv, ShotsInv', NEW i \in Shots, NEW x, Alters(i, x)
  PROVE  /\ Sum(risks', Shots') = risk(x) + Sum(risks, Shots \ {i})
         /\ Sum(risks, Shots) = risk(shots[i]) + Sum(risks, Shots \ {i})
         /\ risk(x) \in Int /\ risk(shots[i]) \in Int /\ Sum(risks, Shots \ {i}) \in Int
<1>1. Shots' = Shots /\ shots'[i] = x /\ \A j \in Shots : j # i => shots'[j] = shots[j]
  BY DEF Alters
<1>2. /\ Ints(risks, Shots) /\ Ints(risks, Shots \ {i}) /\ risks[i] = risk(shots[i]) /\ risks[i] \in Int
      /\ \A j \in Shots : risks[j] = risk(shots[j])
  BY Counted DEF Numbers
<1>3. /\ \A S \in SUBSET Shots' : Ints(risks', S)
      /\ \A j \in Shots' : risks'[j] = risk(shots'[j]) /\ risks'[j] \in Int
  BY CountedNext DEF Numbers
<1>4. Sum(risks, Shots) = risks[i] + Sum(risks, Shots \ {i})
  BY <1>2, SumTakes
<1>5. Ints(risks', Shots) /\ Sum(risks', Shots) = risks'[i] + Sum(risks', Shots \ {i})
  BY <1>1, <1>3, SumTakes
<1>6. \A j \in Shots \ {i} : risks[j] = risks'[j]
  BY <1>1, <1>2, <1>3
<1>7. Sum(risks, Shots \ {i}) = Sum(risks', Shots \ {i})
  BY <1>2, <1>6, SumSame
<1>8. Sum(risks, Shots \ {i}) \in Int
  BY <1>2, SumInt
<1> QED
  BY <1>1, <1>2, <1>3, <1>4, <1>5, <1>7, <1>8

LEMMA BookAdded ==
  ASSUME ShotsInv, ShotsInv', NEW x, Adds(x), SameArm, ~x.shared, risk(x) = 0
  PROVE  /\ recorded' = recorded /\ ofThis' = ofThis
         /\ Sum(nets', recorded') = Sum(nets, recorded) /\ Sum(nets', ofThis') = Sum(nets, ofThis)
         /\ Sum(risks', Shots') = Sum(risks, Shots)
<1> DEFINE n == last'
<1>1. n \notin Shots /\ Shots' = Shots \union {n} /\ shots'[n] = x /\ \A j \in Shots : shots'[j] = shots[j]
  BY DEF Adds
<1> HIDE DEF n
<1>2. recorded' = recorded /\ ofThis' = ofThis /\ ofThis \subseteq recorded /\ recorded \subseteq Shots
  BY <1>1 DEF recorded, ofThis, SameArm
<1>3. /\ \A S \in SUBSET Shots : Ints(nets, S) /\ Ints(risks, S)
      /\ \A j \in Shots : nets[j] = shots[j].net /\ risks[j] = risk(shots[j])
  BY Counted DEF Numbers
<1>4. /\ \A S \in SUBSET Shots' : Ints(nets', S) /\ Ints(risks', S)
      /\ \A j \in Shots' : nets'[j] = shots'[j].net /\ risks'[j] = risk(shots'[j]) /\ risks'[j] \in Int
  BY CountedNext DEF Numbers
<1>5. \A j \in Shots : nets[j] = nets'[j] /\ risks[j] = risks'[j]
  BY <1>1, <1>3, <1>4
<1>6. Sum(nets', recorded) = Sum(nets, recorded) /\ Sum(nets', ofThis) = Sum(nets, ofThis)
      /\ Sum(risks', Shots) = Sum(risks, Shots)
  BY <1>2, <1>3, <1>5, SumSame
<1>7. Sum(risks', Shots \union {n}) = Sum(risks', Shots) + risks'[n]
  <2>1. Ints(risks', Shots) /\ risks'[n] \in Int
    BY <1>1, <1>4
  <2> QED
    BY <1>1, <2>1, SumAdds
<1>8. risks'[n] = 0 /\ Sum(risks, Shots) \in Int
  BY <1>1, <1>3, <1>4, SumInt
<1> QED
  BY <1>1, <1>2, <1>6, <1>7, <1>8

AuditsInv == ShotsInv /\ ChildInv /\ BookInv

(* Nothing happens to the transactions or to the authorization's number. *)
LEMMA AuditsRest ==
  ASSUME AuditsInv, UNCHANGED shots, SameArm, ChildInv'
  PROVE  AuditsInv'
<1>1. /\ Shots' = Shots /\ last' = last /\ recorded' = recorded /\ ofThis' = ofThis /\ nets' = nets /\ risks' = risks
  BY DEF Shots, last, recorded, ofThis, nets, risks, SameArm
<1>2. ShotsInv'
  BY <1>1 DEF AuditsInv, ShotsInv, SameArm
<1>3. BookInv'
  BY <1>1 DEF AuditsInv, BookInv, SameArm
<1> QED
  BY <1>2, <1>3 DEF AuditsInv

LEMMA ChildRest ==
  ASSUME ChildInv, UNCHANGED <<shots, child>>, arm'.id = arm.id, arm' \in [id : Nat, initial : Int, live : BOOLEAN]
  PROVE  ChildInv'
<1>1. Shots' = Shots /\ last' = last /\ unresolved' = unresolved
  BY DEF Shots, last, unresolved
<1> QED
  BY <1>1 DEF ChildInv

LEMMA Begun ==
  ASSUME ChildInv, UNCHANGED <<shots, arm>>, NEW pc \in {"start", "reconcile"},
         child' = [NoShotChild EXCEPT !.pc = pc, !.auth = arm.id],
         pc = "start" => unresolved = {}, pc = "reconcile" => unresolved = {last}
  PROVE  ChildInv'
<1>1. Shots' = Shots /\ last' = last /\ unresolved' = unresolved
  BY DEF Shots, last, unresolved
<1>2. child' = [pc |-> pc, auth |-> arm.id, excluded |-> {}, route |-> {}, cap |-> 0]
  BY DEF NoShotChild
<1>3. arm.id \in Nat
  BY DEF ChildInv
<1> QED
  BY <1>1, <1>2, <1>3 DEF ChildInv, Pcs

(* The child starts, goes on or ends, and the transactions are as they were. *)
LEMMA ChildMoves ==
  ASSUME ShotAssumption, AuditsInv, UNCHANGED <<shots, arm>>,
         \/ Wake \/ Reconcile \/ GiveUp \/ Die
         \/ \E r \in Route : Screen(r)
         \/ \E cap \in GasCosts : Exact(cap)
  PROVE  AuditsInv'
<1>1. Shots' = Shots /\ last' = last /\ unresolved' = unresolved
  BY DEF Shots, last, unresolved
<1>2. SameArm
  BY DEF SameArm
<1>3. unresolved \subseteq {last}
  BY DEF unresolved, AuditsInv, ShotsInv
<1>4. ASSUME Wake PROVE ChildInv'
  <2>1. unresolved = {} /\ (child' = child \/ child' = [NoShotChild EXCEPT !.pc = "start", !.auth = arm.id])
    BY <1>4 DEF Wake
  <2>2. CASE child' = child
    BY <1>1, <2>2, ChildRest DEF AuditsInv, ChildInv
  <2>3. CASE child' = [NoShotChild EXCEPT !.pc = "start", !.auth = arm.id]
    BY <1>1, <2>1, <2>3, Begun DEF AuditsInv
  <2> QED
    BY <2>1, <2>2, <2>3
<1>5. ASSUME Reconcile PROVE ChildInv'
  <2>1. unresolved = {last}
    BY <1>3, <1>5 DEF Reconcile
  <2> QED
    BY <1>5, <2>1, Begun DEF AuditsInv, Reconcile
<1>6. ASSUME GiveUp \/ Die PROVE ChildInv'
  BY <1>1, <1>6 DEF GiveUp, Die, stops, ChildInv, AuditsInv, NoShotChild, Pcs
<1>7. ASSUME NEW r \in Route, Screen(r) PROVE ChildInv'
  <2>1. {r} \in SUBSET Route /\ {q \in Route : quarantine[q].held} \in SUBSET Route
    OBVIOUS
  <2> QED
    BY <1>1, <1>7, <2>1 DEF Screen, ChildInv, AuditsInv, Pcs
<1>8. ASSUME NEW cap \in GasCosts, Exact(cap) PROVE ChildInv'
  <2>0. cap \in Nat /\ cap > 0
    BY <1>8 DEF ShotAssumption, Exact, preservesLongTermProfit
  <2>1. cap \in Nat \ {0}
    BY <2>0
  <2> QED
    BY <1>1, <1>8, <2>1 DEF Exact, ChildInv, AuditsInv, Pcs
<1> QED
  BY <1>2, <1>4, <1>5, <1>6, <1>7, <1>8, AuditsRest

LEMMA Signs == ASSUME ShotAssumption, AuditsInv, Sign PROVE AuditsInv'
<1> DEFINE x == [route |-> CHOOSE r \in child.route : TRUE, cap |-> child.cap, auth |-> child.auth,
                 journaled |-> FALSE, chain |-> "held", net |-> 0, block |-> 0,
                 local |-> 0, at |-> 0, shared |-> FALSE]
<1>1. x \in Shot
  <2>1. (CHOOSE r \in child.route : TRUE) \in Route
    BY DEF AuditsInv, ChildInv, Sign
  <2> QED
    BY <2>1 DEF Shot, AuditsInv, ChildInv, Sign
<1>2. Adds(x)
  BY <1>1, Added DEF Sign, AuditsInv
<1>3. /\ x.auth = arm.id /\ x.cap = child.cap /\ ~x.journaled /\ x.chain = "held" /\ x.local = 0 /\ ~x.shared
  BY DEF Sign, AuditsInv, ChildInv
<1>4. SameArm /\ arm' = arm /\ unresolved = {} /\ child' = [child EXCEPT !.pc = "signed"]
  BY DEF Sign, SameArm, goes, AuditsInv, ChildInv
<1> HIDE DEF x
<1>5. Kept(x) /\ risk(x) = 0
  BY <1>3 DEF Kept, risk
<1>6. \A j \in Shots : ~(shots[j].journaled /\ ~shots[j].shared)
  BY <1>4 DEF unresolved
<1>7. ShotsInv'
  BY <1>2, <1>3, <1>4, <1>5, <1>6 DEF ShotsInv, Adds, AuditsInv, ChildInv
<1>8. unresolved' = {}
  BY <1>2, <1>3, <1>6 DEF unresolved, Adds
<1>9. ChildInv'
  BY <1>2, <1>3, <1>4, <1>8 DEF ChildInv, AuditsInv, Adds, Pcs, Sign
<1>10. BookInv'
  <2>1. /\ recorded' = recorded /\ ofThis' = ofThis
        /\ Sum(nets', recorded') = Sum(nets, recorded) /\ Sum(nets', ofThis') = Sum(nets, ofThis)
        /\ Sum(risks', Shots') = Sum(risks, Shots)
    BY <1>2, <1>3, <1>4, <1>5, <1>7, BookAdded DEF AuditsInv
  <2> QED
    BY <1>4, <2>1 DEF BookInv, AuditsInv
<1> QED
  BY <1>7, <1>9, <1>10 DEF AuditsInv

(* The books are as they were when a transaction that is not recorded may cost  *)
(* no more than before.                                                         *)
LEMMA BooksKept ==
  ASSUME ShotAssumption, AuditsInv, ShotsInv', NEW i \in Shots, NEW x, Alters(i, x), SameArm,
         x.shared = shots[i].shared, x.auth = shots[i].auth, x.shared => x.net = shots[i].net,
         risk(x) = risk(shots[i]) \/ risk(x) >= risk(shots[i])
  PROVE  BookInv'
<1>1. Sum(nets', recorded') = Sum(nets, recorded) /\ Sum(nets', ofThis') = Sum(nets, ofThis)
  BY BookAltered DEF AuditsInv
<1>2. Sum(risks', Shots') >= Sum(risks, Shots) /\ Sum(risks', Shots') \in Int /\ Sum(risks, Shots) \in Int
  <2>1. ShotsInv
    BY DEF AuditsInv
  <2>2. PICK a, b, c, d, e \in Int : /\ Sum(risks', Shots') = d /\ d = a + c /\ Sum(risks, Shots) = e /\ e = b + c
                                     /\ risk(x) = a /\ risk(shots[i]) = b
    <3>1. /\ Sum(risks', Shots') = risk(x) + Sum(risks, Shots \ {i})
          /\ Sum(risks, Shots) = risk(shots[i]) + Sum(risks, Shots \ {i})
          /\ risk(x) \in Int /\ risk(shots[i]) \in Int /\ Sum(risks, Shots \ {i}) \in Int
      BY <2>1, RiskAltered
    <3> QED
      BY <3>1
  <2> QED
    BY <2>2
<1>3. arm'.initial + Sum(nets', ofThis') = InitialNet + Sum(nets', recorded')
  BY <1>1 DEF BookInv, AuditsInv, SameArm
<1>4. InitialNet + Sum(risks', Shots') > 0
  BY <1>2 DEF ShotAssumption, BookInv, AuditsInv
<1> QED
  BY <1>3, <1>4 DEF BookInv

(* The journal, the transaction sent, and the two outcomes alter the last.      *)
LEMMA Unresolved ==
  ASSUME AuditsInv, unresolved = {last}
  PROVE  /\ last \in Shots /\ shots[last].journaled /\ ~shots[last].shared /\ shots[last].auth = arm.id
         /\ \A j \in Shots : j # last => (shots[j].journaled <=> shots[j].shared)
<1>1. last \in unresolved /\ \A j \in Shots : j # last => j \notin unresolved
  OBVIOUS
<1> QED
  BY <1>1 DEF unresolved, AuditsInv, ShotsInv, Kept

(* What is neither recorded nor unresolved was never sent. *)
LEMMA Others ==
  ASSUME AuditsInv, NEW j \in Shots, shots[j].journaled <=> shots[j].shared
  PROVE  risk(shots[j]) = IF shots[j].shared THEN shots[j].net ELSE 0
<1>1. Kept(shots[j])
  BY DEF AuditsInv, ShotsInv
<1> QED
  BY <1>1 DEF Kept, risk

LEMMA Journals == ASSUME ShotAssumption, AuditsInv, JournalShared PROVE AuditsInv'
<1> DEFINE x == [shots[last] EXCEPT !.journaled = TRUE]
<1>1. /\ last \in Shots /\ shots[last].chain = "held" /\ shots[last].auth = arm.id /\ unresolved = {}
      /\ shots[last].cap = child.cap /\ child.pc = "signed"
  BY DEF JournalShared, AuditsInv, ChildInv
<1>2. shots[last] \in Shot /\ Kept(shots[last])
  BY <1>1, InShots DEF AuditsInv, ShotsInv
<1>3. /\ x \in Shot /\ x.journaled /\ x.chain = "held" /\ x.auth = arm.id /\ x.cap = child.cap
      /\ x.shared = shots[last].shared /\ x.net = shots[last].net /\ x.local = shots[last].local
  BY <1>1, <1>2 DEF Shot
<1>4. Alters(last, x)
  BY <1>1, <1>3, Altered DEF JournalShared, AuditsInv
<1>5. SameArm /\ arm' = arm /\ child' = [child EXCEPT !.pc = "journaled"]
  BY DEF JournalShared, SameArm, goes
<1> HIDE DEF x
<1>6. Kept(x) /\ ~x.shared /\ risk(x) = 0 /\ risk(shots[last]) = 0
  BY <1>1, <1>2, <1>3 DEF Kept, risk
<1>7. ShotsInv'
  BY <1>1, <1>3, <1>4, <1>5, <1>6, AuditsAltered DEF AuditsInv
<1>8. unresolved' = {last'}
  BY <1>1, <1>3, <1>4, <1>6 DEF unresolved, Alters
<1>9. ChildInv'
  BY <1>1, <1>3, <1>4, <1>5, <1>8 DEF ChildInv, AuditsInv, Alters, Pcs
<1>10. BookInv'
  BY <1>1, <1>3, <1>4, <1>5, <1>6, <1>7, BooksKept
<1> QED
  BY <1>7, <1>9, <1>10 DEF AuditsInv

(* With one attempt unresolved, the surplus is what all the others leave.       *)
LEMMA Surplus ==
  ASSUME AuditsInv, unresolved = {last}
  PROVE  earnGasSurplus = InitialNet + Sum(risks, Shots \ {last})
<1> DEFINE T == Shots \ {last}
<1>1. recorded \in SUBSET T /\ Ints(risks, T) /\ Ints(nets, recorded) /\ Ints(risks, recorded)
  BY Unresolved, Counted DEF recorded, AuditsInv, Numbers
<1>2. \A j \in T : risks[j] = IF shots[j].shared THEN nets[j] ELSE 0
  BY Unresolved, Others, Counted DEF AuditsInv, Numbers
<1>3. (\A j \in T \ recorded : risks[j] = 0) /\ \A j \in recorded : risks[j] = nets[j]
  BY <1>1, <1>2 DEF recorded
<1>4. Sum(risks, T) = Sum(risks, recorded)
  BY <1>1, <1>3, SumZeros
<1>5. Sum(risks, recorded) = Sum(nets, recorded)
  BY <1>1, <1>3, SumSame
<1>6. earnGasSurplus = arm.initial + Sum(nets, ofThis)
  BY OfArm DEF AuditsInv
<1> QED
  BY <1>4, <1>5, <1>6 DEF AuditsInv, BookInv

LEMMA Sends == ASSUME ShotAssumption, AuditsInv, Send PROVE AuditsInv'
<1>1. SameArm /\ arm' = arm /\ child' = [child EXCEPT !.pc = "sent"] /\ unresolved = {last} /\ child.pc = "journaled"
  BY DEF Send, SameArm, goes
<1>2. CASE UNCHANGED shots
  <2>1. Shots' = Shots /\ last' = last /\ unresolved' = unresolved
    BY <1>2 DEF Shots, last, unresolved
  <2>2. ChildInv'
    BY <1>1, <2>1 DEF ChildInv, AuditsInv, Pcs
  <2> QED
    BY <1>1, <1>2, <2>2, AuditsRest
<1>3. CASE shots' = [shots EXCEPT ![last].chain = "sent"]
  <2> DEFINE x == [shots[last] EXCEPT !.chain = "sent"]
  <2>1. /\ last \in Shots /\ shots[last].chain = "held" /\ shots[last].auth = arm.id /\ shots[last].cap = child.cap
        /\ shots[last].journaled /\ ~shots[last].shared
    BY <1>1, Unresolved DEF AuditsInv, ChildInv
  <2>2. shots[last] \in Shot /\ Kept(shots[last])
    BY <2>1, InShots DEF AuditsInv, ShotsInv
  <2>3. /\ x \in Shot /\ x.journaled /\ x.chain = "sent" /\ x.auth = arm.id /\ x.cap = child.cap
        /\ ~x.shared /\ x.local = shots[last].local /\ x.shared = shots[last].shared
    BY <2>1, <2>2 DEF Shot
  <2>4. Alters(last, x)
    BY <1>3, <2>1, <2>3, Altered DEF AuditsInv
  <2> HIDE DEF x
  <2>5. Kept(x) /\ risk(x) = -child.cap
    BY <2>1, <2>2, <2>3 DEF Kept, risk
  <2>6. ShotsInv'
    BY <1>1, <2>1, <2>3, <2>4, <2>5, AuditsAltered DEF AuditsInv
  <2>7. unresolved' = {last'}
    BY <1>1, <2>1, <2>3, <2>4 DEF unresolved, Alters
  <2>8. ChildInv'
    BY <1>1, <2>4, <2>7 DEF ChildInv, AuditsInv, Alters, Pcs
  <2>9. Sum(risks', Shots') = -child.cap + Sum(risks, Shots \ {last}) /\ Sum(risks, Shots \ {last}) \in Int
    BY <2>1, <2>4, <2>5, <2>6, RiskAltered DEF AuditsInv
  <2>10. (InitialNet + Sum(risks, Shots \ {last})) - child.cap > 0
    <3>1. earnGasSurplus - child.cap > 0
      BY DEF Send, preservesLongTermProfit
    <3>2. earnGasSurplus = InitialNet + Sum(risks, Shots \ {last})
      BY <1>1, Surplus
    <3> QED
      BY <3>1, <3>2
  <2>11. child.cap \in Int /\ InitialNet \in Int
    BY DEF AuditsInv, ChildInv, ShotAssumption
  <2>12. InitialNet + Sum(risks', Shots') > 0
    BY <2>9, <2>10, <2>11
  <2>13. BookInv'
    <3>1. Sum(nets', recorded') = Sum(nets, recorded) /\ Sum(nets', ofThis') = Sum(nets, ofThis)
      BY <1>1, <2>1, <2>3, <2>4, <2>6, BookAltered DEF AuditsInv
    <3> QED
      BY <1>1, <2>12, <3>1 DEF BookInv, AuditsInv, SameArm
  <2> QED
    BY <2>6, <2>8, <2>13 DEF AuditsInv
<1> QED
  BY <1>2, <1>3 DEF Send

LEMMA RecordsLocal == ASSUME ShotAssumption, AuditsInv, now \in Nat, RecordLocal PROVE AuditsInv'
<1> DEFINE x == [shots[last] EXCEPT !.local = shots[last].local + 1, !.at = now']
<1>1. SameArm /\ arm' = arm /\ child' = [child EXCEPT !.pc = "recorded"] /\ unresolved = {last} /\ now' \in Nat
      /\ child.pc \in {"sent", "reconcile"}
  BY DEF RecordLocal, SameArm, goes, AuditsInv, ChildInv
<1>2. /\ last \in Shots /\ shots[last].chain = "mined" /\ shots[last].auth = arm.id
      /\ shots[last].journaled /\ ~shots[last].shared
  BY <1>1, Unresolved DEF RecordLocal
<1>3. shots[last] \in Shot /\ Kept(shots[last])
  BY <1>2, InShots DEF AuditsInv, ShotsInv
<1>4. /\ x \in Shot /\ x.journaled /\ x.chain = "mined" /\ x.auth = arm.id /\ ~x.shared /\ x.local > 0
      /\ x.net = shots[last].net /\ x.cap = shots[last].cap /\ x.shared = shots[last].shared
  <2>1. shots[last].local + 1 \in Nat /\ shots[last].local + 1 > 0
    BY <1>3 DEF Shot
  <2>2. x.local = shots[last].local + 1
    BY <1>3 DEF Shot
  <2> QED
    BY <1>1, <1>2, <1>3, <2>1, <2>2 DEF Shot
<1>5. Alters(last, x)
  <2>1. shots' = [shots EXCEPT ![last] = x]
    BY <1>2, <1>3 DEF RecordLocal, Shot
  <2> QED
    BY <1>2, <1>4, <2>1, Altered DEF AuditsInv
<1> HIDE DEF x
<1>6. Kept(x) /\ risk(x) = risk(shots[last])
  BY <1>2, <1>3, <1>4 DEF Kept, risk
<1>7. ShotsInv'
  BY <1>1, <1>2, <1>4, <1>5, <1>6, AuditsAltered DEF AuditsInv
<1>8. unresolved' = {last'}
  BY <1>1, <1>2, <1>4, <1>5 DEF unresolved, Alters
<1>9. ChildInv'
  BY <1>1, <1>4, <1>5, <1>8 DEF ChildInv, AuditsInv, Alters, Pcs
<1>10. BookInv'
  BY <1>1, <1>2, <1>4, <1>5, <1>6, <1>7, BooksKept
<1> QED
  BY <1>7, <1>9, <1>10 DEF AuditsInv

(* The shared record of an outcome: what was earned or lost enters both sums. *)
LEMMA RecordsShared == ASSUME ShotAssumption, AuditsInv, RecordShared PROVE AuditsInv'
<1> DEFINE x == [shots[last] EXCEPT !.shared = TRUE]
<1>1. SameArm /\ arm' = arm /\ child' = NoShotChild /\ unresolved = {last} /\ shots[last].local > 0
  BY DEF RecordShared, SameArm, stops, AuditsInv, ChildInv
<1>2. /\ last \in Shots /\ shots[last].auth = arm.id /\ shots[last].journaled /\ ~shots[last].shared
      /\ \A j \in Shots : j # last => (shots[j].journaled <=> shots[j].shared)
  BY <1>1, Unresolved
<1>3. shots[last] \in Shot /\ Kept(shots[last])
  BY <1>2, InShots DEF AuditsInv, ShotsInv
<1>4. /\ x \in Shot /\ x.journaled /\ x.chain = shots[last].chain /\ x.auth = arm.id /\ x.shared
      /\ x.local = shots[last].local /\ x.net = shots[last].net /\ x.cap = shots[last].cap
  BY <1>2, <1>3 DEF Shot
<1>5. Alters(last, x)
  BY <1>2, <1>4, Altered DEF RecordShared, AuditsInv
<1> HIDE DEF x
<1>6. Kept(x) /\ risk(x) = risk(shots[last])
  BY <1>1, <1>3, <1>4 DEF Kept, risk
<1>7. ShotsInv'
  BY <1>1, <1>2, <1>4, <1>5, <1>6, AuditsAltered DEF AuditsInv
<1>8. ChildInv'
  <2>1. child' = [pc |-> "idle", auth |-> 0, excluded |-> {}, route |-> {}, cap |-> 0]
    BY <1>1 DEF NoShotChild
  <2> QED
    BY <1>1, <2>1 DEF ChildInv, AuditsInv, Pcs
<1>9. last \notin recorded /\ recorded' = recorded \union {last} /\ last \notin ofThis /\ ofThis' = ofThis \union {last}
  BY <1>1, <1>2, <1>4, <1>5 DEF recorded, ofThis, Alters
<1>10. /\ Ints(nets, recorded) /\ Ints(nets, ofThis) /\ nets[last] \in Int
       /\ \A j \in Shots : nets[j] = shots[j].net
  BY <1>2, Counted DEF AuditsInv, Numbers, recorded, ofThis
<1>11. recorded' \in SUBSET Shots' /\ ofThis' \in SUBSET Shots' /\ Shots' = Shots
       /\ Ints(nets', recorded') /\ Ints(nets', ofThis') /\ \A j \in Shots' : nets'[j] = shots'[j].net
  BY <1>5, <1>7, CountedNext DEF Numbers, recorded, ofThis, Alters
<1>12. \A j \in Shots : nets'[j] = nets[j]
  BY <1>4, <1>5, <1>10, <1>11 DEF Alters
<1>13. Sum(nets', recorded') = Sum(nets, recorded') /\ Sum(nets', ofThis') = Sum(nets, ofThis')
  BY <1>11, <1>12, SumSame
<1>14. Sum(nets, recorded') = Sum(nets, recorded) + nets[last] /\ Sum(nets, ofThis') = Sum(nets, ofThis) + nets[last]
  BY <1>9, <1>10, SumAdds
<1>15. arm'.initial + Sum(nets', ofThis') = InitialNet + Sum(nets', recorded')
  <2>1. arm.initial + Sum(nets, ofThis) = InitialNet + Sum(nets, recorded) /\ arm'.initial = arm.initial
    BY <1>1 DEF AuditsInv, BookInv
  <2>2. arm.initial \in Int /\ InitialNet \in Int /\ Sum(nets, ofThis) \in Int /\ Sum(nets, recorded) \in Int
    BY <1>10, SumInt DEF AuditsInv, ChildInv, ShotAssumption
  <2>3. PICK a, b, c, d, e \in Int : /\ a = arm.initial /\ b = Sum(nets, ofThis) /\ c = InitialNet
                                    /\ d = Sum(nets, recorded) /\ e = nets[last]
    BY <1>10, <2>2
  <2>4. a + b = c + d => a + (b + e) = c + (d + e)
    OBVIOUS
  <2> QED
    BY <1>13, <1>14, <2>1, <2>3, <2>4
<1>16. InitialNet + Sum(risks', Shots') > 0
  <2>1. Sum(risks', Shots') = Sum(risks, Shots)
    BY <1>2, <1>5, <1>6, <1>7, RiskAltered DEF AuditsInv
  <2> QED
    BY <2>1 DEF AuditsInv, BookInv
<1> QED
  BY <1>7, <1>8, <1>15, <1>16 DEF AuditsInv, BookInv

LEMMA Thrice ==
  ASSUME NEW f, NEW i \in DOMAIN f, NEW a, NEW b, NEW c
  PROVE  [f EXCEPT ![i].chain = a, ![i].block = b, ![i].net = c]
           = [f EXCEPT ![i] = [f[i] EXCEPT !.chain = a, !.block = b, !.net = c]]
  OBVIOUS

(* A receipt costs at most what was at risk. *)
LEMMA Mines ==
  ASSUME ShotAssumption, AuditsInv, height \in Nat, NEW i \in Shots, Mine(i)
  PROVE  AuditsInv'
<1> DEFINE x(net) == [shots[i] EXCEPT !.chain = "mined", !.block = height', !.net = net]
<1>1. SameArm /\ arm' = arm /\ child' = child /\ height' \in Nat /\ shots[i].chain = "sent"
  BY DEF Mine, SameArm
<1>2. shots[i] \in Shot /\ Kept(shots[i]) /\ shots[i].auth <= arm.id
  BY InShots DEF AuditsInv, ShotsInv
<1>3. PICK net \in Int : net >= -shots[i].cap /\ shots' = [shots EXCEPT ![i] = x(net)]
  <2>1. shots[i].cap \in Nat \ {0} /\ 1 \in Int /\ -1 \in Int /\ -shots[i].cap \in Int
    BY <1>2 DEF Shot
  <2>2. \/ shots' = [shots EXCEPT ![i] = x(1)]
        \/ \E gas \in {1, shots[i].cap} : shots' = [shots EXCEPT ![i] = x(-gas)]
    <3>1. ASSUME NEW c
          PROVE  [shots EXCEPT ![i].chain = "mined", ![i].block = height', ![i].net = c] = [shots EXCEPT ![i] = x(c)]
      BY Thrice DEF Shots
    <3>2. \/ shots' = [shots EXCEPT ![i].chain = "mined", ![i].block = height', ![i].net = 1]
          \/ \E gas \in {1, shots[i].cap} :
               shots' = [shots EXCEPT ![i].chain = "mined", ![i].block = height', ![i].net = -gas]
      BY DEF Mine
    <3> HIDE DEF x
    <3> QED
      BY <3>1, <3>2
  <2> HIDE DEF x
  <2>3. ASSUME NEW gas \in {1, shots[i].cap} PROVE -gas \in Int /\ -gas >= -shots[i].cap
    BY <2>1
  <2>4. 1 >= -shots[i].cap
    BY <2>1
  <2> QED
    BY <2>1, <2>2, <2>3, <2>4
<1> DEFINE y == x(net)
<1>4. /\ y \in Shot /\ y.chain = "mined" /\ y.net = net /\ y.cap = shots[i].cap /\ y.auth = shots[i].auth
      /\ y.journaled = shots[i].journaled /\ y.shared = shots[i].shared /\ y.local = shots[i].local
  BY <1>1, <1>2, <1>3 DEF Shot
<1>5. Alters(i, y)
  BY <1>3, <1>4, Altered DEF AuditsInv
<1> HIDE DEF x, y
<1>6. Kept(y) /\ risk(y) = net /\ risk(shots[i]) = -shots[i].cap /\ ~shots[i].shared
  BY <1>1, <1>2, <1>3, <1>4 DEF Kept, risk
<1>7. y.journaled /\ ~y.shared => i = last /\ y.auth = arm.id
  BY <1>4 DEF AuditsInv, ShotsInv
<1>8. ShotsInv'
  BY <1>1, <1>4, <1>5, <1>6, <1>7, AuditsAltered DEF AuditsInv
<1>9. unresolved' = unresolved /\ last' = last
  BY <1>4, <1>5 DEF unresolved, Alters
<1>10. ChildInv'
  <2>1. \A j \in Shots : shots'[j].cap = shots[j].cap /\ shots'[j].auth = shots[j].auth /\ shots'[j].local = shots[j].local
    BY <1>4, <1>5 DEF Alters
  <2>2. \A j \in Shots : shots[j].chain = "held" => shots'[j].chain = "held"
    BY <1>1, <1>5 DEF Alters
  <2>3. Shots' = Shots
    BY <1>5 DEF Alters
  <2>4. child.pc = "recorded" => last \in Shots
    BY Unresolved DEF AuditsInv, ChildInv
  <2> QED
    BY <1>1, <1>9, <2>1, <2>2, <2>3, <2>4 DEF ChildInv, AuditsInv
<1>11. BookInv'
  BY <1>1, <1>3, <1>4, <1>5, <1>6, <1>8, BooksKept
<1> QED
  BY <1>8, <1>10, <1>11 DEF AuditsInv

(* The next authorization begins with the surplus of the whole history. *)
LEMMA Arms == ASSUME ShotAssumption, AuditsInv, Arm PROVE AuditsInv'
<1>1. /\ arm' = [id |-> arm.id + 1, initial |-> historicalSurplus, live |-> TRUE]
      /\ UNCHANGED <<shots, child>> /\ child.pc = "idle" /\ unresolved = {} /\ arm.id \in Nat
  BY DEF Arm, AuditsInv, ChildInv
<1>2. /\ Shots' = Shots /\ last' = last /\ nets' = nets /\ risks' = risks /\ recorded' = recorded
      /\ unresolved' = unresolved
  BY <1>1 DEF Shots, last, nets, risks, recorded, unresolved
<1>3. recorded = {i \in Shots : shots[i].local > 0}
  <2>1. \A i \in Shots : Kept(shots[i])
    BY DEF AuditsInv, ShotsInv
  <2> QED
    BY <1>1, <2>1 DEF recorded, unresolved, Kept
<1>4. historicalSurplus = InitialNet + Sum(nets, recorded)
  BY <1>3, Historical DEF AuditsInv
<1>5. Sum(nets, recorded) \in Int
  BY Counted, SumInt DEF AuditsInv, Numbers, recorded
<1>6. historicalSurplus \in Int
  BY <1>4, <1>5 DEF ShotAssumption
<1>7. \A i \in Shots : shots[i].auth \in Nat /\ shots[i].auth <= arm.id
  BY InShots DEF AuditsInv, ShotsInv, Shot
<1>8. ofThis' = {}
  BY <1>1, <1>2, <1>7 DEF ofThis
<1>9. ShotsInv'
  BY <1>1, <1>2, <1>7 DEF AuditsInv, ShotsInv, unresolved
<1>10. ChildInv'
  BY <1>1, <1>2, <1>6 DEF AuditsInv, ChildInv
<1>11. BookInv'
  <2>1. Sum(nets', ofThis') = 0
    BY <1>8, SumEmpty
  <2>2. arm'.initial + Sum(nets', ofThis') = InitialNet + Sum(nets', recorded')
    BY <1>1, <1>2, <1>4, <1>6, <2>1
  <2> QED
    BY <1>2, <2>2 DEF AuditsInv, BookInv
<1> QED
  BY <1>9, <1>10, <1>11 DEF AuditsInv

LEMMA AuditsStep ==
  ASSUME ShotAssumption, AuditsInv, height \in Nat, now \in Nat, ShotNext
  PROVE  AuditsInv'
<1>1. ASSUME NEW p \in Pool, Swap(p) PROVE AuditsInv'
  BY <1>1, AuditsRest, ChildRest DEF Swap, SameArm, AuditsInv, ChildInv
<1>2. ASSUME NEW s \in flight, Observe(s) PROVE AuditsInv'
  BY <1>2, AuditsRest, ChildRest DEF Observe, SameArm, AuditsInv, ChildInv
<1>3. ASSUME Disarm PROVE AuditsInv'
  <2>1. arm'.id = arm.id /\ arm'.initial = arm.initial /\ arm' \in [id : Nat, initial : Int, live : BOOLEAN]
        /\ UNCHANGED <<shots, child>>
    BY <1>3 DEF Disarm, AuditsInv, ChildInv
  <2> QED
    BY <2>1, AuditsRest, ChildRest DEF SameArm, AuditsInv
<1>4. Wake \/ Reconcile \/ GiveUp \/ Die \/ (\E r \in Route : Screen(r)) \/ (\E cap \in GasCosts : Exact(cap)) => AuditsInv'
  <2>1. Wake \/ Reconcile \/ GiveUp \/ Die \/ (\E r \in Route : Screen(r)) \/ (\E cap \in GasCosts : Exact(cap))
          => UNCHANGED <<shots, arm>>
    BY DEF Wake, Reconcile, GiveUp, Die, Screen, Exact
  <2> QED
    BY <2>1, ChildMoves
<1> QED
  BY <1>1, <1>2, <1>3, <1>4, Arms, Signs, Journals, Sends, RecordsLocal, RecordsShared, Mines DEF ShotNext

--------------------------------------------------------------------------------
(* The quarantine *)

(* A wake that releases an entry holds a signal that is newer than it: the last *)
(* with a block is of a later one, or the earliest was heard of afterwards.     *)
LEMMA ReleasesNew ==
  ASSUME NEW w, w \subseteq [pools : SUBSET Pool, block : Nat, at : Nat], w # {}, NEW bound \in Nat,
         \A s \in w : s.at <= bound, NEW entry, releases(w, entry)
  PROVE  \E s \in w : s.block > entry.block \/ s.at > entry.at
<1>1. CASE eventBlockNumber(w) # 0
  <2> DEFINE carrying == {s \in w : s.block # 0}
             latest(s) == s \in carrying /\ \A t \in carrying : t.at <= s.at
  <2>1. carrying # {}
    BY <1>1 DEF eventBlockNumber
  <2>2. \E s : latest(s)
    <3> DEFINE S == {bound - s.at : s \in carrying}
    <3>1. S \in SUBSET Nat /\ S # {}
      BY <2>1
    <3>2. PICK m \in S : \A k \in S : m <= k
      BY <3>1, Least
    <3>3. PICK s \in carrying : m = bound - s.at
      BY <3>2
    <3>4. ASSUME NEW t \in carrying PROVE t.at <= s.at
      <4>1. bound - s.at <= bound - t.at
        BY <3>2, <3>3
      <4>2. s.at \in Nat /\ t.at \in Nat
        OBVIOUS
      <4> QED
        BY <4>1, <4>2
    <3> QED
      BY <3>3, <3>4
  <2> DEFINE chosenOne == CHOOSE s \in carrying : \A t \in carrying : t.at <= s.at
  <2>3. chosenOne \in carrying
    BY <2>2
  <2>4. eventBlockNumber(w) = chosenOne.block
    BY <2>1 DEF eventBlockNumber
  <2>5. eventBlockNumber(w) > entry.block
    BY <1>1 DEF releases
  <2> QED
    BY <2>3, <2>4, <2>5
<1>2. CASE eventBlockNumber(w) = 0
  <2> DEFINE S == {s.at : s \in w}
  <2>1. S \in SUBSET Nat /\ S # {}
    OBVIOUS
  <2>2. \E m \in S : \A k \in S : m <= k
    BY <2>1, Least
  <2>3. Min(S) \in S
    BY <2>2 DEF Min
  <2>4. Min(S) > entry.at
    BY <1>2 DEF releases, sourceReceivedAt
  <2> QED
    BY <2>3, <2>4
<1> QED
  BY <1>1, <1>2

LEMMA SignalsStep ==
  ASSUME ShotAssumption, AuditsInv, SignalsInv, ShotNext
  PROVE  SignalsInv'
<1>1. ASSUME NEW p \in Pool, Swap(p) PROVE SignalsInv'
  BY <1>1 DEF Swap, SignalsInv
<1>2. ASSUME NEW s \in flight, Observe(s) PROVE SignalsInv'
  <2>1. now' = now + 1 /\ height' = height /\ flight' \subseteq flight
        /\ waiting' = waiting \union {[pools |-> s.pools, block |-> s.block, at |-> now']}
    BY <1>2 DEF Observe
  <2>2. s.pools \in SUBSET Pool /\ s.block \in 0..height /\ now' \in Nat /\ now' \in 1..now' /\ 1..now \subseteq 1..now'
    BY <2>1 DEF SignalsInv
  <2>3. [pools |-> s.pools, block |-> s.block, at |-> now'] \in [pools : SUBSET Pool, block : 0..height, at : 1..now']
    BY <2>2
  <2>4. [pools : SUBSET Pool, block : 0..height, at : 1..now] \subseteq [pools : SUBSET Pool, block : 0..height, at : 1..now']
    BY <2>2
  <2> QED
    BY <2>1, <2>2, <2>3, <2>4 DEF SignalsInv
<1>3. ASSUME RecordLocal PROVE SignalsInv'
  <2>1. now' = now + 1 /\ UNCHANGED <<height, flight, waiting>>
    BY <1>3 DEF RecordLocal, chainUnchanged
  <2>2. now' \in Nat /\ 1..now \subseteq 1..now'
    BY <2>1 DEF SignalsInv
  <2>3. [pools : SUBSET Pool, block : 0..height, at : 1..now] \subseteq [pools : SUBSET Pool, block : 0..height, at : 1..now']
    BY <2>2
  <2> QED
    BY <2>1, <2>2, <2>3 DEF SignalsInv
<1>4. ASSUME NEW i \in Shots, Mine(i) PROVE SignalsInv'
  <2>1. height' = height + 1 /\ UNCHANGED <<now, waiting>>
        /\ \/ flight' = flight \union {[pools |-> RoutePools[shots[i].route], block |-> height']}
           \/ flight' = flight
    BY <1>4 DEF Mine
  <2>2. height' \in Nat /\ 0..height \subseteq 0..height' /\ height' \in 0..height'
    BY <2>1 DEF SignalsInv
  <2>3. RoutePools[shots[i].route] \in SUBSET Pool
    BY InShots DEF ShotAssumption, AuditsInv, Shot
  <2>4. /\ [pools : SUBSET Pool, block : 0..height] \subseteq [pools : SUBSET Pool, block : 0..height']
        /\ [pools : SUBSET Pool, block : 0..height, at : 1..now] \subseteq [pools : SUBSET Pool, block : 0..height', at : 1..now]
    BY <2>2
  <2>5. [pools |-> RoutePools[shots[i].route], block |-> height'] \in [pools : SUBSET Pool, block : 0..height']
    BY <2>2, <2>3
  <2> QED
    BY <2>1, <2>2, <2>4, <2>5 DEF SignalsInv
<1>5. Wake => SignalsInv'
  BY DEF Wake, SignalsInv
<1>6. ASSUME \/ Disarm \/ Arm \/ (\E r \in Route : Screen(r)) \/ (\E cap \in GasCosts : Exact(cap))
             \/ Sign \/ JournalShared \/ Send \/ RecordShared \/ Reconcile \/ GiveUp \/ Die
      PROVE  SignalsInv'
  <2>1. UNCHANGED <<height, now, flight, waiting>>
    BY <1>6 DEF Disarm, Arm, Screen, Exact, Sign, JournalShared, Send, RecordShared, Reconcile, GiveUp, Die,
                chainUnchanged
  <2> QED
    BY <2>1 DEF SignalsInv
<1> QED
  BY <1>1, <1>2, <1>3, <1>4, <1>5, <1>6 DEF ShotNext

(* Only a wake and the shared record of an outcome change what is quarantined.  *)
QuarantineKept ==
  /\ quarantine \in [Route -> Entry]
  /\ \A r \in Route : quarantine[r].block # 0 /\ ~quarantine[r].held => Named(RoutePools[r], quarantine[r])

LEMMA WakeReleases ==
  ASSUME ShotAssumption, SignalsInv, QuarantineKept, Wake
  PROVE  QuarantineKept' /\ \A r \in Route : quarantine'[r].held => quarantine[r].held
<1>1. CASE quarantine' = quarantine
  BY <1>1 DEF QuarantineKept
<1>2. CASE waiting # {} /\ quarantine' = afterWake(waiting)
  <2>1. waiting \subseteq [pools : SUBSET Pool, block : Nat, at : Nat] /\ now \in Nat /\ \A s \in waiting : s.at <= now
    BY DEF SignalsInv
  <2>2. ASSUME NEW r \in Route
        PROVE  /\ quarantine'[r] \in Entry /\ (quarantine'[r].held => quarantine[r].held)
               /\ quarantine'[r].block # 0 /\ ~quarantine'[r].held => Named(RoutePools[r], quarantine'[r])
    <3> DEFINE lets == quarantine[r].held /\ RoutePools[r] \intersect eventPools(waiting) # {} /\ releases(waiting, quarantine[r])
    <3>1. quarantine[r] \in Entry
      BY DEF QuarantineKept
    <3>2. CASE ~lets
      <4>1. quarantine'[r] = quarantine[r]
        BY <1>2, <3>2 DEF afterWake
      <4> QED
        BY <3>1, <4>1 DEF QuarantineKept
    <3>3. CASE lets
      <4>1. quarantine'[r] = [quarantine[r] EXCEPT !.held = FALSE, !.wake = waiting]
        BY <1>2, <3>3 DEF afterWake
      <4>2. /\ quarantine'[r] \in Entry /\ quarantine'[r].wake = waiting /\ ~quarantine'[r].held
            /\ quarantine'[r].block = quarantine[r].block /\ quarantine'[r].at = quarantine[r].at
        BY <2>1, <3>1, <4>1 DEF Entry
      <4>3. \E s \in waiting : s.block > quarantine[r].block \/ s.at > quarantine[r].at
        BY <1>2, <2>1, <3>3, ReleasesNew
      <4> QED
        BY <3>3, <4>2, <4>3 DEF Named
    <3> QED
      BY <3>2, <3>3
  <2>3. quarantine' \in [Route -> Entry]
    <3>1. quarantine' = [r \in Route |-> quarantine'[r]]
      BY <1>2 DEF afterWake
    <3> QED
      BY <2>2, <3>1
  <2> QED
    BY <2>2, <2>3 DEF QuarantineKept
<1> QED
  BY <1>1, <1>2 DEF Wake

LEMMA OutcomeHolds ==
  ASSUME AuditsInv, QuarantineKept, RecordShared
  PROVE  QuarantineKept'
<1>1. last \in Shots
  BY Unresolved DEF RecordShared, AuditsInv, ChildInv
<1>2. shots[last] \in Shot
  BY <1>1, InShots DEF AuditsInv
<1> DEFINE q == shots[last].route
           e == IF shots[last].net < 0
                THEN [held |-> TRUE, block |-> shots[last].block, at |-> shots[last].at, wake |-> {}]
                ELSE NeverReverted
<1>3. q \in Route /\ e \in Entry /\ (e.held \/ e.block = 0)
  BY <1>2 DEF Shot, Entry, NeverReverted
<1>4. quarantine' = [quarantine EXCEPT ![q] = e]
  BY DEF RecordShared, afterOutcome
<1> HIDE DEF q, e
<1> QED
  BY <1>3, <1>4 DEF QuarantineKept

LEMMA QuarantineStep ==
  ASSUME ShotAssumption, AuditsInv, SignalsInv, QuarantineInv, ShotNext
  PROVE  QuarantineInv'
<1>1. QuarantineKept
  BY DEF QuarantineInv, QuarantineKept
<1> DEFINE Apart == /\ child.pc \in {"exact", "ready", "signed", "journaled"} =>
                         \A r \in child.route : quarantine[r].held => r \in child.excluded
                    /\ child.pc \in {"ready", "signed", "journaled"} => eligible
<1>2. Apart
  BY DEF QuarantineInv
<1>3. ASSUME QuarantineKept', Apart' PROVE QuarantineInv'
  BY <1>3 DEF QuarantineKept, QuarantineInv
<1>4. ASSUME UNCHANGED quarantine PROVE QuarantineKept'
  BY <1>1, <1>4 DEF QuarantineKept
<1>5. ASSUME UNCHANGED <<quarantine, child>> PROVE Apart'
  BY <1>2, <1>5 DEF eligible
<1>6. ASSUME Wake PROVE QuarantineInv'
  <2>1. QuarantineKept' /\ \A r \in Route : quarantine'[r].held => quarantine[r].held
    BY <1>1, <1>6, WakeReleases
  <2>2. child.route \subseteq Route /\ (child' = child \/ child'.pc = "start")
    BY <1>6 DEF Wake, AuditsInv, ChildInv, NoShotChild
  <2>3. Apart'
    BY <1>2, <2>1, <2>2 DEF eligible
  <2> QED
    BY <1>3, <2>1, <2>3
<1>7. ASSUME RecordShared PROVE QuarantineInv'
  <2>1. child'.pc = "idle"
    BY <1>7 DEF RecordShared, stops, NoShotChild
  <2> QED
    BY <1>1, <1>3, <1>7, <2>1, OutcomeHolds
<1>8. ASSUME NEW r \in Route, Screen(r) PROVE QuarantineInv'
  <2>1. /\ child'.pc = "exact" /\ child'.route = {r} /\ child'.excluded = {q \in Route : quarantine[q].held}
        /\ UNCHANGED quarantine
    BY <1>8 DEF Screen, AuditsInv, ChildInv
  <2>2. Apart'
    BY <2>1
  <2> QED
    BY <1>3, <1>4, <2>1, <2>2
<1>9. ASSUME \/ \E cap \in GasCosts : Exact(cap)
             \/ Sign \/ JournalShared
      PROVE  QuarantineInv'
  <2>1. /\ UNCHANGED quarantine /\ child'.route = child.route /\ child'.excluded = child.excluded
        /\ child.pc \in {"exact", "ready", "signed", "journaled"} /\ eligible
    BY <1>2, <1>9 DEF Exact, Sign, JournalShared, goes, AuditsInv, ChildInv
  <2>2. Apart'
    BY <1>2, <2>1 DEF eligible
  <2> QED
    BY <1>3, <1>4, <2>1, <2>2
<1>10. ASSUME Send \/ RecordLocal \/ Reconcile \/ GiveUp \/ Die PROVE QuarantineInv'
  <2>1. UNCHANGED quarantine /\ child'.pc \in {"sent", "recorded", "reconcile", "idle"}
    <3>1. /\ UNCHANGED quarantine
          /\ \/ child' = [child EXCEPT !.pc = "sent"] \/ child' = [child EXCEPT !.pc = "recorded"]
             \/ child' = [NoShotChild EXCEPT !.pc = "reconcile", !.auth = arm.id] \/ child' = NoShotChild
      BY <1>10 DEF Send, RecordLocal, Reconcile, GiveUp, Die, goes, stops
    <3>2. child \in [pc : Pcs, auth : Nat, excluded : SUBSET Route, route : SUBSET Route, cap : Nat]
      BY DEF AuditsInv, ChildInv
    <3>3. [NoShotChild EXCEPT !.pc = "reconcile", !.auth = arm.id].pc = "reconcile" /\ NoShotChild.pc = "idle"
      BY DEF NoShotChild
    <3>4. [child EXCEPT !.pc = "sent"].pc = "sent" /\ [child EXCEPT !.pc = "recorded"].pc = "recorded"
      BY <3>2
    <3>5. child'.pc \in {"sent", "recorded", "reconcile", "idle"}
      BY <3>1, <3>3, <3>4
    <3> QED
      BY <3>1, <3>5
  <2>2. Apart'
    BY <2>1
  <2> QED
    BY <1>3, <1>4, <2>1, <2>2
<1>11. ASSUME \/ \E p \in Pool : Swap(p)
              \/ \E s \in flight : Observe(s)
              \/ Disarm \/ Arm
              \/ \E i \in Shots : Mine(i)
       PROVE  QuarantineInv'
  <2>1. UNCHANGED <<quarantine, child>>
    BY <1>11 DEF Swap, Observe, Disarm, Arm, Mine
  <2> QED
    BY <1>3, <1>4, <1>5, <2>1
<1> QED
  BY <1>6, <1>7, <1>8, <1>9, <1>10, <1>11 DEF ShotNext

--------------------------------------------------------------------------------
(* The invariant of the lane *)

LEMMA ShotBegins == ASSUME ShotAssumption, ShotInit PROVE ShotInv
<1>1. /\ shots = << >> /\ Shots = {} /\ recorded = {} /\ ofThis = {} /\ unresolved = {}
      /\ child.pc = "idle" /\ child = [pc |-> "idle", auth |-> 0, excluded |-> {}, route |-> {}, cap |-> 0]
      /\ arm.initial = InitialNet
  BY DEF ShotInit, Shots, recorded, ofThis, unresolved, NoShotChild
<1>2. ShotsInv
  BY <1>1 DEF ShotsInv
<1>3. ChildInv
  BY <1>1 DEF ChildInv, ShotInit, ShotAssumption, Pcs
<1>4. BookInv
  <2>1. Sum(nets, {}) = 0 /\ Sum(risks, {}) = 0
    BY SumEmpty
  <2> QED
    BY <1>1, <2>1 DEF BookInv, ShotAssumption
<1>5. SignalsInv
  BY DEF ShotInit, SignalsInv
<1>6. QuarantineInv
  <2>1. NeverReverted \in Entry /\ NeverReverted.block = 0
    BY DEF NeverReverted, Entry
  <2> QED
    BY <1>1, <2>1 DEF ShotInit, QuarantineInv
<1> QED
  BY <1>2, <1>3, <1>4, <1>5, <1>6 DEF ShotInv

LEMMA ShotKeeps == ASSUME ShotAssumption, ShotInv, [ShotNext]_shotVars PROVE ShotInv'
<1>1. AuditsInv /\ SignalsInv /\ QuarantineInv /\ height \in Nat /\ now \in Nat
  BY DEF ShotInv, AuditsInv, SignalsInv
<1>2. CASE ShotNext
  BY <1>1, <1>2, AuditsStep, SignalsStep, QuarantineStep DEF ShotInv, AuditsInv
<1>3. CASE UNCHANGED shotVars
  <2>1. AuditsInv'
    BY <1>1, <1>3, AuditsRest, ChildRest DEF shotVars, SameArm, AuditsInv, ChildInv
  <2>2. SignalsInv' /\ QuarantineInv'
    BY <1>1, <1>3 DEF shotVars, SignalsInv, QuarantineInv, eligible
  <2> QED
    BY <2>1, <2>2 DEF ShotInv, AuditsInv
<1> QED
  BY <1>2, <1>3

LEMMA ShotFollows == ASSUME ShotInv PROVE EverySolvent /\ RevertedWaits /\ ShotTypeOK
<1>1. EverySolvent
  BY Solvency DEF ShotInv, BookInv
<1>2. RevertedWaits
  <2> SUFFICES ASSUME NEW r \in chosen, quarantine[r].block # 0 PROVE Named(RoutePools[r], quarantine[r])
    BY DEF RevertedWaits, Named
  <2>1. child.pc \in {"ready", "signed", "journaled"} /\ r \in child.route
    BY DEF chosen
  <2>2. r \in Route
    BY <2>1 DEF ShotInv, ChildInv
  <2>3. ~quarantine[r].held
    BY <2>1 DEF ShotInv, QuarantineInv, eligible
  <2> QED
    BY <2>2, <2>3 DEF ShotInv, QuarantineInv
<1>3. ShotTypeOK
  <2>1. unresolved \subseteq {last}
    BY DEF unresolved, ShotInv, ShotsInv
  <2>2. Cardinality(unresolved) <= 1
    <3>1. unresolved = {} \/ unresolved = {last}
      BY <2>1
    <3>2. Cardinality({}) = 0 /\ Cardinality({last}) = 1
      BY FS_EmptySet, FS_Singleton
    <3> QED
      BY <3>1, <3>2
  <2> QED
    BY <2>2 DEF ShotTypeOK, ShotInv, ShotsInv, ChildInv, SignalsInv, Pcs, Kept
<1> QED
  BY <1>1, <1>2, <1>3

ShotSpec == ShotInit /\ [][ShotNext]_shotVars

(* For any pools, routes and gas costs, and any number of swaps, transactions,  *)
(* authorizations and deaths, the Earn lane stays net-positive over its life,   *)
(* whatever becomes of what was sent; a route that reverted is shot again only  *)
(* after a wake that names one of its pools and holds something new; and at     *)
(* most one transaction is unresolved.                                          *)
THEOREM EarnLaneSolvent == ASSUME ShotAssumption PROVE ShotSpec => [](EverySolvent /\ RevertedWaits /\ ShotTypeOK)
<1>1. ShotInit => ShotInv
  BY ShotBegins
<1>2. ShotInv /\ [ShotNext]_shotVars => ShotInv'
  BY ShotKeeps
<1>3. ShotInv => EverySolvent /\ RevertedWaits /\ ShotTypeOK
  BY ShotFollows
<1> QED
  BY <1>1, <1>2, <1>3, PTL DEF ShotSpec
================================================================================
