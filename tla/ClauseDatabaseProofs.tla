------------------------- MODULE ClauseDatabaseProofs -------------------------
(***************************************************************************)
(* The worst index of ClauseDatabaseMallob covers every clause whenever no *)
(* thread works on the buckets, and the counters tell the truth, for any   *)
(* number of threads that add, any buckets, capacity and additions.  A     *)
(* shrinking empties buckets and lowers the index by the counters, so they *)
(* must follow the queues (SizesTrack, LiteralsTrack), and nobody may be   *)
(* between a queue and its counter while the lock is held alone            *)
(* (LocksHeld).                                                            *)
(***************************************************************************)
EXTENDS ClauseDatabaseMallob, FiniteSetTheorems, WellFoundedInduction, TLAPS

(* The types the proof needs. No access it depends on reads the literals.  *)
Typed ==
  /\ items \in [Buckets -> Nat] /\ size \in [Buckets -> Int]
  /\ worst \in Nat \ {0}
  /\ readers \subseteq Threads
  /\ pc \in [Threads -> PC]
  /\ DOMAIN arg = Threads
  /\ currentWorst \in [Threads -> Nat]

(* Constants: the threads, and the buckets that are no unit's.             *)
LEMMA ThreadFacts ==
  /\ Consumer \in Threads /\ \A t \in Adders : t \in Threads /\ t # Consumer
  /\ \A t \in Threads : t # Consumer => t \in Adders
  /\ IsFiniteSet(Threads)
  /\ 0 \in Buckets /\ \A i \in Buckets : i \in Nat
  /\ \A i : i \in Long <=> i \in Buckets /\ i # 0
<1>1. IsFiniteSet(Adders \union {Consumer})
  BY DatabaseAssumption, FS_AddElement
<1> QED BY <1>1, DatabaseAssumption DEF Threads, Long
-----------------------------------------------------------------------------
(* Sums over the buckets.  LiteralsOf is a fold, whose recursive function  *)
(* is defined on the subsets of a finite set: what holds of the proper     *)
(* subsets of each set holds of all (MinimalSet).                          *)

Weight(count, i) == count[i] * getSizeFromIndex(i)

(* The element of a set that the fold takes first.                         *)
First(s) == CHOOSE x \in s : TRUE

(* The function that the fold computes on the subsets of S.                *)
IsSum(f, count, S) ==
  f = [s \in SUBSET S |->
         IF s = {} THEN 0 ELSE Weight(count, First(s)) + f[s \ {First(s)}]]

LEMMA FirstIn == ASSUME NEW s, s # {} PROVE First(s) \in s
BY DEF First

(* A set of sets of buckets has a minimal one.                             *)
LEMMA MinimalSet ==
  ASSUME NEW X \in SUBSET SUBSET Buckets, X # {}
  PROVE  \E s \in X : \A u \in X : u \subseteq s => u = s
<1>1. IsWellFoundedOn(StrictSubsetOrdering(Buckets), SUBSET Buckets)
  <2>1. FiniteSubsetsOf(Buckets) = SUBSET Buckets
    BY DatabaseAssumption, FS_FiniteSubsetsOfFinite
  <2>2. IsWellFoundedOn(StrictSubsetOrdering(Buckets), FiniteSubsetsOf(Buckets))
    BY FS_StrictSubsetOrderingWellFounded
  <2> QED BY <2>1, <2>2
<1>2. PICK s \in X : \A u \in X : ~ (<< u, s >> \in StrictSubsetOrdering(Buckets))
  BY <1>1, WFMin
<1> QED BY <1>2 DEF StrictSubsetOrdering

(* Two such functions agree wherever both are defined.                     *)
LEMMA SumsAgree ==
  ASSUME NEW count, NEW S \in SUBSET Buckets, NEW T \in SUBSET Buckets,
         NEW f, IsSum(f, count, S), NEW g, IsSum(g, count, T)
  PROVE  \A s \in SUBSET (S \intersect T) : f[s] = g[s]
<1> DEFINE X == {s \in SUBSET (S \intersect T) : f[s] # g[s]}
<1> SUFFICES ASSUME X # {} PROVE FALSE
  OBVIOUS
<1>1. X \in SUBSET SUBSET Buckets
  OBVIOUS
<1>2. PICK s \in X : \A u \in X : u \subseteq s => u = s
  <2> HIDE DEF X
  <2> QED BY <1>1, MinimalSet
<1>3. /\ f[s] = IF s = {} THEN 0 ELSE Weight(count, First(s)) + f[s \ {First(s)}]
      /\ g[s] = IF s = {} THEN 0 ELSE Weight(count, First(s)) + g[s \ {First(s)}]
  BY DEF IsSum
<1>4. s # {}
  BY <1>3
<1>5. First(s) \in s
  BY <1>4, FirstIn
<1>6. s \ {First(s)} \notin X
  BY <1>2, <1>5
<1>7. f[s \ {First(s)}] = g[s \ {First(s)}]
  BY <1>6
<1> QED BY <1>3, <1>4, <1>7

(* There is one on the subsets of every set of buckets.                    *)
LEMMA SumExists ==
  ASSUME NEW count, NEW S \in SUBSET Buckets
  PROVE  \E f : IsSum(f, count, S)
<1> DEFINE X == {s \in SUBSET Buckets : ~ \E f : IsSum(f, count, s)}
<1> SUFFICES ASSUME X # {} PROVE FALSE
  OBVIOUS
<1>1. PICK s \in X : \A u \in X : u \subseteq s => u = s
  <2>1. X \in SUBSET SUBSET Buckets
    OBVIOUS
  <2> HIDE DEF X
  <2> QED BY <2>1, MinimalSet
<1>2. s \in SUBSET Buckets
  OBVIOUS
<1> DEFINE G(u) == CHOOSE f : IsSum(f, count, u)
           h == [u \in SUBSET s |->
                   IF u = {} THEN 0
                   ELSE Weight(count, First(u)) + G(u \ {First(u)})[u \ {First(u)}]]
<1>3. ASSUME NEW u \in SUBSET s, u # {}
      PROVE  IsSum(G(u \ {First(u)}), count, u \ {First(u)})
  <2>1. First(u) \in s
    BY <1>3, FirstIn
  <2>2. u \ {First(u)} \in SUBSET Buckets /\ u \ {First(u)} \subseteq s /\ u \ {First(u)} # s
    BY <1>2, <2>1
  <2>3. u \ {First(u)} \notin X
    BY <1>1, <2>2
  <2>4. \E f : IsSum(f, count, u \ {First(u)})
    BY <2>2, <2>3
  <2> QED BY <2>4
<1>4. ASSUME NEW u \in SUBSET s, u # {}
      PROVE  h[u \ {First(u)}] = G(u \ {First(u)})[u \ {First(u)}]
  <2> DEFINE v == u \ {First(u)}
  <2>1. v \in SUBSET s /\ v \in SUBSET Buckets
    BY <1>2
  <2>2. IsSum(G(v), count, v)
    BY <1>3, <1>4
  <2> HIDE DEF G
  <2>3. G(v)[v] = IF v = {} THEN 0 ELSE Weight(count, First(v)) + G(v)[v \ {First(v)}]
    <3> HIDE DEF v
    <3> QED BY <2>2 DEF IsSum
  <2>4. h[v] = IF v = {} THEN 0 ELSE Weight(count, First(v)) + G(v \ {First(v)})[v \ {First(v)}]
    <3> HIDE DEF v
    <3> QED BY <2>1
  <2>5. CASE v = {}
    BY <2>3, <2>4, <2>5
  <2>6. CASE v # {}
    <3>1. IsSum(G(v \ {First(v)}), count, v \ {First(v)})
      BY <1>3, <2>1, <2>6
    <3>2. G(v)[v \ {First(v)}] = G(v \ {First(v)})[v \ {First(v)}]
      <4> HIDE DEF v
      <4> QED BY <2>1, <2>2, <3>1, SumsAgree
    <3> QED BY <2>3, <2>4, <2>6, <3>2
  <2> QED BY <2>5, <2>6
<1>5. IsSum(h, count, s)
  <2> HIDE DEF G
  <2>1. ASSUME NEW u \in SUBSET s
        PROVE  h[u] = IF u = {} THEN 0 ELSE Weight(count, First(u)) + h[u \ {First(u)}]
    BY <1>4
  <2>2. h = [u \in SUBSET s |-> h[u]]
    OBVIOUS
  <2> HIDE DEF h
  <2> QED BY <2>1, <2>2 DEF IsSum
<1> QED BY <1>5

(* What the fold computes, and how it goes on.                             *)
LEMMA LiteralsFold ==
  ASSUME NEW count, NEW S \in SUBSET Buckets
  PROVE  \E f : IsSum(f, count, S) /\ f[S] = LiteralsOf(count, S)
<1>1. LiteralsOf(count, S) = (CHOOSE f : IsSum(f, count, S))[S]
  BY DEF LiteralsOf, MapThenSumSet, MapThenFoldSet, IsSum, First, Weight
<1>2. IsSum(CHOOSE f : IsSum(f, count, S), count, S)
  BY SumExists
<1> QED BY <1>1, <1>2

LEMMA LiteralsUnfold ==
  ASSUME NEW count, NEW S \in SUBSET Buckets
  PROVE  /\ S = {} => LiteralsOf(count, S) = 0
         /\ S # {} => LiteralsOf(count, S) =
                        Weight(count, First(S)) + LiteralsOf(count, S \ {First(S)})
<1>1. PICK f : IsSum(f, count, S) /\ f[S] = LiteralsOf(count, S)
  BY LiteralsFold
<1>2. PICK g : /\ IsSum(g, count, S \ {First(S)})
               /\ g[S \ {First(S)}] = LiteralsOf(count, S \ {First(S)})
  BY LiteralsFold
<1>3. f[S \ {First(S)}] = g[S \ {First(S)}]
  BY <1>1, <1>2, SumsAgree
<1>4. f[S] = IF S = {} THEN 0 ELSE Weight(count, First(S)) + f[S \ {First(S)}]
  BY <1>1 DEF IsSum
<1> QED BY <1>1, <1>2, <1>3, <1>4

LEMMA SizeType == ASSUME NEW i \in Buckets PROVE getSizeFromIndex(i) \in Nat \ {0}
BY DatabaseAssumption DEF getSizeFromIndex

LEMMA WeightType ==
  ASSUME NEW count \in [Buckets -> Int], NEW i \in Buckets
  PROVE  Weight(count, i) \in Int /\ (count[i] \in Nat => Weight(count, i) \in Nat)
BY SizeType DEF Weight

(* A sum of naturals is a natural.                                         *)
LEMMA LiteralsType ==
  ASSUME NEW count \in [Buckets -> Int], NEW S \in SUBSET Buckets
  PROVE  /\ LiteralsOf(count, S) \in Int
         /\ (\A i \in S : count[i] \in Nat) => LiteralsOf(count, S) \in Nat
<1> DEFINE P(s) == /\ LiteralsOf(count, s) \in Int
                   /\ (\A i \in s : count[i] \in Nat) => LiteralsOf(count, s) \in Nat
           X == {s \in SUBSET Buckets : ~ P(s)}
<1> SUFFICES ASSUME X # {} PROVE FALSE
  OBVIOUS
<1>1. PICK s \in X : \A u \in X : u \subseteq s => u = s
  <2>1. X \in SUBSET SUBSET Buckets
    OBVIOUS
  <2> HIDE DEF X
  <2> QED BY <2>1, MinimalSet
<1>2. s \in SUBSET Buckets /\ ~ P(s)
  OBVIOUS
<1>3. s # {}
  <2>1. LiteralsOf(count, {}) = 0
    BY LiteralsUnfold
  <2> QED BY <1>2, <2>1
<1>4. First(s) \in s /\ First(s) \in Buckets
  BY <1>2, <1>3, FirstIn
<1>5. P(s \ {First(s)})
  BY <1>1, <1>2, <1>4
<1>6. LiteralsOf(count, s) = Weight(count, First(s)) + LiteralsOf(count, s \ {First(s)})
  BY <1>2, <1>3, LiteralsUnfold
<1>7. /\ Weight(count, First(s)) \in Int
      /\ count[First(s)] \in Nat => Weight(count, First(s)) \in Nat
  BY <1>4, WeightType
<1> QED BY <1>2, <1>4, <1>5, <1>6, <1>7

(* The order of the fold does not matter.                                  *)
LEMMA LiteralsRemove ==
  ASSUME NEW count \in [Buckets -> Int], NEW S \in SUBSET Buckets, NEW i \in S
  PROVE  LiteralsOf(count, S) = Weight(count, i) + LiteralsOf(count, S \ {i})
<1> DEFINE P(s) == \A j \in s : LiteralsOf(count, s) =
                                  Weight(count, j) + LiteralsOf(count, s \ {j})
           X == {s \in SUBSET Buckets : ~ P(s)}
<1> SUFFICES ASSUME X # {} PROVE FALSE
  OBVIOUS
<1>1. PICK s \in X : \A u \in X : u \subseteq s => u = s
  <2>1. X \in SUBSET SUBSET Buckets
    OBVIOUS
  <2> HIDE DEF X
  <2> QED BY <2>1, MinimalSet
<1>2. s \in SUBSET Buckets /\ ~ P(s)
  OBVIOUS
<1>3. PICK j \in s : LiteralsOf(count, s) # Weight(count, j) + LiteralsOf(count, s \ {j})
  BY <1>2
<1> DEFINE k == First(s)
<1>4. k \in s /\ k \in Buckets /\ j \in Buckets
  BY <1>2, <1>3, FirstIn
<1>5. LiteralsOf(count, s) = Weight(count, k) + LiteralsOf(count, s \ {k})
  BY <1>2, <1>4, LiteralsUnfold
<1>6. j # k
  BY <1>3, <1>5
<1> HIDE DEF k
<1>7. P(s \ {k}) /\ P(s \ {j})
  BY <1>1, <1>2, <1>3, <1>4
<1>8. (s \ {k}) \ {j} = (s \ {j}) \ {k} /\ j \in s \ {k} /\ k \in s \ {j}
  BY <1>3, <1>4, <1>6
<1>9. /\ LiteralsOf(count, s \ {k}) = Weight(count, j) + LiteralsOf(count, (s \ {j}) \ {k})
      /\ LiteralsOf(count, s \ {j}) = Weight(count, k) + LiteralsOf(count, (s \ {j}) \ {k})
  BY <1>7, <1>8
<1>10. /\ Weight(count, j) \in Int /\ Weight(count, k) \in Int
       /\ LiteralsOf(count, (s \ {j}) \ {k}) \in Int
  BY <1>2, <1>4, WeightType, LiteralsType
<1> QED BY <1>3, <1>5, <1>9, <1>10

(* Sums of the same counts are the same.                                   *)
LEMMA LiteralsSame ==
  ASSUME NEW count, NEW other, NEW S \in SUBSET Buckets, \A i \in S : count[i] = other[i]
  PROVE  LiteralsOf(count, S) = LiteralsOf(other, S)
<1> DEFINE X == {s \in SUBSET S : LiteralsOf(count, s) # LiteralsOf(other, s)}
<1> SUFFICES ASSUME X # {} PROVE FALSE
  OBVIOUS
<1>1. PICK s \in X : \A u \in X : u \subseteq s => u = s
  <2>1. X \in SUBSET SUBSET Buckets
    OBVIOUS
  <2> HIDE DEF X
  <2> QED BY <2>1, MinimalSet
<1>2. s \in SUBSET S /\ s \in SUBSET Buckets /\ LiteralsOf(count, s) # LiteralsOf(other, s)
  OBVIOUS
<1>3. s # {}
  <2>1. LiteralsOf(count, {}) = 0 /\ LiteralsOf(other, {}) = 0
    BY LiteralsUnfold
  <2> QED BY <1>2, <2>1
<1>4. First(s) \in s
  BY <1>3, FirstIn
<1>5. LiteralsOf(count, s \ {First(s)}) = LiteralsOf(other, s \ {First(s)})
  BY <1>1, <1>2, <1>4
<1>6. /\ LiteralsOf(count, s) = Weight(count, First(s)) + LiteralsOf(count, s \ {First(s)})
      /\ LiteralsOf(other, s) = Weight(other, First(s)) + LiteralsOf(other, s \ {First(s)})
  BY <1>2, <1>3, LiteralsUnfold
<1>7. Weight(count, First(s)) = Weight(other, First(s))
  BY <1>2, <1>4 DEF Weight
<1> QED BY <1>2, <1>5, <1>6, <1>7

(* Empty buckets hold no literal.                                          *)
LEMMA LiteralsZero ==
  ASSUME NEW count \in [Buckets -> Int], NEW S \in SUBSET Buckets, \A i \in S : count[i] = 0
  PROVE  LiteralsOf(count, S) = 0
<1> DEFINE X == {s \in SUBSET S : LiteralsOf(count, s) # 0}
<1> SUFFICES ASSUME X # {} PROVE FALSE
  OBVIOUS
<1>1. PICK s \in X : \A u \in X : u \subseteq s => u = s
  <2>1. X \in SUBSET SUBSET Buckets
    OBVIOUS
  <2> HIDE DEF X
  <2> QED BY <2>1, MinimalSet
<1>2. s \in SUBSET S /\ s \in SUBSET Buckets /\ LiteralsOf(count, s) # 0
  OBVIOUS
<1>3. s # {}
  <2>1. LiteralsOf(count, {}) = 0
    BY LiteralsUnfold
  <2> QED BY <1>2, <2>1
<1>4. First(s) \in s
  BY <1>3, FirstIn
<1>5. LiteralsOf(count, s \ {First(s)}) = 0
  BY <1>1, <1>2, <1>4
<1>6. LiteralsOf(count, s) = Weight(count, First(s)) + LiteralsOf(count, s \ {First(s)})
  BY <1>2, <1>3, LiteralsUnfold
<1>7. Weight(count, First(s)) = 0
  <2>1. count[First(s)] = 0 /\ getSizeFromIndex(First(s)) \in Nat
    BY <1>2, <1>4, SizeType
  <2> QED BY <2>1 DEF Weight
<1> QED BY <1>2, <1>5, <1>6, <1>7

(* The literals of two sets of buckets without a common one.               *)
LEMMA LiteralsSplit ==
  ASSUME NEW count \in [Buckets -> Int], NEW S \in SUBSET Buckets, NEW T \in SUBSET S
  PROVE  LiteralsOf(count, S) = LiteralsOf(count, S \ T) + LiteralsOf(count, T)
<1> DEFINE X == {s \in SUBSET T :
                   LiteralsOf(count, (S \ T) \union s) #
                     LiteralsOf(count, S \ T) + LiteralsOf(count, s)}
<1>1. SUFFICES ASSUME X # {} PROVE FALSE
  <2>1. T \notin X
    BY <1>1
  <2>2. (S \ T) \union T = S
    OBVIOUS
  <2> QED BY <2>1, <2>2
<1>2. PICK s \in X : \A u \in X : u \subseteq s => u = s
  <2>1. X \in SUBSET SUBSET Buckets
    OBVIOUS
  <2> HIDE DEF X
  <2> QED BY <1>1, <2>1, MinimalSet
<1>3. /\ s \in SUBSET T /\ s \in SUBSET Buckets
      /\ LiteralsOf(count, (S \ T) \union s) # LiteralsOf(count, S \ T) + LiteralsOf(count, s)
  OBVIOUS
<1>4. LiteralsOf(count, S \ T) \in Int
  BY LiteralsType
<1>5. s # {}
  <2>1. LiteralsOf(count, {}) = 0 /\ (S \ T) \union {} = S \ T
    BY LiteralsUnfold
  <2> QED BY <1>3, <1>4, <2>1
<1> DEFINE i == First(s)
<1>6. i \in s /\ i \in Buckets
  BY <1>3, <1>5, FirstIn
<1> HIDE DEF i
<1>7. LiteralsOf(count, (S \ T) \union (s \ {i}))
        = LiteralsOf(count, S \ T) + LiteralsOf(count, s \ {i})
  <2>1. s \ {i} \notin X
    BY <1>2, <1>6
  <2>2. s \ {i} \in SUBSET T
    BY <1>3
  <2> QED BY <2>1, <2>2
<1>8. ((S \ T) \union s) \ {i} = (S \ T) \union (s \ {i})
  <2>1. i \notin S \ T
    BY <1>3, <1>6
  <2> QED BY <2>1
<1>9. LiteralsOf(count, (S \ T) \union s)
        = Weight(count, i) + LiteralsOf(count, (S \ T) \union (s \ {i}))
  <2>1. (S \ T) \union s \in SUBSET Buckets /\ i \in (S \ T) \union s
    BY <1>3, <1>6
  <2> QED BY <1>8, <2>1, LiteralsRemove
<1>10. LiteralsOf(count, s) = Weight(count, i) + LiteralsOf(count, s \ {i})
  BY <1>3, <1>6, LiteralsRemove
<1>11. Weight(count, i) \in Int /\ LiteralsOf(count, s \ {i}) \in Int
  BY <1>3, <1>6, WeightType, LiteralsType
<1> QED BY <1>3, <1>4, <1>7, <1>9, <1>10, <1>11

(* Fewer buckets hold no more literals.                                    *)
LEMMA LiteralsMonotone ==
  ASSUME NEW count \in [Buckets -> Nat], NEW S \in SUBSET Buckets, NEW T \in SUBSET S
  PROVE  LiteralsOf(count, T) <= LiteralsOf(count, S)
<1>1. count \in [Buckets -> Int]
  OBVIOUS
<1>2. LiteralsOf(count, S) = LiteralsOf(count, S \ T) + LiteralsOf(count, T)
  BY <1>1, LiteralsSplit
<1>3. LiteralsOf(count, S \ T) \in Nat /\ LiteralsOf(count, T) \in Nat
  BY <1>1, LiteralsType
<1> QED BY <1>2, <1>3

(* One clause more or less in a bucket.                                    *)
LEMMA LiteralsChange ==
  ASSUME NEW count \in [Buckets -> Int], NEW i \in Buckets, NEW d \in {1, -1}
  PROVE  LiteralsOf([count EXCEPT ![i] = @ + d], Buckets)
           = LiteralsOf(count, Buckets) + d * getSizeFromIndex(i)
<1> DEFINE other == [count EXCEPT ![i] = @ + d]
<1>1. other \in [Buckets -> Int]
  OBVIOUS
<1>2. \A j \in Buckets \ {i} : other[j] = count[j]
  OBVIOUS
<1>3. Weight(other, i) = Weight(count, i) + d * getSizeFromIndex(i)
  <2>1. other[i] = count[i] + d /\ count[i] \in Int /\ getSizeFromIndex(i) \in Int
    BY SizeType
  <2> HIDE DEF other
  <2> QED BY <2>1 DEF Weight
<1> HIDE DEF other
<1>4. LiteralsOf(other, Buckets \ {i}) = LiteralsOf(count, Buckets \ {i})
  BY <1>2, LiteralsSame
<1>5. /\ LiteralsOf(other, Buckets) = Weight(other, i) + LiteralsOf(other, Buckets \ {i})
      /\ LiteralsOf(count, Buckets) = Weight(count, i) + LiteralsOf(count, Buckets \ {i})
  BY <1>1, LiteralsRemove
<1>6. /\ Weight(count, i) \in Int /\ LiteralsOf(count, Buckets \ {i}) \in Int
      /\ getSizeFromIndex(i) \in Int
  BY WeightType, LiteralsType, SizeType
<1> QED BY <1>3, <1>4, <1>5, <1>6 DEF other

(* Buckets that are emptied.                                               *)
LEMMA LiteralsEmptied ==
  ASSUME NEW count \in [Buckets -> Int], NEW other \in [Buckets -> Int],
         NEW T \in SUBSET Buckets,
         \A i \in Buckets : other[i] = IF i \in T THEN 0 ELSE count[i]
  PROVE  LiteralsOf(other, Buckets) = LiteralsOf(count, Buckets) - LiteralsOf(count, T)
<1>1. /\ LiteralsOf(other, Buckets) = LiteralsOf(other, Buckets \ T) + LiteralsOf(other, T)
      /\ LiteralsOf(count, Buckets) = LiteralsOf(count, Buckets \ T) + LiteralsOf(count, T)
  BY LiteralsSplit
<1>2. LiteralsOf(other, T) = 0
  BY LiteralsZero
<1>3. LiteralsOf(other, Buckets \ T) = LiteralsOf(count, Buckets \ T)
  BY LiteralsSame
<1>4. LiteralsOf(count, Buckets \ T) \in Int /\ LiteralsOf(count, T) \in Int
  BY LiteralsType
<1> QED BY <1>1, <1>2, <1>3, <1>4

(* A finite set of numbers has a greatest one.                             *)
LEMMA HasWorst ==
  ASSUME NEW K \in SUBSET Buckets, K # {}
  PROVE  \E k \in K : \A j \in K : j <= k
<1> DEFINE above(k) == {j \in K : j > k}
           X == {above(k) : k \in K}
<1>1. X \in SUBSET SUBSET Buckets /\ X # {}
  OBVIOUS
<1>2. PICK s \in X : \A u \in X : u \subseteq s => u = s
  <2> HIDE DEF X
  <2> QED BY <1>1, MinimalSet
<1>3. PICK k \in K : s = above(k)
  OBVIOUS
<1>4. SUFFICES ASSUME NEW j \in K, ~ (j <= k) PROVE FALSE
  OBVIOUS
<1>5. j \in Nat /\ k \in Nat /\ \A n \in K : n \in Nat
  BY ThreadFacts
<1>6. above(j) \subseteq s
  <2> SUFFICES ASSUME NEW n \in K, n > j PROVE n > k
    BY <1>3
  <2> QED BY <1>4, <1>5
<1>7. j \in s /\ j \notin above(j)
  BY <1>3, <1>4, <1>5
<1>8. above(j) \in X
  OBVIOUS
<1> HIDE DEF X, above
<1> QED BY <1>2, <1>6, <1>7, <1>8
-----------------------------------------------------------------------------
(* The initial state satisfies the invariant.                              *)
LEMMA DatabaseInit == Init => Typed /\ DatabaseInv
<1> SUFFICES ASSUME Init PROVE Typed /\ DatabaseInv
  OBVIOUS
<1>1. Typed
  BY ThreadFacts DEF Init, Typed, PC
<1>2. LocksHeld
  BY ThreadFacts DEF Init, LocksHeld, Adding, Taking
<1>3. SizesTrack
  <2> SUFFICES ASSUME NEW i \in Buckets
               PROVE  size[i] + Cardinality(Counting(i)) = items[i] + Uncounting(i)
    BY DEF SizesTrack
  <2>1. Counting(i) = {} /\ Uncounting(i) = 0
    BY ThreadFacts DEF Init, Counting, Uncounting
  <2> QED BY <2>1, FS_EmptySet DEF Init
<1>4. WorstTracked
  BY ThreadFacts DEF Init, WorstTracked
<1>5. LiteralsTrack
  <2>1. ASSUME NEW i \in Buckets PROVE Counted[i] = 0
    <3>1. Owing(i) = {} /\ Taken(i) = 0
      BY ThreadFacts DEF Init, Owing, Taken
    <3> QED BY <3>1, FS_EmptySet DEF Init, Counted
  <2>2. Counted \in [Buckets -> Int]
    <3>1. Counted = [i \in Buckets |-> Counted[i]]
      BY DEF Counted
    <3> QED BY <2>1, <3>1
  <2>3. LiteralsOf(Counted, Buckets) = 0
    BY <2>1, <2>2, LiteralsZero
  <2> QED BY <2>3 DEF Init, LiteralsTrack
<1> QED BY <1>1, <1>2, <1>3, <1>4, <1>5 DEF DatabaseInv

(* Every step keeps the types.                                             *)
LEMMA TypedStep ==
  ASSUME Typed, DatabaseInv, [Next]_vars
  PROVE  Typed'
<1> USE ThreadFacts DEF Typed, PC, buckets, misses, locks, locals, Goto,
      Forget, Return
<1>1. ASSUME NEW t \in Threads, CallAdd(t) \/ AddClause(t)
      PROVE  Typed'
  <2>1. CASE CallAdd(t)
    BY <2>1 DEF CallAdd
  <2>2. CASE TryLock(t)
    BY <2>2 DEF TryLock
  <2>3. CASE MissedPush(t)
    BY <2>3 DEF MissedPush
  <2>4. CASE MissedCount(t)
    BY <2>4 DEF MissedCount
  <2>5. CASE LoadSize(t)
    BY <2>5 DEF LoadSize
  <2>6. CASE LoadWorst(t)
    BY <2>6 DEF LoadWorst
  <2>7. CASE Reject(t)
    BY <2>7 DEF Reject
  <2>8. CASE Push(t)
    BY <2>8 DEF Push, DatabaseInv, LocksHeld, WorstTracked, Adding
  <2>9. CASE Count(t)
    BY <2>9 DEF Count, DatabaseInv, LocksHeld, Adding
  <2>10. CASE AddLiterals(t)
    BY <2>10 DEF AddLiterals, EndsCall
  <2>11. CASE Exchange(t)
    BY <2>11 DEF Exchange, DatabaseInv, WorstTracked, LocksHeld, Adding
  <2>12. CASE ExchangeFails(t)
    BY <2>12 DEF ExchangeFails
    <2> QED BY <1>1, <2>1, <2>2, <2>3, <2>4, <2>5, <2>6, <2>7, <2>8, <2>9,
             <2>10, <2>11, <2>12 DEF AddClause
<1>2. ASSUME Consume
      PROVE  Typed'
  <2>1. CASE CallGetOne
    BY <2>1 DEF CallGetOne
  <2>2. CASE Scan
    BY <2>2 DEF Scan, DatabaseInv, LocksHeld, Taking
  <2>3. CASE Uncount
    BY <2>3 DEF Uncount, DatabaseInv, LocksHeld, Taking
  <2>4. CASE SubLiterals
    BY <2>4 DEF SubLiterals, EndGetOne
  <2>5. CASE GetNone
    BY <2>5 DEF GetNone, EndGetOne
  <2>6. CASE TestMissed
    BY <2>6 DEF TestMissed
  <2>7. CASE PopMissed
    BY <2>7 DEF PopMissed
  <2>8. CASE UncountMissed
    BY <2>8 DEF UncountMissed
  <2>9. CASE NoneMissed
    BY <2>9 DEF NoneMissed
  <2>10. CASE LockAlone
    BY <2>10 DEF LockAlone
  <2>11. CASE Shrink
    BY <2>11 DEF Shrink
    <2> QED BY <1>2, <2>1, <2>2, <2>3, <2>4, <2>5, <2>6, <2>7, <2>8, <2>9,
             <2>10, <2>11 DEF Consume
<1>3. CASE UNCHANGED vars
  BY <1>3 DEF vars
<1> QED BY <1>1, <1>2, <1>3 DEF Next

(* Every step keeps the locks with those who work on the buckets.          *)
LEMMA LocksHeldStep ==
  ASSUME Typed, DatabaseInv, [Next]_vars
  PROVE  LocksHeld'
<1> USE ThreadFacts DEF Typed, PC, DatabaseInv, LocksHeld, Adding, Taking,
      buckets, misses, locks, locals, Goto, Forget, Return
<1>1. ASSUME NEW t \in Threads, CallAdd(t) \/ AddClause(t)
      PROVE  LocksHeld'
  <2>1. CASE CallAdd(t)
    BY <2>1 DEF CallAdd
  <2>2. CASE TryLock(t)
    BY <2>2 DEF TryLock
  <2>3. CASE MissedPush(t)
    BY <2>3 DEF MissedPush
  <2>4. CASE MissedCount(t)
    BY <2>4 DEF MissedCount
  <2>5. CASE LoadSize(t)
    BY <2>5 DEF LoadSize
  <2>6. CASE LoadWorst(t)
    BY <2>6 DEF LoadWorst
  <2>7. CASE Reject(t)
    BY <2>7 DEF Reject
  <2>8. CASE Push(t)
    BY <2>8 DEF Push
  <2>9. CASE Count(t)
    BY <2>9 DEF Count
  <2>10. CASE AddLiterals(t)
    BY <2>10 DEF AddLiterals, EndsCall
  <2>11. CASE Exchange(t)
    BY <2>11 DEF Exchange
  <2>12. CASE ExchangeFails(t)
    BY <2>12 DEF ExchangeFails
    <2> QED BY <1>1, <2>1, <2>2, <2>3, <2>4, <2>5, <2>6, <2>7, <2>8, <2>9,
             <2>10, <2>11, <2>12 DEF AddClause
<1>2. ASSUME Consume
      PROVE  LocksHeld'
  <2>1. CASE CallGetOne
    BY <2>1 DEF CallGetOne
  <2>2. CASE Scan
    BY <2>2 DEF Scan
  <2>3. CASE Uncount
    BY <2>3 DEF Uncount
  <2>4. CASE SubLiterals
    BY <2>4 DEF SubLiterals, EndGetOne
  <2>5. CASE GetNone
    BY <2>5 DEF GetNone, EndGetOne
  <2>6. CASE TestMissed
    BY <2>6 DEF TestMissed
  <2>7. CASE PopMissed
    BY <2>7 DEF PopMissed
  <2>8. CASE UncountMissed
    BY <2>8 DEF UncountMissed
  <2>9. CASE NoneMissed
    BY <2>9 DEF NoneMissed
  <2>10. CASE LockAlone
    BY <2>10 DEF LockAlone
  <2>11. CASE Shrink
    BY <2>11 DEF Shrink
    <2> QED BY <1>2, <2>1, <2>2, <2>3, <2>4, <2>5, <2>6, <2>7, <2>8, <2>9,
             <2>10, <2>11 DEF Consume
<1>3. CASE UNCHANGED vars
  BY <1>3 DEF vars
<1> QED BY <1>1, <1>2, <1>3 DEF Next

(* The calls between a queue and its counter are finitely many.            *)
LEMMA CountingFinite ==
  ASSUME NEW i
  PROVE  IsFiniteSet(Counting(i)) /\ Cardinality(Counting(i)) \in Nat
<1>1. Counting(i) \in SUBSET Threads
  BY DEF Counting
<1> QED BY <1>1, ThreadFacts, FS_Subset, FS_CardinalityType

(* Without such a call the counters and the queues agree.                  *)
LEMMA SizesEqual ==
  ASSUME Typed, DatabaseInv, \A i \in Buckets : Counting(i) = {} /\ Uncounting(i) = 0
  PROVE  \A i \in Buckets : size[i] = items[i]
<1> SUFFICES ASSUME NEW i \in Buckets PROVE size[i] = items[i]
  OBVIOUS
<1>1. size[i] + Cardinality(Counting(i)) = items[i] + Uncounting(i)
  BY DEF DatabaseInv, SizesTrack
<1>2. Cardinality(Counting(i)) = 0 /\ Uncounting(i) = 0
  BY FS_EmptySet
<1>3. size[i] \in Int /\ items[i] \in Nat
  BY DEF Typed
<1> QED BY <1>1, <1>2, <1>3

(* Every step keeps the counters with the queues.                          *)
LEMMA SizesTrackStep ==
  ASSUME Typed, DatabaseInv, [Next]_vars
  PROVE  SizesTrack'
<1> USE ThreadFacts DEF Typed, PC, DatabaseInv, buckets, misses, locks,
      locals, Goto, Forget, Return
<1>1. ASSUME NEW t \in Threads, CallAdd(t) \/ AddClause(t)
      PROVE  SizesTrack'
  <2>1. CASE CallAdd(t)
    <3>1. \A i \in Buckets : Counting(i)' = Counting(i) /\ Uncounting(i)' = Uncounting(i)
      BY <2>1 DEF CallAdd, Counting, Uncounting
    <3> QED BY <2>1, <3>1 DEF CallAdd, SizesTrack
  <2>2. CASE TryLock(t)
    <3>1. \A i \in Buckets : Counting(i)' = Counting(i) /\ Uncounting(i)' = Uncounting(i)
      BY <2>2 DEF TryLock, Counting, Uncounting
    <3> QED BY <2>2, <3>1 DEF TryLock, SizesTrack
  <2>3. CASE MissedPush(t)
    <3>1. \A i \in Buckets : Counting(i)' = Counting(i) /\ Uncounting(i)' = Uncounting(i)
      BY <2>3 DEF MissedPush, Counting, Uncounting
    <3> QED BY <2>3, <3>1 DEF MissedPush, SizesTrack
  <2>4. CASE MissedCount(t)
    <3>1. \A i \in Buckets : Counting(i)' = Counting(i) /\ Uncounting(i)' = Uncounting(i)
      BY <2>4 DEF MissedCount, Counting, Uncounting
    <3> QED BY <2>4, <3>1 DEF MissedCount, SizesTrack
  <2>5. CASE LoadSize(t)
    <3>1. \A i \in Buckets : Counting(i)' = Counting(i) /\ Uncounting(i)' = Uncounting(i)
      BY <2>5 DEF LoadSize, Counting, Uncounting
    <3> QED BY <2>5, <3>1 DEF LoadSize, SizesTrack
  <2>6. CASE LoadWorst(t)
    <3>1. \A i \in Buckets : Counting(i)' = Counting(i) /\ Uncounting(i)' = Uncounting(i)
      BY <2>6 DEF LoadWorst, Counting, Uncounting
    <3> QED BY <2>6, <3>1 DEF LoadWorst, SizesTrack
  <2>7. CASE Reject(t)
    <3>1. \A i \in Buckets : Counting(i)' = Counting(i) /\ Uncounting(i)' = Uncounting(i)
      BY <2>7 DEF Reject, Counting, Uncounting
    <3> QED BY <2>7, <3>1 DEF Reject, SizesTrack
  <2>8. CASE Push(t)
    <3>1. ASSUME NEW i \in Buckets
          PROVE  /\ Uncounting(i)' = Uncounting(i)
                 /\ Counting(i)' = IF i = arg[t] THEN Counting(i) \union {t} ELSE Counting(i)
                 /\ t \notin Counting(i)
      BY <2>8 DEF Push, Counting, Uncounting
    <3>2. ASSUME NEW i \in Buckets
          PROVE  size'[i] + Cardinality(Counting(i)') = items'[i] + Uncounting(i)'
      <4>1. Cardinality(Counting(i) \union {t}) = Cardinality(Counting(i)) + 1
        BY <3>1, CountingFinite, FS_AddElement
      <4>2. size[i] + Cardinality(Counting(i)) = items[i] + Uncounting(i)
        BY DEF SizesTrack
      <4>3. size'[i] = size[i] /\ items'[i] = IF i = arg[t] THEN items[i] + 1 ELSE items[i]
        BY <2>8 DEF Push
      <4>4. Uncounting(i) \in Nat
        BY DEF Uncounting
      <4>5. size[i] \in Int /\ items[i] \in Nat /\ Cardinality(Counting(i)) \in Nat
        BY CountingFinite
      <4>6. CASE i = arg[t]
        <5>1. Counting(i)' = Counting(i) \union {t} /\ Uncounting(i)' = Uncounting(i)
          BY <3>1, <4>6
        <5>2. Cardinality(Counting(i)') = Cardinality(Counting(i)) + 1
          BY <4>1, <4>6, <5>1
        <5>3. size'[i] = size[i] /\ items'[i] = items[i] + 1
          BY <4>3, <4>6
        <5> QED BY <4>2, <4>4, <4>5, <5>1, <5>2, <5>3
      <4>7. CASE i # arg[t]
        BY <3>1, <4>2, <4>3, <4>7
      <4> QED BY <4>6, <4>7
    <3> QED BY <3>2 DEF SizesTrack
  <2>9. CASE Count(t)
    <3>1. ASSUME NEW i \in Buckets
          PROVE  /\ Uncounting(i)' = Uncounting(i)
                 /\ Counting(i)' = IF i = arg[t] THEN Counting(i) \ {t} ELSE Counting(i)
                 /\ i = arg[t] => t \in Counting(i)
      BY <2>9 DEF Count, Counting, Uncounting
    <3>2. ASSUME NEW i \in Buckets
          PROVE  size'[i] + Cardinality(Counting(i)') = items'[i] + Uncounting(i)'
      <4>1. i = arg[t] => Cardinality(Counting(i) \ {t}) = Cardinality(Counting(i)) - 1
        BY <3>1, CountingFinite, FS_RemoveElement
      <4>2. size[i] + Cardinality(Counting(i)) = items[i] + Uncounting(i)
        BY DEF SizesTrack
      <4>3. items'[i] = items[i] /\ size'[i] = IF i = arg[t] THEN size[i] + 1 ELSE size[i]
        BY <2>9 DEF Count
      <4>4. Uncounting(i) \in Nat
        BY DEF Uncounting
      <4>5. size[i] \in Int /\ items[i] \in Nat /\ Cardinality(Counting(i)) \in Nat
        BY CountingFinite
      <4>6. CASE i = arg[t]
        <5>1. Counting(i)' = Counting(i) \ {t} /\ Uncounting(i)' = Uncounting(i)
          BY <3>1, <4>6
        <5>2. Cardinality(Counting(i)') = Cardinality(Counting(i)) - 1
          BY <4>1, <4>6, <5>1
        <5>3. size'[i] = size[i] + 1 /\ items'[i] = items[i]
          BY <4>3, <4>6
        <5> QED BY <4>2, <4>4, <4>5, <5>1, <5>2, <5>3
      <4>7. CASE i # arg[t]
        BY <3>1, <4>2, <4>3, <4>7
      <4> QED BY <4>6, <4>7
    <3> QED BY <3>2 DEF SizesTrack
  <2>10. CASE AddLiterals(t)
    <3>1. \A i \in Buckets : Counting(i)' = Counting(i) /\ Uncounting(i)' = Uncounting(i)
      BY <2>10 DEF AddLiterals, EndsCall, Counting, Uncounting
    <3> QED BY <2>10, <3>1 DEF AddLiterals, EndsCall, SizesTrack
  <2>11. CASE Exchange(t)
    <3>1. \A i \in Buckets : Counting(i)' = Counting(i) /\ Uncounting(i)' = Uncounting(i)
      BY <2>11 DEF Exchange, Counting, Uncounting
    <3> QED BY <2>11, <3>1 DEF Exchange, SizesTrack
  <2>12. CASE ExchangeFails(t)
    <3>1. \A i \in Buckets : Counting(i)' = Counting(i) /\ Uncounting(i)' = Uncounting(i)
      BY <2>12 DEF ExchangeFails, Counting, Uncounting
    <3> QED BY <2>12, <3>1 DEF ExchangeFails, SizesTrack
    <2> QED BY <1>1, <2>1, <2>2, <2>3, <2>4, <2>5, <2>6, <2>7, <2>8, <2>9,
             <2>10, <2>11, <2>12 DEF AddClause
<1>2. ASSUME Consume
      PROVE  SizesTrack'
  <2>1. CASE CallGetOne
    <3>1. \A i \in Buckets : Counting(i)' = Counting(i) /\ Uncounting(i)' = Uncounting(i)
      BY <2>1 DEF CallGetOne, Counting, Uncounting
    <3> QED BY <2>1, <3>1 DEF CallGetOne, SizesTrack
  <2>2. CASE Scan
    <3>1. \A i \in Buckets : Counting(i)' = Counting(i) /\ Uncounting(i) = 0
      BY <2>2 DEF Scan, Counting, Uncounting
    <3>2. ASSUME NEW i \in Buckets
          PROVE  items[i] + 0 = items'[i] + Uncounting(i)'
      BY <2>2 DEF Scan, Uncounting
    <3> QED BY <2>2, <3>1, <3>2, CountingFinite DEF Scan, SizesTrack
  <2>3. CASE Uncount
    <3>1. \A i \in Buckets : Counting(i)' = Counting(i) /\ Uncounting(i)' = 0
      BY <2>3 DEF Uncount, Counting, Uncounting
    <3>2. ASSUME NEW i \in Buckets
          PROVE  size[i] - Uncounting(i) = size'[i]
      BY <2>3 DEF Uncount, Uncounting
    <3> QED BY <2>3, <3>1, <3>2, CountingFinite DEF Uncount, SizesTrack, Uncounting
  <2>4. CASE SubLiterals
    <3>1. \A i \in Buckets : Counting(i)' = Counting(i) /\ Uncounting(i)' = Uncounting(i)
      BY <2>4 DEF SubLiterals, EndGetOne, Counting, Uncounting
    <3> QED BY <2>4, <3>1 DEF SubLiterals, EndGetOne, SizesTrack
  <2>5. CASE GetNone
    <3>1. \A i \in Buckets : Counting(i)' = Counting(i) /\ Uncounting(i)' = Uncounting(i)
      BY <2>5 DEF GetNone, EndGetOne, Counting, Uncounting
    <3> QED BY <2>5, <3>1 DEF GetNone, EndGetOne, SizesTrack
  <2>6. CASE TestMissed
    <3>1. \A i \in Buckets : Counting(i)' = Counting(i) /\ Uncounting(i)' = Uncounting(i)
      BY <2>6 DEF TestMissed, Counting, Uncounting
    <3> QED BY <2>6, <3>1 DEF TestMissed, SizesTrack
  <2>7. CASE PopMissed
    <3>1. \A i \in Buckets : Counting(i)' = Counting(i) /\ Uncounting(i)' = Uncounting(i)
      BY <2>7 DEF PopMissed, Counting, Uncounting
    <3> QED BY <2>7, <3>1 DEF PopMissed, SizesTrack
  <2>8. CASE UncountMissed
    <3>1. \A i \in Buckets : Counting(i)' = Counting(i) /\ Uncounting(i)' = Uncounting(i)
      BY <2>8 DEF UncountMissed, Counting, Uncounting
    <3> QED BY <2>8, <3>1 DEF UncountMissed, SizesTrack
  <2>9. CASE NoneMissed
    <3>1. \A i \in Buckets : Counting(i)' = Counting(i) /\ Uncounting(i)' = Uncounting(i)
      BY <2>9 DEF NoneMissed, Counting, Uncounting
    <3> QED BY <2>9, <3>1 DEF NoneMissed, SizesTrack
  <2>10. CASE LockAlone
    <3>1. \A i \in Buckets : Counting(i)' = Counting(i) /\ Uncounting(i)' = Uncounting(i)
      BY <2>10 DEF LockAlone, Counting, Uncounting
    <3> QED BY <2>10, <3>1 DEF LockAlone, SizesTrack
  <2>11. CASE Shrink
    <3>1. \A i \in Buckets : /\ Counting(i) = {} /\ Counting(i)' = {}
                            /\ Uncounting(i) = 0 /\ Uncounting(i)' = 0
      BY <2>11 DEF Shrink, Counting, Uncounting, LocksHeld, Adding
    <3>2. \A i \in Buckets : size[i] = items[i]
      BY <3>1, SizesEqual
    <3>3. ASSUME NEW i \in Buckets
          PROVE  size'[i] = items'[i]
      BY <2>11, <3>2 DEF Shrink
    <3> QED BY <3>1, <3>3, FS_EmptySet DEF SizesTrack
    <2> QED BY <1>2, <2>1, <2>2, <2>3, <2>4, <2>5, <2>6, <2>7, <2>8, <2>9,
             <2>10, <2>11 DEF Consume
<1>3. CASE UNCHANGED vars
  BY <1>3 DEF vars, SizesTrack, Counting, Uncounting
<1> QED BY <1>1, <1>2, <1>3 DEF Next

(* The calls that have still to add their literals are finitely many.      *)
LEMMA OwingFinite ==
  ASSUME NEW i
  PROVE  IsFiniteSet(Owing(i)) /\ Cardinality(Owing(i)) \in Nat
<1>1. Owing(i) \in SUBSET Threads
  BY DEF Owing
<1> QED BY <1>1, ThreadFacts, FS_Subset, FS_CardinalityType

LEMMA CountedType ==
  ASSUME Typed
  PROVE  Counted \in [Buckets -> Int]
<1>1. ASSUME NEW i \in Buckets
      PROVE  items[i] - Cardinality(Owing(i)) + Taken(i) \in Int
  BY OwingFinite DEF Typed, Taken
<1> QED BY <1>1 DEF Counted

(* A step that changes the count of no bucket.                             *)
LEMMA SameCounted ==
  ASSUME LiteralsTrack, literals' = literals,
         \A i \in Buckets : items'[i] - Cardinality(Owing(i)') + Taken(i)'
                              = items[i] - Cardinality(Owing(i)) + Taken(i)
  PROVE  LiteralsTrack'
<1>1. Counted' = Counted
  BY DEF Counted
<1> QED BY <1>1 DEF LiteralsTrack, LiteralsOf, MapThenSumSet, MapThenFoldSet

(* A clause that is added, or taken off, in the count of one bucket.       *)
LEMMA CountedChanges ==
  ASSUME LiteralsTrack, Typed, NEW k \in Buckets, NEW d \in {1, -1},
         literals' = literals + d * getSizeFromIndex(k),
         \A i \in Buckets : items'[i] - Cardinality(Owing(i)') + Taken(i)'
                              = (items[i] - Cardinality(Owing(i)) + Taken(i))
                                  + (IF i = k THEN d ELSE 0)
  PROVE  LiteralsTrack'
<1>1. Counted' = [Counted EXCEPT ![k] = @ + d]
  <2>1. \A i \in Buckets : Counted'[i] = Counted[i] + (IF i = k THEN d ELSE 0)
    BY DEF Counted
  <2>2. /\ Counted' = [i \in Buckets |-> Counted'[i]]
        /\ Counted = [i \in Buckets |-> Counted[i]]
    BY DEF Counted
  <2>3. Counted \in [Buckets -> Int]
    BY CountedType
  <2>4. ASSUME NEW i \in Buckets
        PROVE  Counted'[i] = [Counted EXCEPT ![k] = @ + d][i]
    BY <2>1, <2>3
  <2> QED BY <2>2, <2>3, <2>4
<1>2. LiteralsOf([Counted EXCEPT ![k] = @ + d], Buckets)
        = LiteralsOf(Counted, Buckets) + d * getSizeFromIndex(k)
  BY CountedType, LiteralsChange
<1>3. LiteralsTrack' <=> literals' = LiteralsOf(Counted', Buckets)
  BY DEF LiteralsTrack
<1> QED BY <1>1, <1>2, <1>3 DEF LiteralsTrack

(* Every step keeps the literal count with the queues.                     *)
LEMMA LiteralsTrackStep ==
  ASSUME Typed, DatabaseInv, [Next]_vars
  PROVE  LiteralsTrack'
<1> USE ThreadFacts DEF Typed, PC, DatabaseInv, buckets, misses, locks,
      locals, Goto, Forget, Return
<1>1. ASSUME NEW t \in Threads, CallAdd(t) \/ AddClause(t)
      PROVE  LiteralsTrack'
  <2>1. CASE CallAdd(t)
    <3>1. \A i \in Buckets : Owing(i)' = Owing(i) /\ Taken(i)' = Taken(i)
      BY <2>1 DEF CallAdd, Owing, Taken
    <3>2. items' = items /\ literals' = literals
      BY <2>1 DEF CallAdd
    <3> QED BY <3>1, <3>2, SameCounted
  <2>2. CASE TryLock(t)
    <3>1. \A i \in Buckets : Owing(i)' = Owing(i) /\ Taken(i)' = Taken(i)
      BY <2>2 DEF TryLock, Owing, Taken
    <3>2. items' = items /\ literals' = literals
      BY <2>2 DEF TryLock
    <3> QED BY <3>1, <3>2, SameCounted
  <2>3. CASE MissedPush(t)
    <3>1. \A i \in Buckets : Owing(i)' = Owing(i) /\ Taken(i)' = Taken(i)
      BY <2>3 DEF MissedPush, Owing, Taken
    <3>2. items' = items /\ literals' = literals
      BY <2>3 DEF MissedPush
    <3> QED BY <3>1, <3>2, SameCounted
  <2>4. CASE MissedCount(t)
    <3>1. \A i \in Buckets : Owing(i)' = Owing(i) /\ Taken(i)' = Taken(i)
      BY <2>4 DEF MissedCount, Owing, Taken
    <3>2. items' = items /\ literals' = literals
      BY <2>4 DEF MissedCount
    <3> QED BY <3>1, <3>2, SameCounted
  <2>5. CASE LoadSize(t)
    <3>1. \A i \in Buckets : Owing(i)' = Owing(i) /\ Taken(i)' = Taken(i)
      BY <2>5 DEF LoadSize, Owing, Taken
    <3>2. items' = items /\ literals' = literals
      BY <2>5 DEF LoadSize
    <3> QED BY <3>1, <3>2, SameCounted
  <2>6. CASE LoadWorst(t)
    <3>1. \A i \in Buckets : Owing(i)' = Owing(i) /\ Taken(i)' = Taken(i)
      BY <2>6 DEF LoadWorst, Owing, Taken
    <3>2. items' = items /\ literals' = literals
      BY <2>6 DEF LoadWorst
    <3> QED BY <3>1, <3>2, SameCounted
  <2>7. CASE Reject(t)
    <3>1. \A i \in Buckets : Owing(i)' = Owing(i) /\ Taken(i)' = Taken(i)
      BY <2>7 DEF Reject, Owing, Taken
    <3>2. items' = items /\ literals' = literals
      BY <2>7 DEF Reject
    <3> QED BY <3>1, <3>2, SameCounted
  <2>8. CASE Push(t)
    <3>1. ASSUME NEW i \in Buckets
          PROVE  /\ Taken(i)' = Taken(i)
                 /\ Owing(i)' = IF i = arg[t] THEN Owing(i) \union {t} ELSE Owing(i)
                 /\ t \notin Owing(i)
      BY <2>8 DEF Push, Owing, Taken
    <3>2. ASSUME NEW i \in Buckets
          PROVE  items'[i] - Cardinality(Owing(i)') + Taken(i)'
                   = items[i] - Cardinality(Owing(i)) + Taken(i)
      <4>1. Cardinality(Owing(i) \union {t}) = Cardinality(Owing(i)) + 1
        BY <3>1, OwingFinite, FS_AddElement
      <4>2. items'[i] = IF i = arg[t] THEN items[i] + 1 ELSE items[i]
        BY <2>8 DEF Push
      <4>3. items[i] \in Nat /\ Cardinality(Owing(i)) \in Nat /\ Taken(i) \in Nat
        BY OwingFinite DEF Taken
      <4>4. CASE i = arg[t]
        <5>1. Cardinality(Owing(i)') = Cardinality(Owing(i)) + 1 /\ Taken(i)' = Taken(i)
          BY <3>1, <4>1, <4>4
        <5>2. items'[i] = items[i] + 1
          BY <4>2, <4>4
        <5> QED BY <4>3, <5>1, <5>2
      <4>5. CASE i # arg[t]
        BY <3>1, <4>2, <4>5
      <4> QED BY <4>4, <4>5
    <3>3. literals' = literals
      BY <2>8 DEF Push
    <3> QED BY <3>2, <3>3, SameCounted
  <2>9. CASE Count(t)
    <3>1. \A i \in Buckets : Owing(i)' = Owing(i) /\ Taken(i)' = Taken(i)
      BY <2>9 DEF Count, Owing, Taken
    <3>2. items' = items /\ literals' = literals
      BY <2>9 DEF Count
    <3> QED BY <3>1, <3>2, SameCounted
  <2>10. CASE AddLiterals(t)
    <3>1. ASSUME NEW i \in Buckets
          PROVE  /\ Taken(i)' = Taken(i) /\ items'[i] = items[i]
                 /\ Owing(i)' = IF i = arg[t] THEN Owing(i) \ {t} ELSE Owing(i)
                 /\ i = arg[t] => t \in Owing(i)
      BY <2>10 DEF AddLiterals, EndsCall, Owing, Taken
    <3>2. ASSUME NEW i \in Buckets
          PROVE  items'[i] - Cardinality(Owing(i)') + Taken(i)'
                   = (items[i] - Cardinality(Owing(i)) + Taken(i))
                       + (IF i = arg[t] THEN 1 ELSE 0)
      <4>1. i = arg[t] => Cardinality(Owing(i) \ {t}) = Cardinality(Owing(i)) - 1
        BY <3>1, OwingFinite, FS_RemoveElement
      <4>2. items[i] \in Nat /\ Cardinality(Owing(i)) \in Nat /\ Taken(i) \in Nat
        BY OwingFinite DEF Taken
      <4>3. CASE i = arg[t]
        <5>1. Cardinality(Owing(i)') = Cardinality(Owing(i)) - 1
          BY <3>1, <4>1, <4>3
        <5> QED BY <3>1, <4>2, <4>3, <5>1
      <4>4. CASE i # arg[t]
        BY <3>1, <4>2, <4>4
      <4> QED BY <4>3, <4>4
    <3>3. arg[t] \in Buckets
      BY <2>10 DEF AddLiterals, LocksHeld, Adding
    <3>4. literals' = literals + 1 * getSizeFromIndex(arg[t])
      <4>1. literals' = literals + getSizeFromIndex(arg[t])
        BY <2>10 DEF AddLiterals
      <4> QED BY <3>3, <4>1, SizeType
    <3> QED BY <3>2, <3>3, <3>4, CountedChanges
  <2>11. CASE Exchange(t)
    <3>1. \A i \in Buckets : Owing(i)' = Owing(i) /\ Taken(i)' = Taken(i)
      BY <2>11 DEF Exchange, Owing, Taken
    <3>2. items' = items /\ literals' = literals
      BY <2>11 DEF Exchange
    <3> QED BY <3>1, <3>2, SameCounted
  <2>12. CASE ExchangeFails(t)
    <3>1. \A i \in Buckets : Owing(i)' = Owing(i) /\ Taken(i)' = Taken(i)
      BY <2>12 DEF ExchangeFails, Owing, Taken
    <3>2. items' = items /\ literals' = literals
      BY <2>12 DEF ExchangeFails
    <3> QED BY <3>1, <3>2, SameCounted
  <2> QED BY <1>1, <2>1, <2>2, <2>3, <2>4, <2>5, <2>6, <2>7, <2>8, <2>9,
             <2>10, <2>11, <2>12 DEF AddClause
<1>2. ASSUME Consume
      PROVE  LiteralsTrack'
  <2>1. CASE CallGetOne
    <3>1. \A i \in Buckets : Owing(i)' = Owing(i) /\ Taken(i)' = Taken(i)
      BY <2>1 DEF CallGetOne, Owing, Taken
    <3>2. items' = items /\ literals' = literals
      BY <2>1 DEF CallGetOne
    <3> QED BY <3>1, <3>2, SameCounted
  <2>2. CASE Scan
    <3>1. \A i \in Buckets : Owing(i)' = Owing(i) /\ Taken(i) = 0
      BY <2>2 DEF Scan, Owing, Taken
    <3>2. ASSUME NEW i \in Buckets
          PROVE  items[i] = items'[i] + Taken(i)'
      BY <2>2 DEF Scan, Taken
    <3>3. ASSUME NEW i \in Buckets
          PROVE  items'[i] - Cardinality(Owing(i)') + Taken(i)'
                   = items[i] - Cardinality(Owing(i)) + Taken(i)
      <4>1. Cardinality(Owing(i)) \in Nat /\ items'[i] \in Int /\ Taken(i)' \in Int
        BY <2>2, OwingFinite DEF Scan, Taken
      <4> QED BY <3>1, <3>2, <4>1
    <3>4. literals' = literals
      BY <2>2 DEF Scan
    <3> QED BY <3>3, <3>4, SameCounted
  <2>3. CASE Uncount
    <3>1. \A i \in Buckets : Owing(i)' = Owing(i) /\ Taken(i)' = Taken(i)
      BY <2>3 DEF Uncount, Owing, Taken
    <3>2. items' = items /\ literals' = literals
      BY <2>3 DEF Uncount
    <3> QED BY <3>1, <3>2, SameCounted
  <2>4. CASE SubLiterals
    <3> DEFINE k == arg[Consumer]
    <3>1. ASSUME NEW i \in Buckets
          PROVE  /\ Owing(i)' = Owing(i) /\ items'[i] = items[i]
                 /\ Taken(i) = IF i = k THEN 1 ELSE 0
                 /\ Taken(i)' = 0
      BY <2>4 DEF SubLiterals, EndGetOne, Owing, Taken
    <3>2. ASSUME NEW i \in Buckets
          PROVE  items'[i] - Cardinality(Owing(i)') + Taken(i)'
                   = (items[i] - Cardinality(Owing(i)) + Taken(i))
                       + (IF i = k THEN -1 ELSE 0)
      BY <3>1, OwingFinite
    <3>3. k \in Buckets
      BY <2>4 DEF SubLiterals, LocksHeld
    <3>4. literals' = literals + (-1) * getSizeFromIndex(k)
      <4>1. literals' = literals - getSizeFromIndex(k)
        BY <2>4 DEF SubLiterals
      <4>2. literals \in Int
        <5>1. LiteralsOf(Counted, Buckets) \in Int
          BY CountedType, LiteralsType
        <5> QED BY <5>1 DEF LiteralsTrack
      <4> QED BY <3>3, <4>1, <4>2, SizeType
    <3> HIDE DEF k
    <3> QED BY <3>2, <3>3, <3>4, CountedChanges
  <2>5. CASE GetNone
    <3>1. \A i \in Buckets : Owing(i)' = Owing(i) /\ Taken(i)' = Taken(i)
      BY <2>5 DEF GetNone, EndGetOne, Owing, Taken
    <3>2. items' = items /\ literals' = literals
      BY <2>5 DEF GetNone, EndGetOne
    <3> QED BY <3>1, <3>2, SameCounted
  <2>6. CASE TestMissed
    <3>1. \A i \in Buckets : Owing(i)' = Owing(i) /\ Taken(i)' = Taken(i)
      BY <2>6 DEF TestMissed, Owing, Taken
    <3>2. items' = items /\ literals' = literals
      BY <2>6 DEF TestMissed
    <3> QED BY <3>1, <3>2, SameCounted
  <2>7. CASE PopMissed
    <3>1. \A i \in Buckets : Owing(i)' = Owing(i) /\ Taken(i)' = Taken(i)
      BY <2>7 DEF PopMissed, Owing, Taken
    <3>2. items' = items /\ literals' = literals
      BY <2>7 DEF PopMissed
    <3> QED BY <3>1, <3>2, SameCounted
  <2>8. CASE UncountMissed
    <3>1. \A i \in Buckets : Owing(i)' = Owing(i) /\ Taken(i)' = Taken(i)
      BY <2>8 DEF UncountMissed, Owing, Taken
    <3>2. items' = items /\ literals' = literals
      BY <2>8 DEF UncountMissed
    <3> QED BY <3>1, <3>2, SameCounted
  <2>9. CASE NoneMissed
    <3>1. \A i \in Buckets : Owing(i)' = Owing(i) /\ Taken(i)' = Taken(i)
      BY <2>9 DEF NoneMissed, Owing, Taken
    <3>2. items' = items /\ literals' = literals
      BY <2>9 DEF NoneMissed
    <3> QED BY <3>1, <3>2, SameCounted
  <2>10. CASE LockAlone
    <3>1. \A i \in Buckets : Owing(i)' = Owing(i) /\ Taken(i)' = Taken(i)
      BY <2>10 DEF LockAlone, Owing, Taken
    <3>2. items' = items /\ literals' = literals
      BY <2>10 DEF LockAlone
    <3> QED BY <3>1, <3>2, SameCounted
  <2>11. CASE Shrink
    <3>1. \A i \in Buckets : /\ Owing(i) = {} /\ Owing(i)' = {}
                            /\ Taken(i) = 0 /\ Taken(i)' = 0
                            /\ Counting(i) = {} /\ Uncounting(i) = 0
      BY <2>11 DEF Shrink, Owing, Taken, Counting, Uncounting, LocksHeld, Adding
    <3>2. \A i \in Buckets : size[i] = items[i]
      BY <3>1, SizesEqual
    <3>3. \A i \in Buckets : Counted[i] = size[i] /\ Counted'[i] = items'[i]
      <4>1. items \in [Buckets -> Nat] /\ items' \in [Buckets -> Nat]
        BY <2>11 DEF Shrink
      <4>2. \A i \in Buckets : Counted[i] = items[i] - 0 + 0
        BY <3>1, FS_EmptySet DEF Counted
      <4>3. \A i \in Buckets : Counted'[i] = items'[i] - 0 + 0
        BY <3>1, FS_EmptySet DEF Counted
      <4> QED BY <3>2, <4>1, <4>2, <4>3
    <3>4. /\ Emptied \in SUBSET Buckets
          /\ literals' = literals - LiteralsOf(size, Emptied)
          /\ \A i \in Buckets : items'[i] = IF i \in Emptied THEN 0 ELSE items[i]
      BY <2>11 DEF Shrink, Emptied
    <3>5. Counted \in [Buckets -> Int] /\ Counted' \in [Buckets -> Int]
      <4>1. items' \in [Buckets -> Nat]
        BY <2>11 DEF Shrink
      <4>2. Counted' = [i \in Buckets |-> Counted'[i]]
        BY DEF Counted
      <4>3. Counted \in [Buckets -> Int]
        BY CountedType
      <4> QED BY <3>3, <4>1, <4>2, <4>3
    <3>6. \A i \in Buckets : Counted'[i] = IF i \in Emptied THEN 0 ELSE Counted[i]
      BY <3>2, <3>3, <3>4
    <3>7. LiteralsOf(Counted', Buckets)
            = LiteralsOf(Counted, Buckets) - LiteralsOf(Counted, Emptied)
      <4> DEFINE E == Emptied
      <4> HIDE DEF E
      <4>1. /\ E \in SUBSET Buckets
            /\ \A i \in Buckets : Counted'[i] = IF i \in E THEN 0 ELSE Counted[i]
        BY <3>4, <3>6 DEF E
      <4>2. LiteralsOf(Counted', Buckets) = LiteralsOf(Counted, Buckets) - LiteralsOf(Counted, E)
        BY <3>5, <4>1, LiteralsEmptied
      <4> QED BY <4>2 DEF E
    <3>8. LiteralsOf(Counted, Emptied) = LiteralsOf(size, Emptied)
      BY <3>3, <3>4, LiteralsSame
    <3>9. LiteralsTrack' <=> literals' = LiteralsOf(Counted', Buckets)
      BY DEF LiteralsTrack
    <3> QED BY <3>4, <3>7, <3>8, <3>9 DEF LiteralsTrack
  <2> QED BY <1>2, <2>1, <2>2, <2>3, <2>4, <2>5, <2>6, <2>7, <2>8, <2>9,
             <2>10, <2>11 DEF Consume
<1>3. CASE UNCHANGED vars
  <2>1. \A i \in Buckets : Owing(i)' = Owing(i) /\ Taken(i)' = Taken(i)
    BY <1>3 DEF vars, Owing, Taken
  <2> QED BY <1>3, <2>1, SameCounted DEF vars
<1> QED BY <1>1, <1>2, <1>3 DEF Next

(* Every step keeps the worst index, or a thread that raises it, above.    *)
LEMMA WorstTrackedStep ==
  ASSUME Typed, DatabaseInv, [Next]_vars
  PROVE  WorstTracked'
<1> USE ThreadFacts DEF Typed, PC, DatabaseInv, WorstTracked, LocksHeld,
      Adding, Taking, buckets, misses, locks, locals, Goto, Forget, Return
<1>1. ASSUME NEW t \in Threads, CallAdd(t) \/ AddClause(t)
      PROVE  WorstTracked'
  <2>1. CASE CallAdd(t)
    BY <2>1 DEF CallAdd
  <2>2. CASE TryLock(t)
    BY <2>2 DEF TryLock
  <2>3. CASE MissedPush(t)
    BY <2>3 DEF MissedPush
  <2>4. CASE MissedCount(t)
    BY <2>4 DEF MissedCount
  <2>5. CASE LoadSize(t)
    BY <2>5 DEF LoadSize
  <2>6. CASE LoadWorst(t)
    BY <2>6 DEF LoadWorst
  <2>7. CASE Reject(t)
    BY <2>7 DEF Reject
  <2>8. CASE Push(t)
    BY <2>8 DEF Push
  <2>9. CASE Count(t)
    BY <2>9 DEF Count
  <2>10. CASE AddLiterals(t)
    BY <2>10 DEF AddLiterals, EndsCall
  <2>11. CASE Exchange(t)
    BY <2>11 DEF Exchange
  <2>12. CASE ExchangeFails(t)
    BY <2>12 DEF ExchangeFails
    <2> QED BY <1>1, <2>1, <2>2, <2>3, <2>4, <2>5, <2>6, <2>7, <2>8, <2>9,
             <2>10, <2>11, <2>12 DEF AddClause
<1>2. ASSUME Consume
      PROVE  WorstTracked'
  <2>1. CASE CallGetOne
    BY <2>1 DEF CallGetOne
  <2>2. CASE Scan
    BY <2>2 DEF Scan
  <2>3. CASE Uncount
    BY <2>3 DEF Uncount
  <2>4. CASE SubLiterals
    BY <2>4 DEF SubLiterals, EndGetOne
  <2>5. CASE GetNone
    BY <2>5 DEF GetNone, EndGetOne
  <2>6. CASE TestMissed
    BY <2>6 DEF TestMissed
  <2>7. CASE PopMissed
    BY <2>7 DEF PopMissed
  <2>8. CASE UncountMissed
    BY <2>8 DEF UncountMissed
  <2>9. CASE NoneMissed
    BY <2>9 DEF NoneMissed
  <2>10. CASE LockAlone
    BY <2>10 DEF LockAlone
  <2>11. CASE Shrink
    <3>1. \A t \in Threads : pc[t] \notin Adding /\ pc'[t] \notin Adding
      BY <2>11 DEF Shrink, LocksHeld, Adding
    <3>2. \A i \in Buckets : size[i] = items[i]
      <4>1. \A i \in Buckets : Counting(i) = {} /\ Uncounting(i) = 0
        BY <2>11, <3>1 DEF Shrink, Counting, Uncounting, Adding
      <4> QED BY <4>1, SizesEqual
    <3>3. ASSUME NEW i \in Long, items'[i] > 0
          PROVE  i <= worst'
      BY <2>11, <3>2, <3>3 DEF Shrink
    <3> QED BY <3>1, <3>3 DEF WorstTracked, Adding
    <2> QED BY <1>2, <2>1, <2>2, <2>3, <2>4, <2>5, <2>6, <2>7, <2>8, <2>9,
             <2>10, <2>11 DEF Consume
<1>3. CASE UNCHANGED vars
  BY <1>3 DEF vars
<1> QED BY <1>1, <1>2, <1>3 DEF Next

(* The inductive invariant of the database.                                *)
THEOREM DatabaseCorrect == Spec => [](Typed /\ DatabaseInv)
<1>1. Typed /\ DatabaseInv /\ [Next]_vars => Typed' /\ DatabaseInv'
  BY TypedStep, LocksHeldStep, SizesTrackStep, LiteralsTrackStep, WorstTrackedStep
  DEF DatabaseInv
<1> QED BY <1>1, DatabaseInit, PTL DEF Spec

(* No clause is in a bucket above the worst one once every addition is     *)
(* over, whatever the order of the compare-and-exchanges.                  *)
THEOREM WorstCoversCorrect == Spec => []WorstCovers
<1>1. Typed /\ DatabaseInv => WorstCovers
  <2> SUFFICES ASSUME Typed, DatabaseInv, readers = {}, NEW i \in Long, items[i] > 0
               PROVE  i <= worst
    BY DEF WorstCovers
  <2> QED BY DEF DatabaseInv, LocksHeld, WorstTracked, Adding
<1> QED BY <1>1, DatabaseCorrect, PTL

(* Whenever no thread works on the buckets, the counters tell the truth:   *)
(* no interleaving of the accesses counts a clause twice or not at all.    *)
THEOREM CountersAgreeCorrect == Spec => []CountersAgree
<1>1. Typed /\ DatabaseInv => CountersAgree
  <2> SUFFICES ASSUME Typed, DatabaseInv, readers = {}
               PROVE  size = items /\ literals = LiteralsOf(items, Buckets)
    BY DEF CountersAgree
  <2>1. \A i \in Buckets : /\ Owing(i) = {} /\ Taken(i) = 0
                          /\ Counting(i) = {} /\ Uncounting(i) = 0
    BY DEF DatabaseInv, LocksHeld, Adding, Taking, Owing, Taken, Counting, Uncounting
  <2>2. \A i \in Buckets : size[i] = items[i]
    BY <2>1, SizesEqual
  <2>3. \A i \in Buckets : Counted[i] = items[i]
    <3> SUFFICES ASSUME NEW i \in Buckets PROVE Counted[i] = items[i]
      OBVIOUS
    <3>1. Cardinality(Owing(i)) = 0 /\ Taken(i) = 0
      BY <2>1, FS_EmptySet
    <3> QED BY <3>1 DEF Counted, Typed
  <2>4. LiteralsOf(Counted, Buckets) = LiteralsOf(items, Buckets)
    BY <2>3, LiteralsSame
  <2> QED BY <2>2, <2>4 DEF DatabaseInv, LiteralsTrack, Typed
<1> QED BY <1>1, DatabaseCorrect, PTL

(* In the middle of a shrinking the counters are those of the queues.      *)
LEMMA ShrinkCounts ==
  ASSUME Typed, DatabaseInv, Shrink
  PROVE  /\ size \in [Buckets -> Nat] /\ literals \in Int
         /\ \A i \in Buckets : size[i] = items[i]
         /\ \A i \in Buckets : items'[i] = IF i \in Emptied THEN 0 ELSE items[i]
         /\ literals' = literals - LiteralsOf(size, Emptied)
         /\ Emptied \in SUBSET Buckets
<1>1. \A i \in Buckets : Counting(i) = {} /\ Uncounting(i) = 0
  BY ThreadFacts DEF Shrink, Counting, Uncounting, DatabaseInv, LocksHeld, Adding
<1>2. \A i \in Buckets : size[i] = items[i]
  BY <1>1, SizesEqual
<1>3. literals \in Int
  <2>1. LiteralsOf(Counted, Buckets) \in Int
    BY CountedType, LiteralsType
  <2> QED BY <2>1 DEF DatabaseInv, LiteralsTrack
<1> QED BY <1>2, <1>3, ThreadFacts DEF Shrink, Typed, Emptied

(* A bucket that is worse than an emptied one is emptied.                  *)
LEMMA EmptiedFromTheWorst ==
  ASSUME size \in [Buckets -> Nat], literals \in Int,
         NEW i \in Emptied, NEW j \in Long, i < j, size[j] # 0
  PROVE  j \in Emptied
<1> DEFINE above(k) == {n \in Long : n > k}
<1>1. above(j) \in SUBSET above(i) /\ above(i) \in SUBSET Buckets /\ above(j) \in SUBSET Buckets
  BY ThreadFacts DEF Emptied
<1>2. literals - LiteralsOf(size, above(i)) > Capacity
  BY DEF Emptied
<1> HIDE DEF above
<1>3. LiteralsOf(size, above(j)) <= LiteralsOf(size, above(i))
  BY <1>1, LiteralsMonotone
<1>4. LiteralsOf(size, above(i)) \in Int /\ LiteralsOf(size, above(j)) \in Int
  <2>1. size \in [Buckets -> Int]
    OBVIOUS
  <2> QED BY <1>1, <2>1, LiteralsType
<1>5. literals - LiteralsOf(size, above(j)) > Capacity
  BY <1>2, <1>3, <1>4, DatabaseAssumption
<1> QED BY <1>5 DEF Emptied, above

(* Unless every long clause is gone, what is left fits: the worst bucket   *)
(* that is kept was kept because the better ones fit with it.              *)
LEMMA ShrinkFits ==
  ASSUME Typed, DatabaseInv, Shrink, NEW i \in Long, items'[i] # 0
  PROVE  literals' <= Capacity
<1> DEFINE K == {k \in Long : size[k] # 0 /\ k \notin Emptied}
<1>1. /\ size \in [Buckets -> Nat] /\ literals \in Int
      /\ literals' = literals - LiteralsOf(size, Emptied)
      /\ Emptied \in SUBSET Buckets /\ i \in K
  BY ShrinkCounts, ThreadFacts
<1>2. PICK k \in K : \A j \in K : j <= k
  <2>1. K \in SUBSET Buckets /\ K # {}
    BY <1>1, ThreadFacts
  <2> HIDE DEF K
  <2> QED BY <2>1, HasWorst
<1> DEFINE above == {n \in Long : n > k}
<1>3. k \in Long /\ size[k] # 0 /\ k \notin Emptied
  BY <1>2
<1>4. ~ (literals - LiteralsOf(size, above) > Capacity)
  BY <1>3 DEF Emptied
<1>5. above \in SUBSET Buckets /\ \A n \in above : n \notin Emptied => size[n] = 0
  <2> SUFFICES ASSUME NEW n \in above, n \notin Emptied, size[n] # 0 PROVE FALSE
    BY ThreadFacts
  <2>1. n \in K /\ n > k /\ n \in Nat /\ k \in Nat
    BY <1>3, ThreadFacts
  <2> QED BY <1>2, <2>1
<1> HIDE DEF above, K
<1>6. LiteralsOf(size, above) <= LiteralsOf(size, Emptied)
  <2> DEFINE both == above \intersect Emptied
  <2>1. size \in [Buckets -> Int] /\ both \in SUBSET above /\ both \in SUBSET Emptied
    BY <1>1
  <2>2. LiteralsOf(size, above) = LiteralsOf(size, above \ both) + LiteralsOf(size, both)
    BY <1>5, <2>1, LiteralsSplit
  <2>3. LiteralsOf(size, above \ both) = 0
    <3>1. above \ both \in SUBSET Buckets /\ \A n \in above \ both : size[n] = 0
      BY <1>5
    <3> QED BY <2>1, <3>1, LiteralsZero
  <2>4. LiteralsOf(size, both) <= LiteralsOf(size, Emptied) /\ LiteralsOf(size, both) \in Int
    BY <1>1, <2>1, LiteralsMonotone, LiteralsType
  <2> QED BY <2>2, <2>3, <2>4
<1>7. LiteralsOf(size, above) \in Int /\ LiteralsOf(size, Emptied) \in Int
  <2>1. size \in [Buckets -> Int]
    BY <1>1
  <2> QED BY <1>1, <1>5, <2>1, LiteralsType
<1> QED BY <1>1, <1>4, <1>6, <1>7, DatabaseAssumption

(* A shrinking leaves no more literals than the capacity, unless only      *)
(* units are left, and empties no bucket that is better than one it keeps. *)
THEOREM ShrinksFromTheWorstCorrect == Spec => ShrinksFromTheWorst
<1>1. ASSUME Typed, DatabaseInv, [Next]_vars, pc[Consumer] = "shrink", pc'[Consumer] = "idle"
      PROVE  /\ literals' <= Capacity \/ \A i \in Long : items'[i] = 0
             /\ \A i, j \in Long : i < j /\ items'[i] < items[i] => items'[j] = 0
  <2>1. Shrink
    <3> USE <1>1, ThreadFacts DEF Typed, Goto, Forget, Return
    <3>1. ASSUME NEW t \in Threads, CallAdd(t) \/ AddClause(t)
          PROVE  FALSE
      BY <3>1
      DEF AddClause, CallAdd, TryLock, MissedPush, MissedCount, LoadSize, LoadWorst, Reject,
          Push, Count, AddLiterals, Exchange, ExchangeFails, locks, locals
    <3>2. CASE Consume
      BY <3>2
      DEF Consume, CallGetOne, Scan, Uncount, SubLiterals, GetNone, EndGetOne, TestMissed,
          PopMissed, UncountMissed, NoneMissed, LockAlone
    <3>3. ~ UNCHANGED vars
      BY DEF vars
    <3> QED BY <3>1, <3>2, <3>3 DEF Next
  <2>2. /\ size \in [Buckets -> Nat] /\ literals \in Int
        /\ \A i \in Buckets : size[i] = items[i]
        /\ \A i \in Buckets : items'[i] = IF i \in Emptied THEN 0 ELSE items[i]
    BY <1>1, <2>1, ShrinkCounts
  <2>3. literals' <= Capacity \/ \A i \in Long : items'[i] = 0
    BY <1>1, <2>1, ShrinkFits
  <2>4. ASSUME NEW i \in Long, NEW j \in Long, i < j, items'[i] < items[i]
        PROVE  items'[j] = 0
    <3>1. i \in Emptied
      BY <2>2, <2>4, ThreadFacts
    <3>2. size[j] # 0 => j \in Emptied
      BY <2>2, <2>4, <3>1, EmptiedFromTheWorst
    <3> QED BY <2>2, <3>2, ThreadFacts
  <2> QED BY <2>3, <2>4
<1> QED BY <1>1, DatabaseCorrect, PTL DEF ShrinksFromTheWorst, Spec
===============================================================================
