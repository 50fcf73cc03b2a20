---------------------- MODULE CadiBackPartitionProofs ----------------------
(***************************************************************************)
(* Proofs about the workers that choose their chunks by blocks, for any    *)
(* number of workers, parts and blocks, whatever the other ranks claim and *)
(* publish.                                                                *)
(*                                                                         *)
(* The search stays right because a chunk is made of candidates, whoever   *)
(* chose it (SearchInv).  Waiting is safe for two reasons.  The owner of a *)
(* block only ever passes from nobody to a worker, and from a worker to    *)
(* another rank, so that what a scan has seen taken stays taken (ClaimInv); *)
(* and a stealing worker publishes all it decides, so that a variable the  *)
(* board does not know is still a candidate of it (Published).             *)
(***************************************************************************)
EXTENDS CadiBackPartition, CadiBackProofs
-----------------------------------------------------------------------------
(* The smallest and the largest number of a set. *)

LEMMA MinFacts ==
  ASSUME NEW S \in SUBSET Nat, S # {}
  PROVE  Min(S) \in S /\ \A s \in S : Min(S) <= s
<1> DEFINE Below == {p \in Nat \X Nat : p[1] < p[2]}
<1>1. IsWellFoundedOn(Below, Nat)
  BY NatLessThanWellFounded DEF OpToRel
<1>2. \E x \in S : \A y \in S : << y, x >> \notin Below
  <2> HIDE DEF Below
  <2> QED BY <1>1, WFMin
<1>3. PICK x \in S : \A y \in S : << y, x >> \notin Below
  BY <1>2
<1>4. ASSUME NEW y \in S PROVE x <= y
  <2>1. << y, x >> \notin Below /\ x \in Nat /\ y \in Nat
    BY <1>3
  <2> QED BY <2>1
<1> QED BY <1>4 DEF Min

LEMMA MaxFacts ==
  ASSUME NEW S \in SUBSET Nat, S # {}, NEW n \in Nat, \A s \in S : s <= n
  PROVE  Max(S) \in S /\ \A s \in S : s <= Max(S)
<1> DEFINE T == {n - s : s \in S}
<1>1. T \in SUBSET Nat /\ T # {}
  <2>1. \A s \in S : n - s \in T /\ n - s \in Nat
    OBVIOUS
  <2> QED BY <2>1
<1>2. Min(T) \in T /\ \A t \in T : Min(T) <= t
  <2> HIDE DEF T
  <2> QED BY <1>1, MinFacts
<1>3. PICK x \in S : Min(T) = n - x
  BY <1>2
<1>4. \A y \in S : x >= y
  <2> SUFFICES ASSUME NEW y \in S PROVE x >= y
    OBVIOUS
  <2>1. n - y \in T
    OBVIOUS
  <2>2. n - x <= n - y
    BY <1>2, <1>3, <2>1
  <2> QED BY <2>2
<1>5. Max(S) \in S /\ \A y \in S : Max(S) >= y
  BY <1>4 DEF Max
<1>6. Max(S) \in Nat
  BY <1>5
<1> QED BY <1>5, <1>6
-----------------------------------------------------------------------------
(* Parts and blocks. *)

LEMMA CeilDivFacts ==
  ASSUME NEW n \in Nat, NEW d \in Nat \ {0}
  PROVE  /\ CeilDiv(n, d) \in Nat
         /\ \A a \in Nat : a < n => a \div d < CeilDiv(n, d)
<1> DEFINE c == CeilDiv(n, d)
           r == (n + d - 1) % d
<1>1. n + d - 1 \in Nat
  OBVIOUS
<1>2. c \in Nat /\ r \in 0 .. d - 1 /\ n + d - 1 = d * c + r
  BY <1>1 DEF CeilDiv
<1>3. ASSUME NEW a \in Nat, a < n PROVE a \div d < c
  <2> DEFINE q == a \div d
             s == a % d
  <2>1. q \in Nat /\ s \in 0 .. d - 1 /\ a = d * q + s
    OBVIOUS
  <2> HIDE DEF c, r, q, s
  <2>2. SUFFICES ASSUME q >= c PROVE FALSE
    BY <1>2, <2>1 DEF q
  <2>3. d * q >= d * c
    BY <1>2, <2>1, <2>2
  <2>4. d * c <= a
    BY <2>1, <2>3, <1>2
  <2> QED BY <1>2, <1>3, <2>4
<1> QED BY <1>2, <1>3

(* A variable is in a block of its part, and each part has as many.        *)
LEMMA BlockFacts ==
  /\ BlocksPerPart \in Nat
  /\ \A v \in Vars : /\ PartOf(v) \in 0 .. PartCount - 1
                     /\ BlockOfVar(v) \in BlocksOf(PartOf(v))
                     /\ BlockOfVar(v) \in Blocks
<1> DEFINE N == Cardinality(Vars)
           A == CeilDiv(N, PartCount)
<1>1. N \in Nat
  BY PartitionAssumption, FS_CardinalityType
<1>2. PartCount \in Nat \ {0} /\ BlockVars \in Nat \ {0}
  BY PartitionAssumption
<1>3. A \in Nat /\ \A a \in Nat : a < N => a \div PartCount < A
  <2> HIDE DEF N
  <2> QED BY <1>1, <1>2, CeilDivFacts
<1>4. BlocksPerPart \in Nat /\ \A a \in Nat : a < A => a \div BlockVars < BlocksPerPart
  <2>1. BlocksPerPart = CeilDiv(A, BlockVars)
    BY DEF BlocksPerPart
  <2> HIDE DEF A
  <2> QED BY <1>2, <1>3, <2>1, CeilDivFacts
<1>5. ASSUME NEW v \in Vars
      PROVE  /\ PartOf(v) \in 0 .. PartCount - 1
             /\ BlockOfVar(v) \in BlocksOf(PartOf(v)) /\ BlockOfVar(v) \in Blocks
  <2> DEFINE p == PartOf(v)
             q == Rank[v] \div PartCount
             r == q \div BlockVars
             B == BlocksPerPart
  <2>1. Rank[v] \in Nat /\ Rank[v] < N
    BY <1>1, PartitionAssumption
  <2>2. p \in 0 .. PartCount - 1
    BY <1>2, <2>1 DEF PartOf
  <2>3. q \in Nat /\ q < A
    BY <1>2, <1>3, <2>1
  <2>4. r \in Nat /\ r < B
    <3> HIDE DEF q, A, B
    <3>1. q \div BlockVars \in Nat
      BY <1>2, <2>3
    <3> QED BY <1>4, <2>3, <3>1 DEF B
  <2>5. BlockOfVar(v) = p * B + r
    BY DEF BlockOfVar
  <2> HIDE DEF p, q, r, B
  <2>6. B \in Nat /\ p \in Nat
    BY <1>4, <2>2 DEF B
  <2>7. p * B \in Nat /\ (p + 1) * B = p * B + B
    BY <2>6
  <2>8. BlockOfVar(v) \in p * B .. (p + 1) * B - 1
    BY <2>4, <2>5, <2>6, <2>7
  <2>9. (p + 1) * B <= PartCount * B
    <3>1. p + 1 <= PartCount
      BY <1>2, <2>2
    <3> QED BY <1>2, <2>6, <3>1
  <2>10. BlockOfVar(v) \in 0 .. PartCount * B - 1
    <3>1. PartCount * B \in Nat
      BY <1>2, <2>6
    <3> QED BY <2>4, <2>5, <2>6, <2>7, <2>9, <3>1
  <2> QED BY <2>2, <2>8, <2>10 DEF p, B, BlocksOf, Blocks
<1> QED BY <1>4, <1>5

BlockOf(l) == BlockOfVar(VarOf(l))

LEMMA BlockOfLiteral ==
  ASSUME NEW l \in Lit
  PROVE  BlockOf(l) \in Blocks /\ VarOf(l) \in Vars
BY BlockFacts DEF BlockOf, Lit, VarOf

LEMMA BlocksAreNumbers == Blocks \subseteq Nat /\ IsFiniteSet(Blocks)
<1>1. PartCount * BlocksPerPart \in Nat
  BY BlockFacts, PartitionAssumption
<1>2. PartCount * BlocksPerPart - 1 \in Int
  BY <1>1
<1>3. IsFiniteSet(0 .. PartCount * BlocksPerPart - 1)
  BY <1>2, FS_Interval
<1> QED BY <1>1, <1>3 DEF Blocks

(* The block to steal is one that the scan has seen free and that holds    *)
(* candidates.                                                             *)
LEMMA BestIsFree ==
  ASSUME TypeOK, NEW w \in Workers, free[w] \subseteq Present(w), free[w] # {}
  PROVE  Best(w) \in free[w]
<1> DEFINE F == free[w]
           Parts == 0 .. PartCount - 1
           Count(p) == Cardinality(F \intersect BlocksOf(p))
           Counts == {Count(p) : p \in Parts}
           Most == Max(Counts)
           Bests == {p \in Parts : Count(p) = Most}
           part == Min(Bests)
<1>1. F \subseteq Blocks /\ \A b \in F : \E p \in Parts : b \in BlocksOf(p)
  <2>1. \A l \in cand[w] : VarOf(l) \in Vars
    BY DEF TypeOK, Lit, VarOf
  <2> QED BY <2>1, BlockFacts DEF Present
<1>2. F \subseteq Nat /\ IsFiniteSet(F)
  BY <1>1, BlocksAreNumbers, FS_Subset
<1>3. Cardinality(F) \in Nat
  BY <1>2, FS_CardinalityType
<1>4. \A p \in Parts : /\ IsFiniteSet(F \intersect BlocksOf(p))
                       /\ Count(p) \in Nat /\ Count(p) <= Cardinality(F)
                       /\ Count(p) = 0 <=> F \intersect BlocksOf(p) = {}
  <2> SUFFICES ASSUME NEW p \in Parts
               PROVE  /\ IsFiniteSet(F \intersect BlocksOf(p))
                      /\ Count(p) \in Nat /\ Count(p) <= Cardinality(F)
                      /\ Count(p) = 0 <=> F \intersect BlocksOf(p) = {}
    OBVIOUS
  <2>1. F \intersect BlocksOf(p) \in SUBSET F
    OBVIOUS
  <2>2. IsFiniteSet(F \intersect BlocksOf(p)) /\ Count(p) <= Cardinality(F)
    BY <1>2, <2>1, FS_Subset
  <2> QED BY <2>2, FS_CardinalityType, FS_EmptySet
<1>5. PICK p0 \in Parts : F \intersect BlocksOf(p0) # {}
  BY <1>1
<1>6. Counts \in SUBSET Nat /\ Counts # {} /\ \A c \in Counts : c <= Cardinality(F)
  BY <1>4, <1>5
<1>7. Most \in Counts /\ \A c \in Counts : c <= Most
  <2> HIDE DEF Counts
  <2> QED BY <1>3, <1>6, MaxFacts
<1>8. Most # 0
  <2>1. Count(p0) \in Counts /\ Count(p0) \in Nat /\ Count(p0) # 0
    BY <1>4, <1>5
  <2> HIDE DEF Counts, Count
  <2> QED BY <1>6, <1>7, <2>1
<1>9. Bests \in SUBSET Nat /\ Bests # {}
  <2>1. PICK p \in Parts : Most = Count(p)
    BY <1>7
  <2>2. p \in Bests
    BY <2>1
  <2>3. Parts \subseteq Nat
    BY PartitionAssumption
  <2> QED BY <2>2, <2>3
<1>10. part \in Bests
  <2> HIDE DEF Bests
  <2> QED BY <1>9, MinFacts
<1>11. F \intersect BlocksOf(part) # {}
  <2> HIDE DEF Most, part
  <2> QED BY <1>4, <1>8, <1>10
<1>12. \E n \in Nat : \A b \in F : b <= n
  <2>1. PartCount * BlocksPerPart \in Nat
    BY BlockFacts, PartitionAssumption
  <2>2. \A b \in F : b <= PartCount * BlocksPerPart
    BY <1>1, <2>1 DEF Blocks
  <2> QED BY <2>1, <2>2
<1>13. Max(F \intersect BlocksOf(part)) \in F \intersect BlocksOf(part)
  <2> HIDE DEF part
  <2>1. F \intersect BlocksOf(part) \in SUBSET Nat
    BY <1>2
  <2>2. PICK n \in Nat : \A b \in F : b <= n
    BY <1>12
  <2>3. \A b \in F \intersect BlocksOf(part) : b <= n
    BY <2>2
  <2> QED BY <1>11, <2>1, <2>3, MaxFacts
<1>14. Best(w) = Max(F \intersect BlocksOf(part))
  BY DEF Best
<1> QED BY <1>13, <1>14
-----------------------------------------------------------------------------
(* The choice of the chunk. *)

(* A worker hunts for a block between two chunks, and a scan only fills    *)
(* unread and free with blocks that hold candidates.                       *)
HuntShape(w) ==
  /\ hunt[w] # "none" => Stealing(w) /\ pc[w] = "select" /\ current[w] = NoBlock
  /\ hunt[w] = "scan" =>
       /\ ownNext[w] = BlocksPerPart
       /\ unread[w] \union free[w] \subseteq Present(w)

(* Candidates that tie in the order are in the same block, so that the     *)
(* first block is well defined.                                            *)
InLoop(w) ==
  \/ pc[w] \in {"loop", "sync", "fixed", "select", "solve", "unsat"}
  \/ pc[w] = "filter" /\ chunk[w] # {}

BlocksAgree(w) ==
  Mode[w] # "prefix" /\ ~ Stealing(w) /\ InLoop(w) =>
    \A k, l \in cand[w] : Order[w][VarOf(k)] = Order[w][VarOf(l)] =>
      blockOf[w][VarOf(k)] = blockOf[w][VarOf(l)]

ChoiceInv ==
  /\ PartTypeOK
  /\ SearchInv
  /\ \A w \in Workers : ProgressInv(w) /\ HuntShape(w) /\ BlocksAgree(w)

LEMMA StealingMode ==
  ASSUME NEW w \in Workers, Stealing(w)
  PROVE  Mode[w] = "steal"
BY DEF Stealing

(* gatherChunk returns candidates of the block, at least one if there is   *)
(* one.                                                                    *)
LEMMA GatherFacts ==
  ASSUME TypeOK, NEW w \in Workers, NEW b, NEW n \in Nat, n > 0
  PROVE  /\ Gather(w, b, n) \in SUBSET cand[w]
         /\ \A l \in Gather(w, b, n) : BlockOf(l) = b
         /\ (\E l \in cand[w] : BlockOf(l) = b) => Gather(w, b, n) # {}
<1> DEFINE S == {l \in cand[w] : BlockOfVar(VarOf(l)) = b}
<1>1. S \in SUBSET cand[w] /\ S \in SUBSET Lit
  BY DEF TypeOK
<1>2. Gather(w, b, n) = Prefix(w, S, n)
  BY DEF Gather
<1>3. Prefix(w, S, n) \in SUBSET S
  BY DEF Prefix
<1>4. ASSUME S # {} PROVE Prefix(w, S, n) # {}
  <2> HIDE DEF S
  <2>1. PICK l \in S : \A k \in S : Order[w][VarOf(l)] <= Order[w][VarOf(k)]
    BY <1>1, <1>4, FirstInOrder
  <2> QED BY <1>1, <2>1, FirstInPrefix
<1> QED BY <1>1, <1>2, <1>3, <1>4 DEF BlockOf

(* What each choice of a chunk amounts to: candidates, at least one unless *)
(* the worker waits.                                                       *)
Waits(w) == Stealing(w) /\ hunt[w] = "scan" /\ current'[w] = NoBlock

Chooses(w, c) ==
  /\ pc[w] = "select"
  /\ c \subseteq cand[w]
  /\ c = {} => Waits(w)
  /\ ConstrainWith(w, c)
  /\ chunkSize' = chunkSize \/ chunkSize' = [chunkSize EXCEPT ![w] = StartSize(w)]

LEMMA PrefixChooses ==
  ASSUME ChoiceInv, NEW w \in Workers, SelectChunk(w)
  PROVE  Chooses(w, Prefix(w, cand[w], chunkSize[w]))
<1> DEFINE c == Prefix(w, cand[w], chunkSize[w])
<1>1. TypeOK /\ ProgressInv(w)
  BY DEF ChoiceInv, PartTypeOK
<1>2. pc'[w] = "solve"
  BY <1>1, SelectChunkProgress
<1>3. ConstrainWith(w, c) /\ chunkSize' = chunkSize /\ pc[w] = "select"
  BY DEF SelectChunk
<1>4. c \subseteq cand[w]
  BY DEF Prefix
<1> HIDE DEF c
<1>5. c # {}
  BY <1>1, <1>2, <1>3 DEF ConstrainWith, Goto, TypeOK
<1> QED BY <1>3, <1>4, <1>5 DEF Chooses, c

(* The block of the first candidate.                                       *)
LEMMA FirstBlockFacts ==
  ASSUME TypeOK, NEW w \in Workers, cand[w] # {}
  PROVE  \E v \in Vars : /\ FirstBlock(w) = blockOf[w][v]
                         /\ \E l \in cand[w] : VarOf(l) = v
                         /\ \A l \in cand[w] : Order[w][v] <= Order[w][VarOf(l)]
<1>1. cand[w] \in SUBSET Lit /\ \A l \in cand[w] : VarOf(l) \in Vars
  BY DEF TypeOK, Lit, VarOf
<1>2. PICK l \in cand[w] : \A k \in cand[w] : Order[w][VarOf(l)] <= Order[w][VarOf(k)]
  BY <1>1, FirstInOrder
<1> DEFINE P(v) == /\ \E k \in cand[w] : VarOf(k) = v
                   /\ \A k \in cand[w] : Order[w][v] <= Order[w][VarOf(k)]
           v == CHOOSE x \in Vars : P(x)
<1>3. v \in Vars /\ P(v)
  <2>1. VarOf(l) \in Vars /\ P(VarOf(l))
    BY <1>1, <1>2
  <2> HIDE DEF P
  <2> QED BY <2>1
<1>4. FirstBlock(w) = blockOf[w][v]
  BY DEF FirstBlock
<1> HIDE DEF v
<1> QED BY <1>3, <1>4

LEMMA BlockChooses ==
  ASSUME ChoiceInv, NEW w \in Workers, SelectInBlock(w)
  PROVE  \E c : Chooses(w, c)
<1>1. TypeOK /\ ProgressInv(w) /\ BlocksAgree(w)
  BY DEF ChoiceInv, PartTypeOK
<1> DEFINE b == FirstBlock(w)
           size == IF b # current[w] THEN StartSize(w) ELSE chunkSize[w]
           c == PrefixOfBlock(w, b, size)
<1>2. /\ pc[w] = "select" /\ ~ Stealing(w) /\ Mode[w] # "prefix"
      /\ chunkSize' = [chunkSize EXCEPT ![w] = size]
      /\ ConstrainWith(w, c)
  BY DEF SelectInBlock, SelectBlock
<1>3. cand[w] # {} /\ size \in Nat /\ size > 0
  <2>1. cand[w] # {} /\ chunkSize[w] > 0
    BY <1>1, <1>2 DEF ProgressInv
  <2> HIDE DEF b
  <2> QED BY <1>1, <2>1, SizesPositive
<1>4. c \subseteq cand[w]
  BY DEF PrefixOfBlock, Prefix
<1> HIDE DEF size, b
<1>5. PICK v \in Vars : /\ b = blockOf[w][v]
                        /\ \E l \in cand[w] : VarOf(l) = v
                        /\ \A l \in cand[w] : Order[w][v] <= Order[w][VarOf(l)]
  BY <1>1, <1>3, FirstBlockFacts DEF b
<1>6. PICK l \in cand[w] : VarOf(l) = v
  BY <1>5
<1>7. cand[w] \in SUBSET Lit /\ \A k \in cand[w] : Order[w][VarOf(k)] \in Nat
  BY <1>1, ConstantsAssumption DEF TypeOK, Lit, VarOf
<1>8. l \in Prefix(w, cand[w], size)
  BY <1>3, <1>5, <1>6, <1>7, FirstInPrefix
<1>9. ASSUME NEW k \in cand[w], Order[w][VarOf(k)] <= Order[w][VarOf(l)]
      PROVE  blockOf[w][VarOf(k)] = b
  <2>1. Order[w][VarOf(k)] = Order[w][VarOf(l)]
    BY <1>5, <1>6, <1>7, <1>9
  <2> QED BY <1>1, <1>2, <1>5, <1>6, <2>1 DEF BlocksAgree, InLoop
<1>10. l \in c
  BY <1>8, <1>9 DEF PrefixOfBlock
<1>11. chunkSize' = chunkSize \/ chunkSize' = [chunkSize EXCEPT ![w] = StartSize(w)]
  BY <1>1, <1>2 DEF size, TypeOK
<1> QED BY <1>2, <1>4, <1>10, <1>11 DEF Chooses

LEMMA TakeChooses ==
  ASSUME ChoiceInv, NEW w \in Workers, hunt[w] # "none", NEW b \in Present(w), TakeBlock(w, b)
  PROVE  /\ Chooses(w, Gather(w, b, StartSize(w)))
         /\ Gather(w, b, StartSize(w)) # {}
<1>1. TypeOK /\ pc[w] = "select"
  BY DEF ChoiceInv, PartTypeOK, HuntShape
<1>2. StartSize(w) \in Nat /\ StartSize(w) > 0
  BY <1>1, SizesPositive
<1>3. \E l \in cand[w] : BlockOf(l) = b
  BY DEF Present, BlockOf
<1>4. Gather(w, b, StartSize(w)) \in SUBSET cand[w] /\ Gather(w, b, StartSize(w)) # {}
  BY <1>1, <1>2, <1>3, GatherFacts
<1> QED BY <1>1, <1>4 DEF TakeBlock, Chooses

LEMMA BestIsPresent ==
  ASSUME ChoiceInv, NEW w \in Workers, hunt[w] = "scan", free[w] # {}
  PROVE  Best(w) \in Present(w) /\ Best(w) \in free[w]
<1>1. TypeOK /\ free[w] \subseteq Present(w)
  BY DEF ChoiceInv, PartTypeOK, HuntShape
<1>2. Best(w) \in free[w]
  BY <1>1, BestIsFree
<1> QED BY <1>1, <1>2

LEMMA KeepChooses ==
  ASSUME ChoiceInv, NEW w \in Workers, KeepBlock(w)
  PROVE  UNCHANGED vars \/ Chooses(w, Gather(w, current[w], chunkSize[w]))
<1> DEFINE c == Gather(w, current[w], chunkSize[w])
<1>1. TypeOK /\ ProgressInv(w) /\ pc[w] = "select"
  BY DEF ChoiceInv, PartTypeOK, KeepBlock
<1>2. chunkSize[w] \in Nat /\ chunkSize[w] > 0
  BY <1>1, SizesPositive DEF ProgressInv
<1>3. c \in SUBSET cand[w]
  BY <1>1, <1>2, GatherFacts
<1>4. UNCHANGED vars \/ (c # {} /\ ConstrainWith(w, c) /\ chunkSize' = chunkSize)
  BY DEF KeepBlock
<1> HIDE DEF c
<1> QED BY <1>1, <1>3, <1>4 DEF Chooses, c

LEMMA StealChooses ==
  ASSUME ChoiceInv, NEW w \in Workers, StealStep(w)
  PROVE  UNCHANGED vars \/ \E c : Chooses(w, c)
<1>1. CASE KeepBlock(w)
  BY <1>1, KeepChooses
<1>2. CASE ClaimOwn(w)
  <2> DEFINE b == PartIndex[w] * BlocksPerPart + ownNext[w]
  <2>1. hunt[w] # "none"
    BY <1>2 DEF ClaimOwn
  <2>2. (b \in Present(w) /\ TakeBlock(w, b)) \/ UNCHANGED vars
    BY <1>2 DEF ClaimOwn
  <2> HIDE DEF b
  <2> QED BY <2>1, <2>2, TakeChooses
<1>3. CASE OwnDone(w)
  BY <1>3 DEF OwnDone
<1>4. CASE ReadOwner(w)
  BY <1>4 DEF ReadOwner
<1>5. CASE Wait(w)
  <2>1. /\ ConstrainWith(w, {}) /\ chunkSize' = chunkSize /\ current' = current
        /\ hunt[w] = "scan"
    BY <1>5 DEF Wait
  <2>2. Stealing(w) /\ pc[w] = "select" /\ current[w] = NoBlock
    BY <2>1 DEF ChoiceInv, HuntShape
  <2>3. Chooses(w, {})
    BY <2>1, <2>2 DEF Chooses, Waits
  <2> QED BY <2>3
<1>6. CASE Steal(w)
  <2>1. hunt[w] = "scan" /\ free[w] # {} /\ (TakeBlock(w, Best(w)) \/ UNCHANGED vars)
    BY <1>6 DEF Steal
  <2>2. Best(w) \in Present(w)
    BY <2>1, BestIsPresent
  <2>3. CASE TakeBlock(w, Best(w))
    BY <2>1, <2>2, <2>3, TakeChooses
  <2> QED BY <2>1, <2>3
<1> QED BY <1>1, <1>2, <1>3, <1>4, <1>5, <1>6 DEF StealStep

(* The steps of the search that a step of this module makes.               *)
SearchMove(w) ==
  \/ CommonStep(w) \/ SolverStep(w) \/ Interrupt(w) \/ UNCHANGED vars
  \/ \E c : Chooses(w, c)

LEMMA PartStepMoves ==
  ASSUME ChoiceInv, NEW w \in Workers, PartStep(w) \/ SolverStep(w) \/ Interrupt(w)
  PROVE  SearchMove(w)
<1>1. CASE InheritedStep(w)
  BY <1>1, PrefixChooses DEF InheritedStep, SearchMove
<1>2. CASE InitCandidates(w)
  BY <1>2 DEF InitCandidates, CommonStep, SearchMove
<1>3. CASE SelectInBlock(w)
  BY <1>3, BlockChooses DEF SearchMove
<1>4. CASE StealStep(w)
  BY <1>4, StealChooses DEF SearchMove
<1> QED BY <1>1, <1>2, <1>3, <1>4 DEF PartStep, SearchMove

LEMMA ChooseOthers ==
  ASSUME TypeOK, NEW w \in Workers, NEW c, Chooses(w, c), NEW u \in Workers, u # w
  PROVE  SameSearch(u) /\ SameKnowledge(u)
BY DEF Chooses, ConstrainWith, Goto, TypeOK, SameSearch, SameKnowledge, solverVars, sharedVars

(* A move of a worker keeps the invariants of the search.                  *)
LEMMA MoveKeeps ==
  ASSUME TypeOK, SearchInv, \A u \in Workers : ProgressInv(u),
         NEW w \in Workers, SearchMove(w)
  PROVE  TypeOK' /\ SearchInv' /\ \A u \in Workers : ProgressInv(u)'
<1>1. CASE CommonStep(w)
  <2>1. Next
    BY <1>1 DEF Next, WorkerStep
  <2>2. ASSUME NEW u \in Workers PROVE ProgressInv(u)'
    <3>1. CASE u = w
      BY <1>1, <3>1, CommonStepProgress DEF SearchInv, WorkerInv
    <3>2. CASE u # w
      BY <1>1, <3>2, CommonStepOthers, ProgressOfOthers
    <3> QED BY <3>1, <3>2
  <2> QED BY <2>1, <2>2, TypeStep, SearchStep
<1>2. CASE SolverStep(w) \/ Interrupt(w)
  <2>1. Next
    BY <1>2 DEF Next
  <2> QED BY <1>2, <2>1, TypeStep, SearchStep, SolverStepOthers, ProgressOfOthers
<1>3. CASE UNCHANGED vars
  <2>1. \A u \in Workers : SameSearch(u)
    BY <1>3 DEF vars, searchVars, solverVars, SameSearch
  <2> QED BY <1>3, <2>1, TypeStep, SearchStep, ProgressOfOthers
<1>4. ASSUME NEW c, Chooses(w, c)
      PROVE  TypeOK' /\ SearchInv' /\ \A u \in Workers : ProgressInv(u)'
  <2>1. /\ pc[w] = "select" /\ c \in SUBSET cand[w] /\ ConstrainWith(w, c)
        /\ chunkSize' = chunkSize \/ chunkSize' = [chunkSize EXCEPT ![w] = StartSize(w)]
    BY <1>4 DEF Chooses
  <2>2. c \in SUBSET Lit
    BY <2>1 DEF TypeOK
  <2>3. chunkSize' \in [Workers -> 0 .. SizeMax]
    <3>1. StartSize(w) \in 0 .. SizeMax
      BY ConstantsAssumption DEF StartSize
    <3>2. chunkSize \in [Workers -> 0 .. SizeMax]
      BY DEF TypeOK
    <3> QED BY <2>1, <3>1, <3>2
  <2>4. TypeOK'
    BY <2>1, <2>2, <2>3
    DEF ConstrainWith, Goto, TypeOK, PC, solverVars, sharedVars
  <2>5. SearchInv'
    <3>1. LocalInv(w)
      BY DEF SearchInv, LocalInv
    <3>2. LocalInv(w)'
      BY <2>1, <3>1, ConstrainKeeps
    <3> QED BY <1>4, <3>2, ChooseOthers, OthersKeep
  <2>6. chunkSize'[w] > 0
    <3>1. chunkSize[w] > 0 /\ StartSize(w) > 0
      BY <2>1, SizesPositive DEF ProgressInv
    <3> QED BY <2>1, <3>1 DEF TypeOK
  <2>7. ProgressInv(w)'
    BY <2>1, <2>2, <2>6, ConstrainProgress
  <2>8. \A u \in Workers \ {w} : ProgressInv(u)'
    BY <1>4, ChooseOthers, ProgressOfOthers
  <2> QED BY <2>4, <2>5, <2>7, <2>8
<1> QED BY <1>1, <1>2, <1>3, <1>4 DEF SearchMove

(* What the exchange of the board brings is true.                          *)
LEMMA MergeStatusKeeps ==
  ASSUME TypeOK, SearchInv, NEW v \in Vars, MergeStatus(v)
  PROVE  /\ TypeOK' /\ SearchInv'
         /\ \A u \in Workers : SameSearch(u)
<1> USE DEF searchVars, solverVars
<1>1. PICK s \in Status \ {"unknown"} :
        StatusTrue(phi, v, s) /\ board' = Publish(board, v, s)
  BY DEF MergeStatus
<1>2. board \in [Vars -> Status] /\ \A u \in Vars : StatusTrue(phi, u, board[u])
  BY DEF TypeOK, SearchInv, BoardSound
<1>3. board' \in [Vars -> Status] /\ \A u \in Vars : StatusTrue(phi, u, board'[u])
  BY <1>1, <1>2, PublishTrue
<1>4. UNCHANGED << phi, pc, cand, todo, backbone, chunk, chunkSize, sigma, clauses, fixed,
                   exported, stop, result >>
  BY DEF MergeStatus
<1>5. TypeOK'
  BY <1>3, <1>4 DEF TypeOK
<1>6. BoardSound' /\ ClausesSound'
  BY <1>3, <1>4 DEF BoardSound, ClausesSound, SearchInv
<1>7. \A u \in Workers : WorkerInv(u)'
  BY <1>4, OtherWorkers DEF SearchInv
<1> QED BY <1>4, <1>5, <1>6, <1>7 DEF SearchInv, SameSearch
-----------------------------------------------------------------------------
(* Types, and where a worker is. *)

OtherCodes == {Code(i) : i \in OtherRanks}

(* The codes of the workers of all ranks are different, and none is 0.     *)
LEMMA CodeFacts ==
  /\ OtherCodes \subseteq 1 .. PartCount /\ Free \notin OtherCodes
  /\ \A w \in Workers : Me(w) \in 1 .. PartCount /\ Me(w) # Free
  /\ \A w \in Workers : Stealing(w) =>
       /\ Me(w) \notin OtherCodes
       /\ \A u \in Workers : Stealing(u) /\ u # w => Me(u) # Me(w)
<1>1. PartCount \in Nat \ {0} /\ PartIndex \in [Workers -> 0 .. PartCount - 1]
      /\ OtherRanks \subseteq 0 .. PartCount - 1
  BY PartitionAssumption
<1>2. OtherCodes \subseteq 1 .. PartCount
  BY <1>1 DEF OtherCodes, Code
<1>3. \A w \in Workers : Me(w) \in 1 .. PartCount
  BY <1>1 DEF Me, Code
<1>4. ASSUME NEW w \in Workers, Stealing(w) PROVE Me(w) \notin OtherCodes
  <2>1. PartIndex[w] \notin OtherRanks
    BY <1>4, StealingMode, PartitionAssumption
  <2> QED BY <1>1, <2>1 DEF OtherCodes, Code, Me
<1>5. ASSUME NEW w \in Workers, NEW u \in Workers, Stealing(w), Stealing(u), u # w
      PROVE  Me(u) # Me(w)
  <2>1. PartIndex[u] # PartIndex[w]
    BY <1>5, StealingMode, PartitionAssumption
  <2> QED BY <1>1, <2>1 DEF Me, Code
<1> QED BY <1>2, <1>3, <1>4, <1>5 DEF Free

LEMMA PresentBlocks ==
  ASSUME TypeOK, NEW w \in Workers
  PROVE  Present(w) \subseteq Blocks
<1>1. \A l \in cand[w] : VarOf(l) \in Vars
  BY DEF TypeOK, Lit, VarOf
<1> QED BY <1>1, BlockFacts DEF Present

(* The blocks of initCandidates are numbers.                               *)
LEMMA InitialBlockType ==
  ASSUME TypeOK, NEW w \in Workers, NEW v \in Vars
  PROVE  InitialBlock(w, v) \in Int
<1>1. IsFiniteSet(Lit)
  <2>1. IsFiniteSet({1}) /\ IsFiniteSet({-1})
    BY FS_Singleton
  <2>2. IsFiniteSet({1} \union {-1})
    BY <2>1, FS_Union
  <2>3. {1} \union {-1} = {1, -1}
    OBVIOUS
  <2> QED BY <2>2, <2>3, PartitionAssumption, FS_Product DEF Lit
<1>2. cand[w] \in SUBSET Lit
  BY DEF TypeOK
<1>3. IsFiniteSet(cand[w])
  BY <1>1, <1>2, FS_Subset
<1>4. {l \in cand[w] : Order[w][VarOf(l)] < Order[w][v]} \in SUBSET cand[w]
  OBVIOUS
<1>5. Position(w, v) \in Nat
  BY <1>3, <1>4, FS_Subset, FS_CardinalityType DEF Position
<1> DEFINE n == Cardinality(cand[w])
           S == {s \in 0 .. n : s * s >= n}
           root == CeilSqrt(n)
<1>6. n \in Nat
  BY <1>3, FS_CardinalityType
<1>7. S \in SUBSET Nat /\ n \in S
  <2> HIDE DEF n
  <2>1. n * n >= n
    BY <1>6
  <2> QED BY <1>6, <2>1
<1>8. root \in Nat
  <2>1. root = Min(S)
    BY DEF CeilSqrt
  <2>2. S # {}
    BY <1>7
  <2> HIDE DEF S, root, n
  <2> QED BY <1>7, <2>1, <2>2, MinFacts
<1>9. Max({1, root}) \in Nat /\ Max({1, root}) >= 1
  <2>1. {1, root} \in SUBSET Nat /\ {1, root} # {} /\ 1 \in {1, root}
    BY <1>8
  <2>2. root + 1 \in Nat /\ \A s \in {1, root} : s <= root + 1
    BY <1>8
  <2> HIDE DEF root
  <2> QED BY <2>1, <2>2, MaxFacts
<1>10. Position(w, v) \div Max({1, root}) \in Int
  <2> HIDE DEF root
  <2> QED BY <1>5, <1>9
<1>11. RelativePart(w, v) \in Int
  <2>1. PartOf(v) \in Int /\ PartCount \in Nat \ {0} /\ PartIndex[w] \in Int
    BY BlockFacts, PartitionAssumption
  <2> QED BY <2>1 DEF RelativePart
<1>12. NoBlock \in Int
  BY DEF NoBlock
<1> HIDE DEF root
<1> QED BY <1>10, <1>11, <1>12 DEF InitialBlock, root

(* What a step leaves alone of the variables of this module.               *)
LocalSame(u) ==
  /\ current'[u] = current[u] /\ blockOf'[u] = blockOf[u] /\ ownNext'[u] = ownNext[u]
  /\ hunt'[u] = hunt[u] /\ unread'[u] = unread[u] /\ free'[u] = free[u]

LEMMA HuntOfOthers ==
  ASSUME NEW u \in Workers, SameSearch(u), LocalSame(u), HuntShape(u), BlocksAgree(u)
  PROVE  HuntShape(u)' /\ BlocksAgree(u)'
<1>1. Present(u)' = Present(u)
  BY DEF SameSearch, Present
<1> QED BY <1>1 DEF SameSearch, LocalSame, HuntShape, BlocksAgree, InLoop, Stealing

LEMMA StartScanFacts ==
  ASSUME PartTypeOK, NEW w \in Workers, StartScan(w)
  PROVE  /\ hunt' = [hunt EXCEPT ![w] = "scan"]
         /\ unread' \in [Workers -> SUBSET Blocks]
         /\ free' \in [Workers -> SUBSET Blocks]
         /\ unread'[w] = ScanBlocks(w) \intersect Present(w) /\ free'[w] = {}
         /\ \A u \in Workers : u # w => unread'[u] = unread[u] /\ free'[u] = free[u]
BY DEF StartScan, Hunt, PartTypeOK, ScanBlocks

(* Each step of a stealing worker: the types, and where it leads to.       *)
LEMMA StealStepShape ==
  ASSUME ChoiceInv, NEW w \in Workers, StealStep(w), TypeOK'
  PROVE  /\ PartTypeOK'
         /\ HuntShape(w)'
         /\ blockOf' = blockOf
         /\ \A u \in Workers : u # w => LocalSame(u)
<1> USE DEF PartTypeOK, LocalSame, Hunt
<1>1. PartTypeOK /\ HuntShape(w) /\ NoBlock \in Int /\ Me(w) \in 0 .. PartCount
      /\ BlocksPerPart \in Nat /\ Blocks \subseteq Int /\ Present(w) \subseteq Blocks
  BY CodeFacts, BlockFacts, BlocksAreNumbers, PresentBlocks DEF ChoiceInv, NoBlock
<1>2. ASSUME NEW b \in Present(w), TakeBlock(w, b)
      PROVE  /\ owner' \in [Blocks -> 0 .. PartCount] /\ current' \in [Workers -> Int]
             /\ hunt' = [hunt EXCEPT ![w] = "none"]
             /\ \A u \in Workers : u # w => current'[u] = current[u]
  BY <1>1, <1>2 DEF TakeBlock
<1>3. CASE KeepBlock(w)
  <2>1. CASE UNCHANGED << chunkSize, current, hunt >>
    <3>1. hunt[w] = "none" /\ UNCHANGED << partVars >>
      BY <1>3, <2>1 DEF KeepBlock, partVars, localVars
    <3> QED BY <1>1, <3>1, <2>1 DEF HuntShape, partVars, localVars
  <2>2. CASE /\ current' = [current EXCEPT ![w] = NoBlock] /\ Hunt(w, "own")
             /\ UNCHANGED vars
    <3>1. pc'[w] = "select" /\ Stealing(w) /\ UNCHANGED << owner, blockOf, ownNext, unread, free >>
      BY <1>3, <2>2 DEF KeepBlock, vars
    <3> QED BY <1>1, <2>2, <3>1 DEF HuntShape
  <2> QED BY <1>3, <2>1, <2>2 DEF KeepBlock
<1>4. CASE ClaimOwn(w)
  <2> DEFINE b == PartIndex[w] * BlocksPerPart + ownNext[w]
  <2>1. /\ hunt[w] = "own" /\ ownNext[w] < BlocksPerPart
        /\ ownNext' = [ownNext EXCEPT ![w] = @ + 1]
        /\ UNCHANGED << blockOf, unread, free >>
        /\ \/ b \in Present(w) /\ TakeBlock(w, b)
           \/ UNCHANGED << vars, owner, current, hunt >>
    BY <1>4 DEF ClaimOwn
  <2> HIDE DEF b
  <2>2. ownNext' \in [Workers -> 0 .. BlocksPerPart]
    BY <1>1, <2>1
  <2>3. CASE b \in Present(w) /\ TakeBlock(w, b)
    BY <1>1, <1>2, <2>1, <2>2, <2>3 DEF HuntShape
  <2>4. CASE UNCHANGED << vars, owner, current, hunt >>
    <3>1. HuntShape(w)'
      BY <1>1, <2>1, <2>4 DEF HuntShape, vars
    <3> QED BY <1>1, <2>1, <2>2, <2>4, <3>1
  <2> QED BY <2>1, <2>3, <2>4
<1>5. CASE OwnDone(w)
  <2>1. /\ hunt[w] = "own" /\ ownNext[w] = BlocksPerPart /\ StartScan(w)
        /\ UNCHANGED << vars, owner, current, blockOf, ownNext >>
    BY <1>5 DEF OwnDone
  <2>2. Present(w)' = Present(w) /\ pc' = pc
    BY <2>1 DEF vars, searchVars, Present
  <2>3. HuntShape(w)'
    BY <1>1, <2>1, <2>2, StartScanFacts DEF HuntShape
  <2> QED BY <1>1, <2>1, <2>3, StartScanFacts
<1>6. CASE ReadOwner(w)
  <2> DEFINE b == Min(unread[w])
  <2>1. /\ hunt[w] = "scan" /\ unread[w] # {}
        /\ unread' = [unread EXCEPT ![w] = @ \ {b}]
        /\ free' = [free EXCEPT ![w] = IF MayClaim(w, b) THEN @ \union {b} ELSE @]
        /\ UNCHANGED << vars, owner, current, blockOf, ownNext, hunt >>
    BY <1>6 DEF ReadOwner
  <2>2. b \in unread[w]
    <3>1. unread[w] \in SUBSET Nat
      BY <1>1, BlocksAreNumbers
    <3> QED BY <2>1, <3>1, MinFacts
  <2> HIDE DEF b
  <2>3. unread'[w] \union free'[w] \subseteq unread[w] \union free[w]
    BY <1>1, <2>1, <2>2
  <2>4. unread[w] \in SUBSET Blocks /\ free[w] \in SUBSET Blocks
    BY <1>1
  <2>5. unread' \in [Workers -> SUBSET Blocks] /\ free' \in [Workers -> SUBSET Blocks]
    BY <1>1, <2>1, <2>2, <2>4
  <2>6. Present(w)' = Present(w) /\ pc' = pc
    BY <2>1 DEF vars, searchVars, Present
  <2>7. HuntShape(w)'
    BY <1>1, <2>1, <2>3, <2>6 DEF HuntShape
  <2> QED BY <1>1, <2>1, <2>5, <2>7
<1>7. CASE Wait(w)
  <2>1. hunt' = [hunt EXCEPT ![w] = "none"]
        /\ UNCHANGED << owner, current, blockOf, ownNext, unread, free >>
    BY <1>7 DEF Wait
  <2> QED BY <1>1, <2>1 DEF HuntShape
<1>8. CASE Steal(w)
  <2>1. hunt[w] = "scan" /\ free[w] # {} /\ UNCHANGED << blockOf, ownNext >>
    BY <1>8 DEF Steal
  <2>2. CASE TakeBlock(w, Best(w)) /\ UNCHANGED << unread, free >>
    <3>1. Best(w) \in Present(w)
      BY <2>1, BestIsPresent
    <3> QED BY <1>1, <1>2, <2>1, <2>2, <3>1 DEF HuntShape
  <2>3. CASE StartScan(w) /\ UNCHANGED << vars, owner, current >>
    <3>1. Present(w)' = Present(w) /\ pc' = pc
      BY <2>3 DEF vars, searchVars, Present
    <3>2. HuntShape(w)'
      BY <1>1, <2>1, <2>3, <3>1, StartScanFacts DEF HuntShape
    <3> QED BY <1>1, <2>1, <2>3, <3>2, StartScanFacts
  <2> QED BY <1>8, <2>2, <2>3 DEF Steal
<1> QED BY <1>3, <1>4, <1>5, <1>6, <1>7, <1>8 DEF StealStep

(* Where a step of the search can lead to.                                 *)
LEMMA CommonStepFacts ==
  ASSUME TypeOK, NEW w \in Workers, LoopShape(w), CommonStep(w)
  PROVE  /\ pc[w] # "select" /\ chunk' = chunk
         /\ HasModel(w) => HasModel(w)' /\ cand'[w] \subseteq cand[w]
         /\ pc'[w] \in {"solve", "unsat"} => pc[w] \in {"solve", "unsat"}
         /\ InLoop(w)' => InLoop(w) \/ (FilterDone(w) /\ chunk[w] = {})
<1> USE DEF TypeOK, InLoop, HasModel, Goto, Return, Visit, Drop, solverVars, sharedVars,
            searchVars
<1>1. CASE FirstModel(w)
  BY <1>1 DEF FirstModel, LoopShape
<1>2. CASE FirstUnsat(w)
  BY <1>2 DEF FirstUnsat
<1>3. CASE CallInterrupted(w)
  BY <1>3 DEF CallInterrupted, Solving
<1>4. CASE \E l \in Lit : FilterLiteral(w, l)
  BY <1>4 DEF FilterLiteral
<1>5. CASE FilterDone(w)
  BY <1>5 DEF FilterDone
<1>6. CASE Loop(w)
  BY <1>6 DEF Loop
<1>7. CASE \E l \in Lit : SyncLiteral(w, l)
  BY <1>7 DEF SyncLiteral
<1>8. CASE SyncDone(w)
  BY <1>8 DEF SyncDone
<1>9. CASE \E l \in Lit : ExtractLiteral(w, l)
  BY <1>9 DEF ExtractLiteral
<1>10. CASE ExtractDone(w)
  BY <1>10 DEF ExtractDone
<1>11. CASE AnswerSat(w)
  <2>1. PICK m \in Refuting(w) : sigma' = [sigma EXCEPT ![w] = m]
    BY <1>11 DEF AnswerSat
  <2>2. m # NoModel
    BY SolverType, ConstantsAssumption DEF Refuting
  <2> QED BY <1>11, <2>1, <2>2 DEF AnswerSat
<1>12. CASE AnswerUnsat(w)
  BY <1>12 DEF AnswerUnsat
<1>13. CASE \E l \in Lit : CommitLiteral(w, l)
  BY <1>13 DEF CommitLiteral
<1>14. CASE UnsatDone(w)
  BY <1>14 DEF UnsatDone
<1> QED
  BY <1>1, <1>2, <1>3, <1>4, <1>5, <1>6, <1>7, <1>8, <1>9, <1>10, <1>11, <1>12,
     <1>13, <1>14 DEF CommonStep

(* initCandidates puts candidates that tie into the same block.            *)
LEMMA InitialBlocksAgree ==
  ASSUME TypeOK, NEW w \in Workers, Mode[w] # "prefix",
         NEW k \in cand[w], NEW l \in cand[w], Order[w][VarOf(k)] = Order[w][VarOf(l)]
  PROVE  InitialBlock(w, VarOf(k)) = InitialBlock(w, VarOf(l))
<1>1. VarOf(k) \in Vars /\ VarOf(l) \in Vars
  BY DEF TypeOK, Lit, VarOf
<1>2. CASE Mode[w] = "sqrt"
  <2>1. Position(w, VarOf(k)) = Position(w, VarOf(l))
    BY DEF Position
  <2> QED BY <1>2, <2>1 DEF InitialBlock
<1>3. CASE Mode[w] # "sqrt"
  <2>1. Mode[w] \in {"walk", "steal"}
    BY <1>3, PartitionAssumption
  <2>2. \A u, v \in Vars : RelativePart(w, u) < RelativePart(w, v) => Order[w][u] < Order[w][v]
    BY <2>1, SortedAssumption
  <2>3. Order[w][VarOf(k)] \in Nat /\ Order[w][VarOf(l)] \in Nat
    BY <1>1, ConstantsAssumption
  <2>4. RelativePart(w, VarOf(k)) \in Int /\ RelativePart(w, VarOf(l)) \in Int
    <3>1. PartCount \in Nat \ {0} /\ PartIndex[w] \in Int
      BY PartitionAssumption
    <3>2. ASSUME NEW v \in Vars PROVE PartOf(v) \in Int
      BY BlockFacts, PartitionAssumption
    <3> QED BY <1>1, <3>1, <3>2 DEF RelativePart
  <2>5. RelativePart(w, VarOf(k)) = RelativePart(w, VarOf(l))
    BY <1>1, <2>2, <2>3, <2>4
  <2> QED BY <1>3, <2>5 DEF InitialBlock
<1> QED BY <1>2, <1>3

(* The other steps: the types and the places.                              *)
LEMMA CommonStepShape ==
  ASSUME ChoiceInv, NEW w \in Workers, CommonStep(w), UNCHANGED partVars, TypeOK',
         ~ (FilterDone(w) /\ chunk[w] = {})
  PROVE  PartTypeOK' /\ HuntShape(w)' /\ BlocksAgree(w)'
<1>1. TypeOK /\ LoopShape(w) /\ HuntShape(w) /\ BlocksAgree(w)
  BY DEF ChoiceInv, PartTypeOK, SearchInv, WorkerInv
<1>2. /\ pc[w] # "select"
      /\ HasModel(w) => cand'[w] \subseteq cand[w]
      /\ InLoop(w)' => InLoop(w)
  BY <1>1, CommonStepFacts
<1>3. PartTypeOK'
  BY DEF ChoiceInv, PartTypeOK, partVars, localVars
<1>4. HuntShape(w)'
  BY <1>1, <1>2 DEF HuntShape, partVars, localVars
<1>5. InLoop(w) => HasModel(w)
  BY <1>1 DEF InLoop, LoopShape
<1>6. blockOf' = blockOf
  BY DEF partVars, localVars
<1>7. BlocksAgree(w)'
  BY <1>1, <1>2, <1>5, <1>6 DEF BlocksAgree, Stealing
<1> QED BY <1>3, <1>4, <1>7

LEMMA InitCandidatesShape ==
  ASSUME ChoiceInv, NEW w \in Workers, InitCandidates(w), TypeOK'
  PROVE  /\ PartTypeOK' /\ HuntShape(w)' /\ BlocksAgree(w)'
         /\ \A u \in Workers : u # w => LocalSame(u)
<1>1. PartTypeOK /\ TypeOK /\ HuntShape(w)
  BY DEF ChoiceInv, PartTypeOK
<1>2. /\ pc[w] = "filter" /\ cand' = cand
      /\ blockOf' = [blockOf EXCEPT ![w] = [v \in Vars |-> InitialBlock(w, v)]]
      /\ UNCHANGED << owner, current, ownNext, hunt, unread, free >>
  BY DEF InitCandidates, FilterDone
<1>3. PartTypeOK'
  <2>1. [v \in Vars |-> InitialBlock(w, v)] \in [Vars -> Int]
    BY <1>1, InitialBlockType
  <2> QED BY <1>1, <1>2, <2>1 DEF PartTypeOK
<1>4. HuntShape(w)'
  BY <1>1, <1>2 DEF HuntShape
<1>5. BlocksAgree(w)'
  <2>1. \A v \in Vars : blockOf'[w][v] = InitialBlock(w, v)
    BY <1>1, <1>2 DEF PartTypeOK
  <2>2. \A l \in cand[w] : VarOf(l) \in Vars
    BY <1>1 DEF TypeOK, Lit, VarOf
  <2> QED BY <1>1, <1>2, <2>1, <2>2, InitialBlocksAgree DEF BlocksAgree
<1> QED BY <1>1, <1>2, <1>3, <1>4, <1>5 DEF LocalSame, PartTypeOK

LEMMA SelectInBlockShape ==
  ASSUME ChoiceInv, NEW w \in Workers, SelectInBlock(w), TypeOK'
  PROVE  /\ PartTypeOK' /\ HuntShape(w)' /\ BlocksAgree(w)'
         /\ \A u \in Workers : u # w => LocalSame(u)
<1>1. PartTypeOK /\ TypeOK /\ ProgressInv(w) /\ HuntShape(w) /\ BlocksAgree(w)
  BY DEF ChoiceInv, PartTypeOK
<1>2. /\ pc[w] = "select" /\ ~ Stealing(w) /\ cand' = cand
      /\ current' = [current EXCEPT ![w] = FirstBlock(w)]
      /\ UNCHANGED << owner, blockOf, ownNext, hunt, unread, free >>
  BY DEF SelectInBlock, SelectBlock, ConstrainWith
<1>3. FirstBlock(w) \in Int
  <2>1. cand[w] # {}
    BY <1>1, <1>2 DEF ProgressInv
  <2>2. PICK v \in Vars : FirstBlock(w) = blockOf[w][v]
    BY <1>1, <2>1, FirstBlockFacts
  <2> QED BY <1>1, <2>2 DEF PartTypeOK
<1>4. PartTypeOK'
  BY <1>1, <1>2, <1>3 DEF PartTypeOK
<1>5. HuntShape(w)'
  BY <1>1, <1>2 DEF HuntShape
<1>6. BlocksAgree(w)'
  BY <1>1, <1>2 DEF BlocksAgree, InLoop, Stealing
<1> QED BY <1>1, <1>2, <1>4, <1>5, <1>6 DEF LocalSame, PartTypeOK

LEMMA ChoiceStep == ChoiceInv /\ [PartNext]_partAllVars => ChoiceInv'
<1> SUFFICES ASSUME ChoiceInv, [PartNext]_partAllVars PROVE ChoiceInv'
  OBVIOUS
<1>1. PartTypeOK /\ TypeOK /\ SearchInv /\ \A u \in Workers : ProgressInv(u)
  BY DEF ChoiceInv, PartTypeOK
<1>2. ASSUME NEW w \in Workers, PartStep(w) \/ SolverStep(w) \/ Interrupt(w)
      PROVE  TypeOK' /\ SearchInv' /\ \A u \in Workers : ProgressInv(u)'
  BY <1>1, <1>2, PartStepMoves, MoveKeeps
<1>3. ASSUME NEW w \in Workers, InheritedStep(w) PROVE ChoiceInv'
  <2>1. TypeOK' /\ SearchInv' /\ \A u \in Workers : ProgressInv(u)'
    BY <1>2, <1>3 DEF PartStep
  <2>2. UNCHANGED partVars
    BY <1>3 DEF InheritedStep
  <2>3. \A u \in Workers : LocalSame(u)
    BY <2>2 DEF partVars, localVars, LocalSame
  <2>4. ASSUME CommonStep(w) PROVE ChoiceInv'
    <3>1. ~ (FilterDone(w) /\ chunk[w] = {})
      BY <1>3 DEF InheritedStep, FilterDone
    <3>2. PartTypeOK' /\ HuntShape(w)' /\ BlocksAgree(w)'
      BY <2>1, <2>2, <2>4, <3>1, CommonStepShape
    <3>3. ASSUME NEW u \in Workers, u # w PROVE HuntShape(u)' /\ BlocksAgree(u)'
      BY <1>1, <2>3, <2>4, <3>3, CommonStepOthers, HuntOfOthers DEF ChoiceInv
    <3> QED BY <2>1, <3>2, <3>3 DEF ChoiceInv
  <2>5. ASSUME Mode[w] = "prefix", SelectChunk(w) PROVE ChoiceInv'
    <3>1. PartTypeOK'
      BY <1>1, <2>1, <2>2 DEF PartTypeOK, partVars, localVars
    <3>2. HuntShape(w)' /\ BlocksAgree(w)'
      BY <2>2, <2>5, StealingMode
      DEF ChoiceInv, HuntShape, BlocksAgree, Stealing, partVars, localVars
    <3>3. ASSUME NEW u \in Workers, u # w PROVE HuntShape(u)' /\ BlocksAgree(u)'
      BY <1>1, <2>3, <2>5, <3>3, PrefixChooses, ChooseOthers, HuntOfOthers DEF ChoiceInv
    <3> QED BY <2>1, <3>1, <3>2, <3>3 DEF ChoiceInv
  <2> QED BY <1>3, <2>4, <2>5 DEF InheritedStep
<1>4. ASSUME NEW w \in Workers, InitCandidates(w) PROVE ChoiceInv'
  <2>1. TypeOK' /\ SearchInv' /\ \A u \in Workers : ProgressInv(u)'
    BY <1>2, <1>4 DEF PartStep
  <2>2. /\ PartTypeOK' /\ HuntShape(w)' /\ BlocksAgree(w)'
        /\ \A u \in Workers : u # w => LocalSame(u)
    BY <1>4, <2>1, InitCandidatesShape
  <2>3. CommonStep(w)
    BY <1>4 DEF InitCandidates, CommonStep
  <2>4. ASSUME NEW u \in Workers, u # w PROVE HuntShape(u)' /\ BlocksAgree(u)'
    BY <1>1, <2>2, <2>3, <2>4, CommonStepOthers, HuntOfOthers DEF ChoiceInv
  <2> QED BY <2>1, <2>2, <2>4 DEF ChoiceInv
<1>5. ASSUME NEW w \in Workers, SelectInBlock(w) PROVE ChoiceInv'
  <2>1. TypeOK' /\ SearchInv' /\ \A u \in Workers : ProgressInv(u)'
    BY <1>2, <1>5 DEF PartStep
  <2>2. /\ PartTypeOK' /\ HuntShape(w)' /\ BlocksAgree(w)'
        /\ \A u \in Workers : u # w => LocalSame(u)
    BY <1>5, <2>1, SelectInBlockShape
  <2>3. ASSUME NEW u \in Workers, u # w PROVE HuntShape(u)' /\ BlocksAgree(u)'
    BY <1>1, <1>5, <2>2, <2>3, BlockChooses, ChooseOthers, HuntOfOthers DEF ChoiceInv
  <2> QED BY <2>1, <2>2, <2>3 DEF ChoiceInv
<1>6. ASSUME NEW w \in Workers, StealStep(w) PROVE ChoiceInv'
  <2>1. TypeOK' /\ SearchInv' /\ \A u \in Workers : ProgressInv(u)'
    BY <1>2, <1>6 DEF PartStep
  <2>2. /\ PartTypeOK' /\ HuntShape(w)' /\ blockOf' = blockOf
        /\ \A u \in Workers : u # w => LocalSame(u)
    BY <1>6, <2>1, StealStepShape
  <2>3. ASSUME NEW u \in Workers, u # w PROVE SameSearch(u)
    <3>1. CASE UNCHANGED vars
      BY <3>1 DEF vars, searchVars, solverVars, SameSearch
    <3>2. CASE \E c : Chooses(w, c)
      BY <1>1, <2>3, <3>2, ChooseOthers
    <3> QED BY <1>6, <3>1, <3>2, StealChooses
  <2>4. ASSUME NEW u \in Workers, u # w PROVE HuntShape(u)' /\ BlocksAgree(u)'
    BY <2>2, <2>3, <2>4, HuntOfOthers DEF ChoiceInv
  <2>5. Stealing(w)
    BY <1>6
    DEF StealStep, KeepBlock, ClaimOwn, OwnDone, ReadOwner, Wait, Steal, ChoiceInv, HuntShape
  <2>6. BlocksAgree(w)'
    BY <2>5 DEF BlocksAgree, Stealing
  <2> QED BY <2>1, <2>2, <2>4, <2>6 DEF ChoiceInv
<1>7. ASSUME NEW w \in Workers, SolverStep(w) \/ Interrupt(w), UNCHANGED partVars
      PROVE  ChoiceInv'
  <2>1. TypeOK' /\ SearchInv' /\ \A u \in Workers : ProgressInv(u)'
    BY <1>2, <1>7
  <2>2. \A u \in Workers : SameSearch(u) /\ LocalSame(u)
    BY <1>1, <1>7, SolverStepOthers DEF partVars, localVars, LocalSame
  <2>3. PartTypeOK'
    BY <1>1, <1>7, <2>1 DEF PartTypeOK, partVars, localVars
  <2> QED BY <2>1, <2>2, <2>3, HuntOfOthers DEF ChoiceInv
<1>8. ASSUME NEW b \in Blocks, MergeClaim(b) PROVE ChoiceInv'
  <2>1. UNCHANGED vars /\ UNCHANGED localVars
    BY <1>8 DEF MergeClaim
  <2>2. TypeOK' /\ SearchInv'
    BY <1>1, <2>1, TypeStep, SearchStep
  <2>3. \A u \in Workers : SameSearch(u) /\ LocalSame(u)
    BY <2>1 DEF vars, searchVars, solverVars, SameSearch, localVars, LocalSame
  <2>4. owner' \in [Blocks -> 0 .. PartCount]
    <3>1. PICK i \in OtherRanks : owner' = [owner EXCEPT ![b] = Code(i)]
      BY <1>8 DEF MergeClaim
    <3>2. Code(i) \in 0 .. PartCount
      BY PartitionAssumption DEF Code
    <3> QED BY <1>1, <3>1, <3>2 DEF PartTypeOK
  <2>5. PartTypeOK'
    BY <1>1, <2>1, <2>2, <2>4 DEF PartTypeOK, localVars
  <2> QED BY <1>1, <2>2, <2>3, <2>5, HuntOfOthers, ProgressOfOthers DEF ChoiceInv
<1>9. ASSUME NEW v \in Vars, MergeStatus(v) PROVE ChoiceInv'
  <2>1. TypeOK' /\ SearchInv' /\ \A u \in Workers : SameSearch(u)
    BY <1>1, <1>9, MergeStatusKeeps
  <2>2. UNCHANGED partVars
    BY <1>9 DEF MergeStatus
  <2>3. PartTypeOK' /\ \A u \in Workers : LocalSame(u)
    BY <1>1, <2>1, <2>2 DEF PartTypeOK, partVars, localVars, LocalSame
  <2> QED BY <1>1, <2>1, <2>3, HuntOfOthers, ProgressOfOthers DEF ChoiceInv
<1>10. CASE UNCHANGED partAllVars
  <2>1. UNCHANGED vars /\ UNCHANGED partVars
    BY <1>10 DEF partAllVars
  <2>2. TypeOK' /\ SearchInv'
    BY <1>1, <2>1, TypeStep, SearchStep
  <2>3. \A u \in Workers : SameSearch(u) /\ LocalSame(u)
    BY <2>1 DEF vars, searchVars, solverVars, SameSearch, partVars, localVars, LocalSame
  <2>4. PartTypeOK'
    BY <1>1, <2>1, <2>2 DEF PartTypeOK, partVars, localVars
  <2> QED BY <1>1, <2>2, <2>3, <2>4, HuntOfOthers, ProgressOfOthers DEF ChoiceInv
<1> QED
  BY <1>3, <1>4, <1>5, <1>6, <1>7, <1>8, <1>9, <1>10 DEF PartNext, PartStep

LEMMA ChoiceInit == PartInit => ChoiceInv
<1> SUFFICES ASSUME PartInit PROVE ChoiceInv
  OBVIOUS
<1>1. Init
  BY DEF PartInit
<1>2. TypeOK
  BY <1>1, ConstantsAssumption DEF Init, TypeOK, PC, EmptyBoard, Status
<1>3. SearchInv
  BY <1>1, SearchInit
<1>4. PartTypeOK
  BY <1>2, BlockFacts, PartitionAssumption DEF PartInit, PartTypeOK, Free, NoBlock
<1>5. \A w \in Workers : ProgressInv(w) /\ HuntShape(w) /\ BlocksAgree(w)
  BY <1>1 DEF Init, PartInit, ProgressInv, HuntShape, BlocksAgree, InLoop
<1> QED BY <1>3, <1>4, <1>5 DEF ChoiceInv

(* The search with chunks of any of the block orders: types, and all that  *)
(* CadiBackProofs shows of the search with the default chunks.             *)
THEOREM ChoiceCorrect == PartSpec => []ChoiceInv
BY ChoiceInit, ChoiceStep, PTL DEF PartSpec
-----------------------------------------------------------------------------
(* The claims of a stealing worker. *)

(* A worker claims nothing before its first model.                         *)
FreshClaims(w) ==
  ~ HasModel(w) =>
    /\ ownNext[w] = 0 /\ current[w] = NoBlock
    /\ \A b \in Blocks : owner[b] # Me(w)

(* Its current block is its own unless another rank took it over, the      *)
(* literals under the constraint are of that block, and the other blocks   *)
(* it owns hold no candidate any more.                                     *)
CurrentHeld(w) ==
  current[w] # NoBlock =>
    current[w] \in Blocks /\ owner[current[w]] \in {Me(w)} \union OtherCodes

ChunkOfBlock(w) ==
  pc[w] \in {"solve", "unsat"} => \A l \in chunk[w] : BlockOf(l) = current[w]

OwnedDone(w) ==
  \A l \in cand[w] : owner[BlockOf(l)] = Me(w) => BlockOf(l) = current[w]

(* The blocks that a walk through the own part, or a scan of the others,   *)
(* has seen taken are still taken.                                         *)
Tried(w) ==
  {b \in BlocksOf(PartIndex[w]) : b < PartIndex[w] * BlocksPerPart + ownNext[w]}

OwnTried(w) == \A l \in cand[w] : BlockOf(l) \in Tried(w) => owner[BlockOf(l)] # Free

ScanSeen(w) ==
  hunt[w] = "scan" =>
    \A l \in cand[w] :
      BlockOf(l) \in unread[w] \union free[w] \/ owner[BlockOf(l)] \notin {Free, Me(w)}

(* What a worker decides, it has published.                                *)
Published(w) ==
  /\ HasModel(w) => \A v \in Vars : board[v] = "unknown" => \E l \in cand[w] : VarOf(l) = v
  /\ pc[w] = "unsat" => \A l \in chunk[w] \ todo[w] : board[VarOf(l)] # "unknown"

ClaimInv(w) ==
  /\ FreshClaims(w) /\ CurrentHeld(w) /\ ChunkOfBlock(w) /\ OwnedDone(w)
  /\ OwnTried(w) /\ ScanSeen(w) /\ Published(w)

(* No two workers of the process have the same current block.              *)
Apart(w) ==
  \A u \in Workers \ {w} : Stealing(u) => current[u] = NoBlock \/ current[u] # current[w]

PartInv ==
  /\ ChoiceInv
  /\ \A w \in Workers : Stealing(w) => ClaimInv(w) /\ Apart(w)

(* A decided variable stays decided.                                       *)
BoardGrows == \A v \in Vars : board[v] # "unknown" => board'[v] # "unknown"

(* How the owner of a block changes, seen by a worker that did not do it.  *)
OwnerMoves(u) ==
  \A b \in Blocks :
    \/ owner'[b] = owner[b]
    \/ /\ owner'[b] \notin {Free, Me(u)}
       /\ owner[b] \notin {Me(u)} \union OtherCodes \/ owner'[b] \in OtherCodes

LEMMA ClaimOfOthers ==
  ASSUME TypeOK, NEW u \in Workers, Stealing(u), ClaimInv(u),
         SameSearch(u), LocalSame(u), OwnerMoves(u), BoardGrows
  PROVE  ClaimInv(u)'
<1> USE DEF SameSearch, LocalSame
<1>1. ClaimInv(u)
  OBVIOUS
<1>2. \A l \in cand[u] : BlockOf(l) \in Blocks /\ VarOf(l) \in Vars
  BY BlockOfLiteral DEF TypeOK
<1>3. HasModel(u)' <=> HasModel(u)
  BY DEF HasModel
<1>4. FreshClaims(u)'
  BY <1>1, <1>3 DEF ClaimInv, FreshClaims, OwnerMoves
<1>5. CurrentHeld(u)'
  BY <1>1 DEF ClaimInv, CurrentHeld, OwnerMoves
<1>6. ChunkOfBlock(u)'
  BY <1>1 DEF ClaimInv, ChunkOfBlock
<1>7. OwnedDone(u)'
  BY <1>1, <1>2 DEF ClaimInv, OwnedDone, OwnerMoves
<1>8. OwnTried(u)'
  BY <1>1, <1>2 DEF ClaimInv, OwnTried, Tried, OwnerMoves
<1>9. ScanSeen(u)'
  BY <1>1, <1>2 DEF ClaimInv, ScanSeen, OwnerMoves
<1>10. Published(u)'
  <2>1. \A v \in Vars : board'[v] = "unknown" => board[v] = "unknown"
    BY DEF BoardGrows
  <2>2. \A l \in chunk[u] : VarOf(l) \in Vars
    BY BlockOfLiteral DEF TypeOK
  <2> QED BY <1>1, <1>3, <2>1, <2>2 DEF ClaimInv, Published, BoardGrows
<1> QED BY <1>4, <1>5, <1>6, <1>7, <1>8, <1>9, <1>10 DEF ClaimInv

(* Publishing decides the variable and no other.                           *)
LEMMA PublishFacts ==
  ASSUME NEW b \in [Vars -> Status], NEW v \in Vars, NEW s \in Status \ {"unknown"}
  PROVE  /\ Publish(b, v, s)[v] # "unknown"
         /\ \A u \in Vars : /\ u # v => Publish(b, v, s)[u] = b[u]
                            /\ b[u] # "unknown" => Publish(b, v, s)[u] # "unknown"
BY DEF Publish

LEMMA PublishedLiteral ==
  ASSUME TypeOK, NEW l \in Lit
  PROVE  /\ VarOf(l) \in Vars
         /\ PublishFree(board, VarOf(l))[VarOf(l)] # "unknown"
         /\ PublishBackbone(board, l)[VarOf(l)] # "unknown"
         /\ \A u \in Vars :
              /\ u # VarOf(l) => /\ PublishFree(board, VarOf(l))[u] = board[u]
                                 /\ PublishBackbone(board, l)[u] = board[u]
              /\ board[u] # "unknown" => /\ PublishFree(board, VarOf(l))[u] # "unknown"
                                         /\ PublishBackbone(board, l)[u] # "unknown"
<1>1. VarOf(l) \in Vars /\ board \in [Vars -> Status]
  BY DEF TypeOK, Lit, VarOf
<1>2. BackboneStatus(l) \in Status \ {"unknown"} /\ "free" \in Status \ {"unknown"}
  BY DEF BackboneStatus, Status
<1> QED BY <1>1, <1>2, PublishFacts DEF PublishFree, PublishBackbone

LEMMA CommonStepGrows ==
  ASSUME TypeOK, NEW w \in Workers, CommonStep(w)
  PROVE  BoardGrows
<1> USE DEF BoardGrows
<1>1. ASSUME NEW l \in Lit, FilterLiteral(w, l) PROVE BoardGrows
  BY <1>1, PublishedLiteral DEF FilterLiteral, AddFreeVariable
<1>2. ASSUME NEW l \in Lit, ExtractLiteral(w, l) PROVE BoardGrows
  BY <1>2, PublishedLiteral DEF ExtractLiteral, AddBackboneLiteral
<1>3. ASSUME NEW l \in Lit, CommitLiteral(w, l) PROVE BoardGrows
  BY <1>3, PublishedLiteral DEF CommitLiteral, AddBackboneLiteral
<1>4. CASE \/ FirstModel(w) \/ FirstUnsat(w) \/ CallInterrupted(w) \/ FilterDone(w) \/ Loop(w)
           \/ (\E l \in Lit : SyncLiteral(w, l)) \/ SyncDone(w) \/ ExtractDone(w)
           \/ AnswerSat(w) \/ AnswerUnsat(w) \/ UnsatDone(w)
  <2>1. board' = board
    BY <1>4
    DEF FirstModel, FirstUnsat, CallInterrupted, FilterDone, Loop, SyncLiteral, SyncDone,
        ExtractDone, AnswerSat, AnswerUnsat, UnsatDone, sharedVars
  <2> QED BY <2>1
<1> QED BY <1>1, <1>2, <1>3, <1>4 DEF CommonStep

LEMMA MoveGrows ==
  ASSUME TypeOK, NEW w \in Workers, SearchMove(w)
  PROVE  BoardGrows
<1>1. CASE SolverStep(w) \/ Interrupt(w) \/ UNCHANGED vars
  BY <1>1 DEF SolverStep, Learn, Import, FixAtRoot, Interrupt, vars, sharedVars, BoardGrows
<1>2. CASE \E c : Chooses(w, c)
  BY <1>2 DEF Chooses, ConstrainWith, sharedVars, BoardGrows
<1> QED BY <1>1, <1>2, CommonStepGrows DEF SearchMove

(* A step of the search publishes what it takes from the candidates.       *)
LEMMA CommonStepPublishes ==
  ASSUME TypeOK, SearchInv, NEW w \in Workers, Stealing(w), Published(w), CommonStep(w)
  PROVE  Published(w)'
<1> USE DEF TypeOK, HasModel, Goto, Return, Visit, Drop, solverVars, sharedVars, searchVars
<1>1. /\ LoopShape(w) /\ Publishes[w] = {"backbone", "free"}
      /\ \A l \in cand[w] : l \in Lit /\ VarOf(l) \in Vars
  BY BlockOfLiteral DEF SearchInv, WorkerInv, Stealing
<1>2. \A v \in Vars : board'[v] = "unknown" => board[v] = "unknown"
  BY CommonStepGrows DEF BoardGrows
<1>3. ASSUME HasModel(w)' => HasModel(w) /\ cand'[w] = cand[w], pc'[w] # "unsat"
      PROVE  Published(w)'
  BY <1>2, <1>3 DEF Published
<1>4. CASE FirstModel(w)
  <2>1. CASE stop[w]
    BY <1>1, <1>3, <1>4, <2>1 DEF FirstModel, LoopShape
  <2>2. CASE ~ stop[w]
    <3>1. PICK m \in FirstModels(w) : cand' = [cand EXCEPT ![w] = LiteralsOf(m)]
      BY <1>4, <2>2 DEF FirstModel
    <3>2. ASSUME NEW v \in Vars PROVE \E l \in cand'[w] : VarOf(l) = v
      <4>1. << v, m[v] >> \in LiteralsOf(m) /\ VarOf(<< v, m[v] >>) = v
        BY DEF LiteralsOf, VarOf
      <4> QED BY <3>1, <4>1
    <3>3. pc'[w] = "filter"
      BY <1>4, <2>2 DEF FirstModel
    <3> QED BY <3>2, <3>3 DEF Published
  <2> QED BY <2>1, <2>2
<1>5. CASE \/ FirstUnsat(w) \/ CallInterrupted(w) \/ FilterDone(w) \/ Loop(w)
           \/ SyncDone(w) \/ ExtractDone(w)
  <2>1. UNCHANGED << cand, sigma >> /\ pc'[w] # "unsat"
    BY <1>5 DEF FirstUnsat, CallInterrupted, FilterDone, Loop, SyncDone, ExtractDone
  <2> QED BY <1>3, <2>1
<1>6. CASE AnswerSat(w)
  <2>1. cand' = cand /\ pc[w] = "solve" /\ pc'[w] = "filter"
    BY <1>6 DEF AnswerSat
  <2> QED BY <1>1, <1>3, <2>1 DEF LoopShape
<1>7. ASSUME NEW l \in Lit, FilterLiteral(w, l) PROVE Published(w)'
  <2>1. /\ sigma' = sigma /\ pc' = pc /\ pc[w] = "filter"
        /\ \/ /\ cand'[w] = cand[w] \ {l}
              /\ board' = PublishFree(board, VarOf(l))
           \/ cand' = cand
    BY <1>1, <1>7 DEF FilterLiteral, AddFreeVariable
  <2>2. board' = PublishFree(board, VarOf(l)) => board'[VarOf(l)] # "unknown"
    BY PublishedLiteral
  <2> QED BY <1>2, <2>1, <2>2 DEF Published
<1>8. ASSUME NEW l \in Lit, SyncLiteral(w, l) PROVE Published(w)'
  <2>1. /\ sigma' = sigma /\ pc' = pc /\ pc[w] = "sync" /\ board' = board
        /\ \/ cand'[w] = cand[w] \ {l} /\ board[VarOf(l)] # "unknown"
           \/ cand' = cand
    BY <1>8 DEF SyncLiteral
  <2> QED BY <2>1 DEF Published
<1>9. ASSUME NEW l \in Lit, ExtractLiteral(w, l) PROVE Published(w)'
  <2>1. l \in cand[w] /\ sigma' = sigma /\ pc' = pc /\ pc[w] = "fixed"
    BY <1>1, <1>9 DEF ExtractLiteral, IsNext, LoopShape
  <2>2. CASE l \in fixed[w]
    <3>1. cand'[w] = cand[w] \ {l} /\ board' = PublishBackbone(board, l)
      BY <1>1, <1>9, <2>2 DEF ExtractLiteral, AddBackboneLiteral
    <3> QED BY <1>2, <2>1, <3>1, PublishedLiteral DEF Published
  <2>3. CASE l \notin fixed[w]
    <3>1. Neg(l) \notin fixed[w]
      <4>1. PICK m \in phi : Holds(m, l)
        BY <2>1 DEF SearchInv, WorkerInv, CandidatesWitnessed
      <4>2. Neg(l) \in fixed[w] => Implied(phi, Neg(l))
        BY DEF SearchInv, WorkerInv, FixedImplied
      <4> QED BY <4>1, <4>2, NegHolds DEF Implied
    <3>2. cand'[w] = cand[w]
      BY <1>9, <2>3, <3>1 DEF ExtractLiteral
    <3> QED BY <1>3, <2>1, <3>2
  <2> QED BY <2>2, <2>3
<1>10. CASE AnswerUnsat(w)
  <2>1. /\ cand' = cand /\ sigma' = sigma /\ chunk' = chunk /\ todo'[w] = chunk[w]
    BY <1>10 DEF AnswerUnsat
  <2> QED BY <1>2, <2>1 DEF Published
<1>11. ASSUME NEW l \in Lit, CommitLiteral(w, l) PROVE Published(w)'
  <2>1. /\ cand' = cand /\ sigma' = sigma /\ chunk' = chunk /\ pc' = pc /\ pc[w] = "unsat"
        /\ todo'[w] = todo[w] \ {l} /\ board' = PublishBackbone(board, l)
    BY <1>1, <1>11 DEF CommitLiteral, AddBackboneLiteral
  <2>2. \A k \in chunk[w] : k \in cand[w]
    BY <1>1, <2>1 DEF LoopShape
  <2>3. ASSUME NEW k \in chunk'[w] \ todo'[w] PROVE board'[VarOf(k)] # "unknown"
    <3>1. k = l \/ k \in chunk[w] \ todo[w]
      BY <2>1
    <3>2. k \in chunk[w] \ todo[w] => board[VarOf(k)] # "unknown" /\ VarOf(k) \in Vars
      BY <1>1, <2>1, <2>2 DEF Published
    <3> QED BY <2>1, <3>1, <3>2, PublishedLiteral
  <2> QED BY <1>2, <2>1, <2>3 DEF Published
<1>12. CASE UnsatDone(w)
  <2>1. /\ pc[w] = "unsat" /\ todo[w] = {} /\ pc'[w] = "loop" /\ sigma' = sigma
        /\ cand'[w] = cand[w] \ chunk[w] /\ board' = board
    BY <1>12 DEF UnsatDone
  <2> QED BY <2>1 DEF Published
<1> QED
  BY <1>4, <1>5, <1>6, <1>7, <1>8, <1>9, <1>10, <1>11, <1>12 DEF CommonStep

(* A step of the search keeps the claims of its worker: candidates only    *)
(* leave, but after the first model, when nothing is claimed yet.          *)
LEMMA CommonStepClaims ==
  ASSUME TypeOK, SearchInv, NEW w \in Workers, Stealing(w), HuntShape(w), ClaimInv(w),
         CommonStep(w), LocalSame(w), owner' = owner, TypeOK'
  PROVE  ClaimInv(w)'
<1> USE DEF LocalSame
<1>1. LoopShape(w) /\ ClaimInv(w)
  BY DEF SearchInv, WorkerInv
<1>2. /\ pc[w] # "select" /\ chunk' = chunk
      /\ HasModel(w) => HasModel(w)' /\ cand'[w] \subseteq cand[w]
      /\ pc'[w] \in {"solve", "unsat"} => pc[w] \in {"solve", "unsat"}
  BY <1>1, CommonStepFacts
<1>3. \A l \in cand'[w] : BlockOf(l) \in Blocks
  BY BlockOfLiteral DEF TypeOK
<1>4. FreshClaims(w)' /\ CurrentHeld(w)' /\ ChunkOfBlock(w)'
  BY <1>1, <1>2 DEF ClaimInv, FreshClaims, CurrentHeld, ChunkOfBlock
<1>5. OwnedDone(w)'
  BY <1>1, <1>2, <1>3 DEF ClaimInv, OwnedDone, FreshClaims
<1>6. OwnTried(w)'
  <2>1. CASE HasModel(w)
    BY <1>1, <1>2, <2>1 DEF ClaimInv, OwnTried, Tried
  <2>2. CASE ~ HasModel(w)
    <3>1. ownNext[w] = 0
      BY <1>1, <2>2 DEF ClaimInv, FreshClaims
    <3>2. PartIndex[w] * BlocksPerPart \in Nat
      BY BlockFacts, PartitionAssumption
    <3>3. Tried(w)' = {}
      BY <3>1, <3>2 DEF Tried, BlocksOf
    <3> QED BY <3>3 DEF OwnTried
  <2> QED BY <2>1, <2>2
<1>7. ScanSeen(w)'
  BY <1>2 DEF HuntShape, ScanSeen
<1>8. Published(w)'
  BY <1>1, CommonStepPublishes DEF ClaimInv
<1> QED BY <1>4, <1>5, <1>6, <1>7, <1>8 DEF ClaimInv

(* In the claims of a worker with a model that chooses a block, the board, *)
(* the candidates and its model do not change.                             *)
LEMMA ChoosingFacts ==
  ASSUME ChoiceInv, NEW w \in Workers, StealStep(w)
  PROVE  /\ pc[w] = "select" /\ HasModel(w) /\ Stealing(w)
         /\ hunt[w] # "none" => current[w] = NoBlock
         /\ UNCHANGED << cand, sigma, board >>
         /\ pc'[w] \in {"select", "loop", "solve"}
         /\ \A l \in cand[w] : BlockOf(l) \in Blocks /\ BlockOf(l) # NoBlock
<1>1. TypeOK /\ HuntShape(w) /\ LoopShape(w)
  BY DEF ChoiceInv, PartTypeOK, SearchInv, WorkerInv
<1>2. pc[w] = "select" /\ Stealing(w)
  BY <1>1
  DEF StealStep, KeepBlock, ClaimOwn, OwnDone, ReadOwner, Wait, Steal, HuntShape
<1>3. UNCHANGED << cand, sigma, board >> /\ pc'[w] \in {"select", "loop", "solve"}
  <2>1. CASE UNCHANGED vars
    BY <1>2, <2>1 DEF vars, searchVars, solverVars, sharedVars
  <2>2. ASSUME NEW c, Chooses(w, c)
        PROVE  UNCHANGED << cand, sigma, board >> /\ pc'[w] \in {"select", "loop", "solve"}
    BY <1>1, <2>2 DEF Chooses, ConstrainWith, Goto, TypeOK, solverVars, sharedVars
  <2> QED BY <2>1, <2>2, StealChooses
<1>4. \A l \in cand[w] : BlockOf(l) \in Blocks
  BY <1>1, BlockOfLiteral DEF TypeOK
<1>5. NoBlock \notin Blocks
  BY BlocksAreNumbers DEF NoBlock
<1> QED BY <1>1, <1>2, <1>3, <1>4, <1>5 DEF HuntShape, LoopShape

(* The claim of a block with candidates.                                   *)
LEMMA TakeClaims ==
  ASSUME ChoiceInv, NEW w \in Workers, StealStep(w), ClaimInv(w), hunt[w] # "none",
         NEW b \in Present(w), TakeBlock(w, b)
  PROVE  /\ FreshClaims(w)' /\ CurrentHeld(w)' /\ ChunkOfBlock(w)' /\ OwnedDone(w)'
         /\ ScanSeen(w)' /\ Published(w)'
         /\ owner'[b] = Me(w) /\ \A c \in Blocks : c # b => owner'[c] = owner[c]
<1>1. PartTypeOK /\ TypeOK /\ ClaimInv(w) /\ b \in Blocks
  BY PresentBlocks DEF ChoiceInv, PartTypeOK
<1>2. /\ pc[w] = "select" /\ HasModel(w) /\ current[w] = NoBlock
      /\ UNCHANGED << cand, sigma, board >> /\ pc'[w] \in {"select", "loop", "solve"}
      /\ \A l \in cand[w] : BlockOf(l) \in Blocks /\ BlockOf(l) # NoBlock
  BY ChoosingFacts
<1>3. /\ owner' = [owner EXCEPT ![b] = Me(w)] /\ current'[w] = b /\ hunt'[w] = "none"
      /\ chunk'[w] = Gather(w, b, StartSize(w))
  BY <1>1 DEF TakeBlock, Hunt, ConstrainWith, PartTypeOK, TypeOK
<1>4. owner'[b] = Me(w) /\ \A c \in Blocks : c # b => owner'[c] = owner[c]
  BY <1>1, <1>3 DEF PartTypeOK
<1>5. FreshClaims(w)' /\ CurrentHeld(w)' /\ ScanSeen(w)'
  BY <1>1, <1>2, <1>3, <1>4 DEF FreshClaims, CurrentHeld, ScanSeen, HasModel
<1>6. ChunkOfBlock(w)'
  <2>1. \A l \in Gather(w, b, StartSize(w)) : BlockOf(l) = b
    BY <1>1, SizesPositive, GatherFacts
  <2> QED BY <1>3, <2>1 DEF ChunkOfBlock
<1>7. OwnedDone(w)'
  BY <1>1, <1>2, <1>3, <1>4 DEF ClaimInv, OwnedDone
<1>8. Published(w)'
  BY <1>1, <1>2 DEF ClaimInv, Published, HasModel
<1> QED BY <1>4, <1>5, <1>6, <1>7, <1>8

(* The start of a scan, when the blocks of the own part are all taken.     *)
LEMMA ScanClaims ==
  ASSUME ChoiceInv, NEW w \in Workers, StealStep(w), ClaimInv(w), hunt[w] # "none",
         ownNext[w] = BlocksPerPart, StartScan(w), UNCHANGED << vars, owner, current, ownNext >>
  PROVE  ClaimInv(w)'
<1>1. PartTypeOK /\ TypeOK /\ ClaimInv(w)
  BY DEF ChoiceInv, PartTypeOK
<1>2. /\ pc[w] = "select" /\ HasModel(w) /\ current[w] = NoBlock
      /\ \A l \in cand[w] : BlockOf(l) \in Blocks /\ BlockOf(l) # NoBlock
  BY ChoosingFacts
<1>3. UNCHANGED << cand, sigma, board, pc, owner, current, ownNext >>
  BY DEF vars, searchVars, solverVars, sharedVars
<1>4. /\ FreshClaims(w)' /\ CurrentHeld(w)' /\ ChunkOfBlock(w)' /\ OwnedDone(w)'
      /\ OwnTried(w)' /\ Published(w)'
  BY <1>1, <1>2, <1>3
  DEF ClaimInv, FreshClaims, CurrentHeld, ChunkOfBlock, OwnedDone, OwnTried, Tried, Published,
      HasModel
<1>5. ScanSeen(w)'
  <2>1. ASSUME NEW l \in cand[w]
        PROVE  BlockOf(l) \in unread'[w] \/ owner[BlockOf(l)] \notin {Free, Me(w)}
    <3>1. BlockOf(l) \in Present(w)
      BY DEF Present, BlockOf
    <3>2. BlockOf(l) \in Blocks
      BY <1>2
    <3>3. CASE BlockOf(l) \in ScanBlocks(w)
      BY <1>1, <3>1, <3>3, StartScanFacts
    <3>4. CASE BlockOf(l) \notin ScanBlocks(w)
      <4>1. BlockOf(l) \in BlocksOf(PartIndex[w])
        BY <3>2, <3>4 DEF ScanBlocks
      <4>2. BlockOf(l) \in Tried(w)
        <5>1. PartIndex[w] \in Nat /\ BlocksPerPart \in Nat
          BY BlockFacts, PartitionAssumption
        <5>2. (PartIndex[w] + 1) * BlocksPerPart = PartIndex[w] * BlocksPerPart + BlocksPerPart
          BY <5>1
        <5>3. PartIndex[w] * BlocksPerPart \in Nat
          BY <5>1
        <5> QED BY <4>1, <5>1, <5>2, <5>3 DEF Tried, BlocksOf
      <4>3. owner[BlockOf(l)] # Free
        BY <1>1, <4>2 DEF ClaimInv, OwnTried
      <4>4. owner[BlockOf(l)] # Me(w)
        BY <1>1, <1>2 DEF ClaimInv, OwnedDone
      <4> QED BY <4>3, <4>4
    <3> QED BY <3>3, <3>4
  <2> QED BY <1>3, <2>1 DEF ScanSeen
<1> QED BY <1>4, <1>5 DEF ClaimInv

(* Every step of claimNextBlock keeps the claims of its worker.            *)
LEMMA StealStepClaims ==
  ASSUME ChoiceInv, NEW w \in Workers, StealStep(w), ClaimInv(w)
  PROVE  ClaimInv(w)'
<1>1. PartTypeOK /\ TypeOK /\ ClaimInv(w) /\ HuntShape(w) /\ ProgressInv(w)
  BY DEF ChoiceInv, PartTypeOK
<1>2. /\ pc[w] = "select" /\ HasModel(w)
      /\ hunt[w] # "none" => current[w] = NoBlock
      /\ UNCHANGED << cand, sigma, board >> /\ pc'[w] \in {"select", "loop", "solve"}
      /\ \A l \in cand[w] : BlockOf(l) \in Blocks /\ BlockOf(l) # NoBlock
  BY ChoosingFacts
<1>3. FreshClaims(w)' /\ Published(w)'
  BY <1>1, <1>2 DEF FreshClaims, ClaimInv, Published, HasModel
<1>4. CASE KeepBlock(w)
  <2> DEFINE c == Gather(w, current[w], chunkSize[w])
  <2>1. hunt[w] = "none" /\ UNCHANGED << owner, blockOf, ownNext, unread, free >>
    BY <1>4 DEF KeepBlock
  <2>2. /\ c \in SUBSET cand[w] /\ \A l \in c : BlockOf(l) = current[w]
        /\ (\E l \in cand[w] : BlockOf(l) = current[w]) => c # {}
    BY <1>1, <1>2, SizesPositive, GatherFacts DEF ProgressInv
  <2> HIDE DEF c
  <2>3. CASE ConstrainWith(w, c) /\ UNCHANGED << chunkSize, current, hunt >>
    <3>1. chunk'[w] = c
      BY <1>1, <2>3 DEF ConstrainWith, TypeOK
    <3> QED BY <1>1, <1>2, <1>3, <2>1, <2>2, <2>3, <3>1
         DEF ClaimInv, CurrentHeld, ChunkOfBlock, OwnedDone, OwnTried, Tried, ScanSeen
  <2>4. CASE /\ ~ (current[w] # NoBlock /\ owner[current[w]] = Me(w) /\ c # {})
             /\ current' = [current EXCEPT ![w] = NoBlock] /\ Hunt(w, "own")
             /\ UNCHANGED vars
    <3>1. current'[w] = NoBlock /\ hunt'[w] = "own" /\ pc' = pc
      BY <1>1, <2>4 DEF PartTypeOK, Hunt, vars
    <3>2. \A l \in cand[w] : owner[BlockOf(l)] # Me(w)
      BY <1>1, <1>2, <2>2, <2>4 DEF ClaimInv, OwnedDone
    <3> QED BY <1>1, <1>2, <1>3, <2>1, <3>1, <3>2
         DEF ClaimInv, CurrentHeld, ChunkOfBlock, OwnedDone, OwnTried, Tried, ScanSeen
  <2> QED BY <1>4, <2>3, <2>4 DEF KeepBlock, c
<1>5. CASE ClaimOwn(w)
  <2> DEFINE b == PartIndex[w] * BlocksPerPart + ownNext[w]
  <2>1. /\ hunt[w] = "own" /\ ownNext' = [ownNext EXCEPT ![w] = @ + 1]
        /\ UNCHANGED << unread, free >>
        /\ \/ b \in Present(w) /\ TakeBlock(w, b)
           \/ /\ b \notin Present(w) \/ ~ MayClaim(w, b)
              /\ UNCHANGED << vars, owner, current, hunt >>
    BY <1>5 DEF ClaimOwn
  <2>2. ownNext[w] \in Nat /\ ownNext'[w] = ownNext[w] + 1
    BY <1>1, <2>1, BlockFacts DEF PartTypeOK
  <2>3. b \in Nat /\ PartIndex[w] * BlocksPerPart \in Nat
    BY <2>2, BlockFacts, PartitionAssumption
  <2>4. Tried(w)' \subseteq Tried(w) \union {b}
    <3>1. ASSUME NEW x \in Tried(w)', x # b PROVE x \in Tried(w)
      <4>1. x \in BlocksOf(PartIndex[w]) /\ x < PartIndex[w] * BlocksPerPart + ownNext'[w]
        BY DEF Tried
      <4>2. x \in Int
        BY <4>1 DEF BlocksOf
      <4>3. x < b + 1 => x < b \/ x = b
        BY <2>3, <4>2
      <4>4. x < b
        BY <2>2, <2>3, <3>1, <4>1, <4>2, <4>3
      <4> QED BY <4>1, <4>4 DEF Tried
    <3> QED BY <3>1
  <2> HIDE DEF b
  <2>5. CASE b \in Present(w) /\ TakeBlock(w, b)
    <3>1. /\ CurrentHeld(w)' /\ ChunkOfBlock(w)' /\ OwnedDone(w)' /\ ScanSeen(w)'
          /\ owner'[b] = Me(w) /\ \A c \in Blocks : c # b => owner'[c] = owner[c]
      BY <2>1, <2>5, TakeClaims
    <3>2. OwnTried(w)'
      BY <1>1, <1>2, <2>4, <3>1, CodeFacts DEF ClaimInv, OwnTried
    <3> QED BY <1>3, <3>1, <3>2 DEF ClaimInv
  <2>6. CASE /\ b \notin Present(w) \/ ~ MayClaim(w, b)
             /\ UNCHANGED << vars, owner, current, hunt >>
    <3>1. \A l \in cand[w] : BlockOf(l) = b => owner[b] # Free
      BY <2>6 DEF Present, BlockOf, MayClaim
    <3>2. OwnTried(w)'
      BY <1>1, <1>2, <2>4, <2>6, <3>1 DEF ClaimInv, OwnTried
    <3>3. pc' = pc
      BY <2>6 DEF vars
    <3> QED BY <1>1, <1>2, <1>3, <2>1, <2>6, <3>2, <3>3
         DEF ClaimInv, CurrentHeld, ChunkOfBlock, OwnedDone, ScanSeen
  <2> QED BY <2>1, <2>5, <2>6
<1>6. CASE OwnDone(w)
  BY <1>1, <1>6, ScanClaims DEF OwnDone
<1>7. CASE ReadOwner(w)
  <2> DEFINE b == Min(unread[w])
  <2>1. /\ hunt[w] = "scan" /\ unread'[w] = unread[w] \ {b}
        /\ free'[w] = IF MayClaim(w, b) THEN free[w] \union {b} ELSE free[w]
        /\ UNCHANGED << vars, owner, current, ownNext, hunt >>
    BY <1>1, <1>7 DEF ReadOwner, PartTypeOK
  <2> HIDE DEF b
  <2>2. ScanSeen(w)'
    BY <1>1, <1>2, <2>1 DEF ClaimInv, ScanSeen, MayClaim
  <2>3. pc' = pc
    BY <2>1 DEF vars
  <2> QED BY <1>1, <1>2, <1>3, <2>1, <2>2, <2>3
       DEF ClaimInv, CurrentHeld, ChunkOfBlock, OwnedDone, OwnTried, Tried
<1>8. CASE Wait(w)
  <2>1. /\ hunt'[w] = "none" /\ chunk'[w] = {}
        /\ UNCHANGED << owner, current, ownNext >>
    BY <1>1, <1>8 DEF Wait, Hunt, ConstrainWith, PartTypeOK, TypeOK
  <2> QED BY <1>1, <1>2, <1>3, <2>1
       DEF ClaimInv, CurrentHeld, ChunkOfBlock, OwnedDone, OwnTried, Tried, ScanSeen
<1>9. CASE Steal(w)
  <2>1. hunt[w] = "scan" /\ free[w] # {} /\ UNCHANGED ownNext
    BY <1>9 DEF Steal
  <2>2. CASE TakeBlock(w, Best(w))
    <3>1. Best(w) \in Present(w)
      BY <2>1, BestIsPresent
    <3>2. /\ CurrentHeld(w)' /\ ChunkOfBlock(w)' /\ OwnedDone(w)' /\ ScanSeen(w)'
          /\ owner'[Best(w)] = Me(w)
          /\ \A c \in Blocks : c # Best(w) => owner'[c] = owner[c]
      BY <2>1, <2>2, <3>1, TakeClaims
    <3>3. OwnTried(w)'
      BY <1>1, <1>2, <2>1, <3>2, CodeFacts DEF ClaimInv, OwnTried, Tried
    <3> QED BY <1>3, <3>2, <3>3 DEF ClaimInv
  <2>3. CASE StartScan(w) /\ UNCHANGED << vars, owner, current >>
    <3>1. ownNext[w] = BlocksPerPart
      BY <1>1, <2>1 DEF HuntShape
    <3> QED BY <1>1, <2>1, <2>3, <3>1, ScanClaims
  <2> QED BY <1>9, <2>2, <2>3 DEF Steal
<1> QED BY <1>4, <1>5, <1>6, <1>7, <1>8, <1>9 DEF StealStep
-----------------------------------------------------------------------------
(* The workers together. *)

LEMMA PartStepOthers ==
  ASSUME ChoiceInv, NEW w \in Workers, PartStep(w), NEW u \in Workers, u # w
  PROVE  SameSearch(u) /\ LocalSame(u)
<1>1. TypeOK /\ PartTypeOK /\ SearchInv /\ \A x \in Workers : ProgressInv(x)
  BY DEF ChoiceInv, PartTypeOK
<1>2. SearchMove(w) /\ TypeOK'
  BY <1>1, PartStepMoves, MoveKeeps
<1>3. CASE InheritedStep(w)
  <2>1. LocalSame(u)
    BY <1>3 DEF InheritedStep, partVars, localVars, LocalSame
  <2>2. CASE CommonStep(w)
    BY <1>1, <2>1, <2>2, CommonStepOthers
  <2>3. CASE SelectChunk(w)
    BY <1>1, <2>1, <2>3, PrefixChooses, ChooseOthers
  <2> QED BY <1>3, <2>2, <2>3 DEF InheritedStep
<1>4. CASE InitCandidates(w)
  BY <1>1, <1>2, <1>4, InitCandidatesShape, CommonStepOthers DEF InitCandidates, CommonStep
<1>5. CASE SelectInBlock(w)
  BY <1>1, <1>2, <1>5, SelectInBlockShape, BlockChooses, ChooseOthers
<1>6. CASE StealStep(w)
  <2>1. LocalSame(u)
    BY <1>2, <1>6, StealStepShape
  <2>2. CASE UNCHANGED vars
    BY <2>1, <2>2 DEF vars, searchVars, solverVars, SameSearch
  <2>3. CASE \E c : Chooses(w, c)
    BY <1>1, <2>1, <2>3, ChooseOthers
  <2> QED BY <1>6, <2>2, <2>3, StealChooses
<1> QED BY <1>3, <1>4, <1>5, <1>6 DEF PartStep

(* The table only changes when a stealing worker takes a block.            *)
Claims(w, b) ==
  /\ Stealing(w) /\ b \in Blocks /\ MayClaim(w, b)
  /\ owner' = [owner EXCEPT ![b] = Me(w)]
  /\ current' = [current EXCEPT ![w] = b]

LeavesTable(w) ==
  /\ owner' = owner
  /\ Stealing(w) => current' = current \/ current' = [current EXCEPT ![w] = NoBlock]

LEMMA PartStepTable ==
  ASSUME ChoiceInv, NEW w \in Workers, PartStep(w)
  PROVE  LeavesTable(w) \/ \E b \in Blocks : Claims(w, b)
<1>1. TypeOK /\ Present(w) \subseteq Blocks
  BY PresentBlocks DEF ChoiceInv, PartTypeOK
<1>2. CASE InheritedStep(w) \/ InitCandidates(w) \/ SelectInBlock(w)
  BY <1>2
  DEF InheritedStep, InitCandidates, SelectInBlock, SelectBlock, partVars, localVars, LeavesTable
<1>3. CASE StealStep(w)
  <2>1. Stealing(w)
    BY <1>3, ChoosingFacts
  <2>2. ASSUME NEW b \in Present(w), TakeBlock(w, b) PROVE \E x \in Blocks : Claims(w, x)
    BY <1>1, <2>1, <2>2 DEF TakeBlock, Claims
  <2>3. CASE KeepBlock(w)
    BY <2>3 DEF KeepBlock, LeavesTable
  <2>4. CASE ClaimOwn(w)
    <3> DEFINE b == PartIndex[w] * BlocksPerPart + ownNext[w]
    <3>1. (b \in Present(w) /\ TakeBlock(w, b)) \/ UNCHANGED << vars, owner, current, hunt >>
      BY <2>4 DEF ClaimOwn
    <3> HIDE DEF b
    <3> QED BY <2>2, <3>1 DEF LeavesTable
  <2>5. CASE OwnDone(w) \/ ReadOwner(w) \/ Wait(w)
    BY <2>5 DEF OwnDone, ReadOwner, Wait, LeavesTable
  <2>6. CASE Steal(w)
    <3>1. Best(w) \in Present(w)
      BY <2>6, BestIsPresent DEF Steal
    <3>2. TakeBlock(w, Best(w)) \/ UNCHANGED << vars, owner, current >>
      BY <2>6 DEF Steal
    <3> QED BY <2>2, <3>1, <3>2 DEF LeavesTable
  <2> QED BY <1>3, <2>3, <2>4, <2>5, <2>6 DEF StealStep
<1> QED BY <1>2, <1>3 DEF PartStep

LEMMA TableOfOthers ==
  ASSUME PartTypeOK, NEW w \in Workers, LeavesTable(w) \/ (\E b \in Blocks : Claims(w, b)),
         NEW u \in Workers, u # w, Stealing(u)
  PROVE  OwnerMoves(u)
<1>1. CASE LeavesTable(w)
  BY <1>1 DEF LeavesTable, OwnerMoves
<1>2. ASSUME NEW b \in Blocks, Claims(w, b) PROVE OwnerMoves(u)
  <2>1. /\ owner[b] \in {Free, Me(w)} /\ owner'[b] = Me(w)
        /\ \A c \in Blocks : c # b => owner'[c] = owner[c]
    BY <1>2 DEF Claims, MayClaim, PartTypeOK
  <2>2. Me(w) # Free /\ Me(u) # Free /\ Me(w) # Me(u) /\ Me(w) \notin OtherCodes
        /\ Free \notin OtherCodes
    BY <1>2, CodeFacts DEF Claims
  <2> QED BY <2>1, <2>2 DEF OwnerMoves
<1> QED BY <1>1, <1>2

(* A block that a worker may claim is nobody's current block.              *)
LEMMA ApartStep ==
  ASSUME PartTypeOK, \A u \in Workers : Stealing(u) => CurrentHeld(u) /\ Apart(u),
         NEW w \in Workers, LeavesTable(w) \/ (\E b \in Blocks : Claims(w, b)),
         \A u \in Workers : u # w => current'[u] = current[u]
  PROVE  \A u \in Workers : Stealing(u) => Apart(u)'
<1> SUFFICES ASSUME NEW u \in Workers, NEW x \in Workers, Stealing(u), Stealing(x), x # u,
                    current'[x] = current'[u], current'[x] # NoBlock
             PROVE  FALSE
  BY DEF Apart, Stealing
<1>1. current[x] = NoBlock \/ current[x] # current[u]
  BY DEF Apart
<1>2. x = w \/ u = w
  BY <1>1
<1>3. ASSUME NEW y \in Workers, Stealing(y), y # w, Stealing(w), current'[w] = current'[y],
             current'[y] # NoBlock, current[w] # current[y]
      PROVE  FALSE
  <2>1. current'[y] = current[y]
    BY <1>3
  <2>2. CASE LeavesTable(w)
    BY <1>3, <2>1, <2>2 DEF LeavesTable, PartTypeOK
  <2>3. ASSUME NEW b \in Blocks, Claims(w, b) PROVE FALSE
    <3>1. current[y] = b /\ owner[b] \in {Free, Me(w)}
      BY <1>3, <2>1, <2>3 DEF Claims, MayClaim, PartTypeOK
    <3>2. owner[b] \in {Me(y)} \union OtherCodes
      BY <1>3, <2>1, <3>1 DEF CurrentHeld
    <3> QED BY <1>3, <3>1, <3>2, CodeFacts
  <2> QED BY <2>2, <2>3
<1> QED BY <1>1, <1>2, <1>3

LEMMA PartInvStep == PartInv /\ [PartNext]_partAllVars => PartInv'
<1> SUFFICES ASSUME PartInv, [PartNext]_partAllVars PROVE PartInv'
  OBVIOUS
<1>1. ChoiceInv /\ ChoiceInv' /\ PartTypeOK /\ TypeOK /\ TypeOK' /\ SearchInv
  BY ChoiceStep DEF PartInv, ChoiceInv, PartTypeOK
<1>2. \A u \in Workers : Stealing(u) => ClaimInv(u) /\ CurrentHeld(u) /\ Apart(u)
  BY DEF PartInv, ClaimInv
<1>3. ASSUME \A u \in Workers : SameSearch(u) /\ LocalSame(u), BoardGrows,
             \A u \in Workers : Stealing(u) => OwnerMoves(u)
      PROVE  PartInv'
  <2>1. \A u \in Workers : Stealing(u) => ClaimInv(u)'
    BY <1>1, <1>2, <1>3, ClaimOfOthers
  <2>2. \A u \in Workers : Stealing(u) => Apart(u)'
    BY <1>2, <1>3 DEF LocalSame, Apart, Stealing
  <2> QED BY <1>1, <2>1, <2>2 DEF PartInv, Stealing
<1>4. ASSUME NEW w \in Workers, PartStep(w) PROVE PartInv'
  <2>1. BoardGrows
    BY <1>1, <1>4, PartStepMoves, MoveGrows
  <2>2. LeavesTable(w) \/ \E b \in Blocks : Claims(w, b)
    BY <1>1, <1>4, PartStepTable
  <2>3. ASSUME NEW u \in Workers, u # w PROVE SameSearch(u) /\ LocalSame(u)
    BY <1>1, <1>4, <2>3, PartStepOthers
  <2>4. ASSUME NEW u \in Workers, u # w, Stealing(u) PROVE ClaimInv(u)'
    <3>1. OwnerMoves(u)
      BY <1>1, <2>2, <2>4, TableOfOthers
    <3> QED BY <1>1, <1>2, <2>1, <2>3, <2>4, <3>1, ClaimOfOthers
  <2>5. ASSUME Stealing(w) PROVE ClaimInv(w)'
    <3>1. CASE StealStep(w)
      BY <1>1, <1>2, <2>5, <3>1, StealStepClaims
    <3>2. CASE SelectInBlock(w)
      BY <2>5, <3>2 DEF SelectInBlock, SelectBlock
    <3>3. CASE InheritedStep(w)
      <4>1. CommonStep(w)
        BY <2>5, <3>3, StealingMode DEF InheritedStep
      <4>2. LocalSame(w) /\ owner' = owner
        BY <3>3 DEF InheritedStep, partVars, localVars, LocalSame
      <4> QED BY <1>1, <1>2, <2>5, <4>1, <4>2, CommonStepClaims DEF ChoiceInv
    <3>4. CASE InitCandidates(w)
      <4>1. /\ CommonStep(w) /\ cand' = cand /\ sigma' = sigma /\ board' = board
            /\ pc'[w] = "loop" /\ pc[w] = "filter" /\ chunk' = chunk
            /\ UNCHANGED << owner, current, ownNext, hunt, unread, free >>
        BY <1>1, <3>4
        DEF InitCandidates, FilterDone, CommonStep, Goto, TypeOK, solverVars, sharedVars
      <4> QED BY <1>2, <2>5, <4>1
           DEF ClaimInv, FreshClaims, CurrentHeld, ChunkOfBlock, OwnedDone, OwnTried, Tried,
               ScanSeen, Published, HasModel
    <3> QED BY <1>4, <3>1, <3>2, <3>3, <3>4 DEF PartStep
  <2>6. \A u \in Workers : Stealing(u) => Apart(u)'
    <3>1. \A u \in Workers : u # w => current'[u] = current[u]
      BY <2>3 DEF LocalSame
    <3> QED BY <1>1, <1>2, <2>2, <3>1, ApartStep
  <2> QED BY <1>1, <2>4, <2>5, <2>6 DEF PartInv, Stealing
<1>5. ASSUME NEW w \in Workers, SolverStep(w) \/ Interrupt(w), UNCHANGED partVars
      PROVE  PartInv'
  <2>1. \A u \in Workers : SameSearch(u) /\ LocalSame(u)
    BY <1>1, <1>5, SolverStepOthers DEF partVars, localVars, LocalSame
  <2>2. BoardGrows
    BY <1>1, <1>5, MoveGrows DEF SearchMove
  <2>3. \A u \in Workers : OwnerMoves(u)
    BY <1>5 DEF partVars, OwnerMoves
  <2> QED BY <1>3, <2>1, <2>2, <2>3
<1>6. ASSUME NEW b \in Blocks, MergeClaim(b) PROVE PartInv'
  <2>1. \A u \in Workers : SameSearch(u) /\ LocalSame(u)
    BY <1>6 DEF MergeClaim, vars, searchVars, solverVars, SameSearch, localVars, LocalSame
  <2>2. BoardGrows
    BY <1>6 DEF MergeClaim, vars, sharedVars, BoardGrows
  <2>3. ASSUME NEW u \in Workers, Stealing(u) PROVE OwnerMoves(u)
    <3>1. PICK i \in OtherRanks : owner' = [owner EXCEPT ![b] = Code(i)]
      BY <1>6 DEF MergeClaim
    <3>2. Code(i) \in OtherCodes /\ Code(i) \notin {Free, Me(u)}
      <4>1. Code(i) \in OtherCodes
        BY DEF OtherCodes
      <4> QED BY <2>3, <4>1, CodeFacts
    <3> QED BY <1>1, <3>1, <3>2 DEF OwnerMoves, PartTypeOK
  <2> QED BY <1>3, <2>1, <2>2, <2>3
<1>7. ASSUME NEW v \in Vars, MergeStatus(v) PROVE PartInv'
  <2>1. UNCHANGED partVars /\ \A u \in Workers : SameSearch(u)
    BY <1>1, <1>7, MergeStatusKeeps DEF MergeStatus
  <2>2. BoardGrows
    <3>1. PICK s \in Status \ {"unknown"} : board' = Publish(board, v, s)
      BY <1>7 DEF MergeStatus
    <3> QED BY <1>1, <3>1, PublishFacts DEF TypeOK, BoardGrows
  <2>3. \A u \in Workers : OwnerMoves(u) /\ LocalSame(u)
    BY <2>1 DEF partVars, localVars, OwnerMoves, LocalSame
  <2> QED BY <1>3, <2>1, <2>2, <2>3
<1>8. CASE UNCHANGED partAllVars
  <2>1. UNCHANGED vars /\ UNCHANGED partVars
    BY <1>8 DEF partAllVars
  <2>2. \A u \in Workers : SameSearch(u) /\ LocalSame(u) /\ OwnerMoves(u)
    BY <2>1
    DEF vars, searchVars, solverVars, SameSearch, partVars, localVars, LocalSame, OwnerMoves
  <2>3. BoardGrows
    BY <2>1 DEF vars, sharedVars, BoardGrows
  <2> QED BY <1>3, <2>2, <2>3
<1> QED BY <1>4, <1>5, <1>6, <1>7, <1>8 DEF PartNext

LEMMA PartInvInit == PartInit => PartInv
<1> SUFFICES ASSUME PartInit PROVE PartInv
  OBVIOUS
<1>1. ChoiceInv /\ Init
  BY ChoiceInit DEF PartInit
<1>2. ASSUME NEW w \in Workers PROVE ClaimInv(w) /\ Apart(w)
  <2>1. cand[w] = {} /\ ~ HasModel(w) /\ pc[w] = "first" /\ current[w] = NoBlock
        /\ ownNext[w] = 0 /\ hunt[w] = "none" /\ \A b \in Blocks : owner[b] = Free
    BY <1>1 DEF Init, PartInit, HasModel
  <2>2. \A u \in Workers : current[u] = NoBlock
    BY DEF PartInit
  <2> QED BY <2>1, <2>2, CodeFacts
       DEF ClaimInv, FreshClaims, CurrentHeld, ChunkOfBlock, OwnedDone, OwnTried, ScanSeen,
           Published, Apart
<1> QED BY <1>1, <1>2 DEF PartInv
-----------------------------------------------------------------------------
(* The claims, beside the choice of the chunk, of every stealing worker:    *)
(* what it owns, what it has seen taken and what it has published.         *)
THEOREM PartInvCorrect == PartSpec => []PartInv
BY PartInvInit, PartInvStep, PTL DEF PartSpec

(* Type correctness: initCandidates puts every candidate into a block, and *)
(* the table only holds codes of workers.                                  *)
THEOREM PartTypeCorrect == PartSpec => []PartTypeOK
<1>1. ChoiceInv => PartTypeOK
  BY DEF ChoiceInv
<1> QED BY <1>1, ChoiceCorrect, PTL

(* The answers stay right whatever order the chunks are chosen in, and     *)
(* whatever the other ranks claim and publish.                             *)
THEOREM PartResultCorrect == PartSpec => []ResultExact
<1>1. ChoiceInv => ResultExact
  BY ResultFromSearch DEF ChoiceInv, PartTypeOK
<1> QED BY <1>1, ChoiceCorrect, PTL

(* Every answered call decides a candidate, also with chunks by blocks.    *)
THEOREM PartCallsDecideCorrect == PartSpec => []CallsDecide
<1>1. ChoiceInv => CallsDecide
  BY CallsFromProgress DEF ChoiceInv
<1> QED BY <1>1, ChoiceCorrect, PTL

(* CadiBackSqrt.cpp:62, CadiBackPartition.cpp:270: a chunk is only empty   *)
(* when a stealing worker waits for the blocks of the others.              *)
THEOREM EmptyOnlyToWaitCorrect == PartSpec => EmptyOnlyToWait
<1> DEFINE OnlyToWait(w) == pc[w] = "select" /\ pc'[w] = "loop" => Waits(w)
<1>1. ASSUME ChoiceInv, [PartNext]_partAllVars, NEW w \in Workers PROVE OnlyToWait(w)
  <2> USE <1>1
  <2>1. TypeOK /\ LoopShape(w) /\ SearchInv
    BY DEF ChoiceInv, PartTypeOK, SearchInv, WorkerInv
  <2>2. ASSUME PartStep(w) \/ SolverStep(w) \/ Interrupt(w) PROVE OnlyToWait(w)
    <3>1. CASE CommonStep(w)
      BY <2>1, <3>1, CommonStepFacts
    <3>2. CASE SolverStep(w) \/ Interrupt(w) \/ UNCHANGED vars
      BY <3>2 DEF SolverStep, Learn, Import, FixAtRoot, Interrupt, vars
    <3>3. ASSUME NEW c, Chooses(w, c) PROVE OnlyToWait(w)
      BY <2>1, <3>3 DEF Chooses, ConstrainWith, Goto, TypeOK
    <3> QED BY <2>2, <3>1, <3>2, <3>3, PartStepMoves DEF SearchMove
  <2>3. ASSUME SameSearch(w) PROVE OnlyToWait(w)
    BY <2>3 DEF SameSearch
  <2>4. ASSUME NEW u \in Workers, u # w, PartStep(u) PROVE OnlyToWait(w)
    BY <2>3, <2>4, PartStepOthers
  <2>5. ASSUME NEW u \in Workers, u # w, SolverStep(u) \/ Interrupt(u) PROVE OnlyToWait(w)
    BY <2>5 DEF SolverStep, Learn, Import, FixAtRoot, Interrupt
  <2>6. CASE (\E b \in Blocks : MergeClaim(b)) \/ (\E v \in Vars : MergeStatus(v))
             \/ UNCHANGED partAllVars
    BY <2>6 DEF MergeClaim, MergeStatus, partAllVars, vars
  <2> HIDE DEF OnlyToWait
  <2> QED BY <2>2, <2>4, <2>5, <2>6 DEF PartNext
<1>2. ChoiceInv /\ [PartNext]_partAllVars =>
        [\A w \in Workers :
           pc[w] = "select" /\ pc'[w] = "loop" =>
             Stealing(w) /\ hunt[w] = "scan" /\ current'[w] = NoBlock]_partAllVars
  BY <1>1 DEF Waits
<1> QED BY <1>2, ChoiceCorrect, PTL DEF PartSpec, EmptyOnlyToWait

(* PartClaims.hpp:18: the chunk of a stealing worker is of a block that it *)
(* owns when it chooses it, whoever claimed the block before.              *)
THEOREM GivesUpAtNextChunkCorrect == PartSpec => GivesUpAtNextChunk
<1> DEFINE OfOwnBlock(w) ==
      pc[w] = "select" /\ pc'[w] = "solve" =>
        \A l \in chunk'[w] : owner'[BlockOfVar(VarOf(l))] = Me(w)
<1>1. ASSUME ChoiceInv, [PartNext]_partAllVars, NEW w \in Workers, Stealing(w)
      PROVE  OfOwnBlock(w)
  <2> USE <1>1
  <2>1. /\ TypeOK /\ PartTypeOK /\ LoopShape(w) /\ SearchInv /\ ProgressInv(w)
        /\ Present(w) \subseteq Blocks
    BY PresentBlocks DEF ChoiceInv, PartTypeOK, SearchInv, WorkerInv
  <2>2. ASSUME NEW b \in Present(w), TakeBlock(w, b) PROVE OfOwnBlock(w)
    <3>1. chunk'[w] = Gather(w, b, StartSize(w)) /\ owner'[b] = Me(w)
      BY <2>1, <2>2 DEF TakeBlock, ConstrainWith, TypeOK, PartTypeOK
    <3>2. \A l \in Gather(w, b, StartSize(w)) : BlockOf(l) = b
      BY <2>1, SizesPositive, GatherFacts
    <3> QED BY <3>1, <3>2 DEF BlockOf
  <2>3. ASSUME pc' = pc PROVE OfOwnBlock(w)
    BY <2>3
  <2>4. CASE StealStep(w)
    <3>1. CASE KeepBlock(w)
      <4> DEFINE c == Gather(w, current[w], chunkSize[w])
      <4>1. CASE /\ owner[current[w]] = Me(w) /\ ConstrainWith(w, c) /\ owner' = owner
        <5>1. pc[w] = "select"
          BY <3>1 DEF KeepBlock
        <5>2. chunk'[w] = c
          BY <2>1, <4>1 DEF ConstrainWith, TypeOK
        <5>3. \A l \in c : BlockOf(l) = current[w]
          BY <2>1, <5>1, SizesPositive, GatherFacts DEF ProgressInv
        <5> QED BY <4>1, <5>2, <5>3 DEF BlockOf
      <4>2. CASE UNCHANGED vars
        BY <2>3, <4>2 DEF vars
      <4> QED BY <3>1, <4>1, <4>2 DEF KeepBlock
    <3>2. CASE ClaimOwn(w)
      <4> DEFINE b == PartIndex[w] * BlocksPerPart + ownNext[w]
      <4>1. (b \in Present(w) /\ TakeBlock(w, b)) \/ pc' = pc
        BY <3>2 DEF ClaimOwn, vars
      <4> HIDE DEF b, OfOwnBlock
      <4> QED BY <2>2, <2>3, <4>1
    <3>3. CASE OwnDone(w) \/ ReadOwner(w)
      BY <2>3, <3>3 DEF OwnDone, ReadOwner, vars
    <3>4. CASE Wait(w)
      BY <2>1, <3>4 DEF Wait, ConstrainWith, Goto, TypeOK
    <3>5. CASE Steal(w)
      <4>1. Best(w) \in Present(w) /\ (TakeBlock(w, Best(w)) \/ pc' = pc)
        BY <3>5, BestIsPresent DEF Steal, vars
      <4> HIDE DEF OfOwnBlock
      <4> QED BY <2>2, <2>3, <4>1
    <3> HIDE DEF OfOwnBlock
    <3> QED BY <2>4, <3>1, <3>2, <3>3, <3>4, <3>5 DEF StealStep
  <2>5. CASE InheritedStep(w) \/ InitCandidates(w) \/ SelectInBlock(w)
    <3>1. CASE CommonStep(w)
      BY <2>1, <3>1, CommonStepFacts
    <3>2. CASE SelectInBlock(w)
      BY <3>2 DEF SelectInBlock, SelectBlock
    <3> QED BY <2>5, <3>1, <3>2, StealingMode DEF InheritedStep, InitCandidates, CommonStep
  <2>6. ASSUME NEW u \in Workers, u # w, PartStep(u) PROVE OfOwnBlock(w)
    BY <2>6, PartStepOthers DEF SameSearch
  <2>7. ASSUME NEW u \in Workers, SolverStep(u) \/ Interrupt(u) PROVE OfOwnBlock(w)
    BY <2>3, <2>7 DEF SolverStep, Learn, Import, FixAtRoot, Interrupt
  <2>8. CASE (\E b \in Blocks : MergeClaim(b)) \/ (\E v \in Vars : MergeStatus(v))
             \/ UNCHANGED partAllVars
    BY <2>3, <2>8 DEF MergeClaim, MergeStatus, partAllVars, vars
  <2> HIDE DEF OfOwnBlock
  <2> QED BY <2>4, <2>5, <2>6, <2>7, <2>8 DEF PartNext, PartStep
<1>2. ChoiceInv /\ [PartNext]_partAllVars =>
        [\A w \in Workers : Stealing(w) /\ pc[w] = "select" /\ pc'[w] = "solve" =>
           \A l \in chunk'[w] : owner'[BlockOfVar(VarOf(l))] = Me(w)]_partAllVars
  BY <1>1
<1> QED BY <1>2, ChoiceCorrect, PTL DEF PartSpec, GivesUpAtNextChunk

(* A worker that waits has no free block left, although the owners were    *)
(* read one by one while they changed.                                     *)
THEOREM WaitsForOthersCorrect == PartSpec => []WaitsForOthers
<1>1. PartInv => WaitsForOthers
  <2> SUFFICES ASSUME PartInv, NEW w \in Workers, hunt[w] = "scan",
                      unread[w] = {}, free[w] = {}, NEW l \in cand[w]
               PROVE  owner[BlockOfVar(VarOf(l))] \notin {Free, Me(w)}
    BY DEF WaitsForOthers
  <2>1. Stealing(w)
    BY DEF PartInv, ChoiceInv, HuntShape
  <2> QED BY <2>1 DEF PartInv, ClaimInv, ScanSeen, BlockOf
<1> QED BY <1>1, PartInvCorrect, PTL

(* CadiBackPartition.hpp:43: a variable that the board does not know is    *)
(* still a candidate of every stealing worker with a model, so that no     *)
(* variable is lost by waiting for it.                                     *)
THEOREM HeldOrPublishedCorrect == PartSpec => []HeldOrPublished
<1>1. PartInv => HeldOrPublished
  BY DEF PartInv, ClaimInv, Published, HeldOrPublished
<1> QED BY <1>1, PartInvCorrect, PTL

(* PartClaims.hpp:13, in a single process: the literals under a constraint *)
(* are of a block of their worker, and no two workers work on one block.   *)
(* A rank with a lower index may take a block over in the middle of a      *)
(* call: then the first part only holds again at the next chunk.           *)
THEOREM OwnChunksCorrect == ASSUME OtherRanks = {} PROVE PartSpec => []OwnChunks
<1>1. PartInv => OwnChunks
  <2> SUFFICES ASSUME PartInv, NEW w \in Workers, Stealing(w)
               PROVE  /\ pc[w] \in {"solve", "unsat"} =>
                           \A l \in chunk[w] : owner[BlockOfVar(VarOf(l))] = Me(w)
                      /\ \A u \in Workers \ {w} : Stealing(u) =>
                           current[u] = NoBlock \/ current[u] # current[w]
    BY DEF OwnChunks
  <2>1. /\ ChunkOfBlock(w) /\ CurrentHeld(w) /\ Apart(w) /\ LoopShape(w) /\ TypeOK
    BY DEF PartInv, ClaimInv, ChoiceInv, PartTypeOK, SearchInv, WorkerInv
  <2>2. ASSUME pc[w] \in {"solve", "unsat"}, NEW l \in chunk[w]
        PROVE  owner[BlockOfVar(VarOf(l))] = Me(w)
    <3>1. l \in Lit
      BY <2>1, <2>2 DEF TypeOK
    <3>2. BlockOf(l) = current[w] /\ current[w] # NoBlock
      BY <2>1, <2>2, <3>1, BlockOfLiteral, BlocksAreNumbers DEF ChunkOfBlock, NoBlock
    <3>3. OtherCodes = {}
      BY DEF OtherCodes
    <3> QED BY <2>1, <3>2, <3>3 DEF CurrentHeld, BlockOf
  <2> QED BY <2>1, <2>2 DEF Apart
<1> QED BY <1>1, PartInvCorrect, PTL
=============================================================================
