------------------------- MODULE ClauseSharingProofs -------------------------
(***************************************************************************)
(* What a rank gives to the network, what it keeps, what the solvers get,  *)
(* and what the ranks agree on: for any number of ranks, solvers and       *)
(* clauses, and any budget.  The ranks agree because what each of them     *)
(* decodes from the words of a round is exactly what the others wrote      *)
(* (GatheredDecodes), whatever the sizes of the clauses are.               *)
(***************************************************************************)
EXTENDS ClauseSharing, FiniteSetTheorems, WellFoundedInduction, SequenceTheorems, TLAPS

(* Words are sizes, lbds, zeros and literals.                              *)
Word == Nat \union Clauses
-----------------------------------------------------------------------------
(* The words.  Decode is a recursion over the rounds of a loop: what fails *)
(* after some round fails after a first one (FirstRound).                  *)

(* A set of rounds has a first one.                                        *)
LEMMA FirstRound ==
  ASSUME NEW X \in SUBSET Nat, X # {}
  PROVE  \E n \in X : \A m \in X : n <= m
<1> DEFINE Y == {0..n : n \in X}
<1>1. Y \subseteq FiniteSubsetsOf(Nat) /\ Y # {}
  <2>1. ASSUME NEW n \in X PROVE 0..n \in FiniteSubsetsOf(Nat)
    <3>1. n \in Int /\ 0 \in Int /\ 0..n \in SUBSET Nat
      OBVIOUS
    <3> QED BY <3>1, FS_Interval DEF FiniteSubsetsOf
  <2> QED BY <2>1
<1>2. PICK s \in Y : \A u \in Y : ~ (<< u, s >> \in StrictSubsetOrdering(Nat))
  <2> HIDE DEF Y
  <2> QED BY <1>1, FS_StrictSubsetOrderingWellFounded, WFMin
<1>3. PICK n \in X : s = 0..n
  OBVIOUS
<1>4. ASSUME NEW m \in X, m < n PROVE FALSE
  <2>1. 0..m \in Y /\ 0..m \in SUBSET Nat /\ 0..n \in SUBSET Nat
    OBVIOUS
  <2>2. 0..m \subseteq 0..n /\ 0..m # 0..n
    <3>1. n \in 0..n /\ n \notin 0..m
      BY <1>4
    <3> QED BY <1>4, <3>1
  <2> QED BY <1>2, <1>3, <2>1, <2>2 DEF StrictSubsetOrdering
<1> QED BY <1>4

(* The function that At defines, on the first m rounds.                    *)
Rounds(words, at, m) ==
  at = [n \in 0..m |-> IF n = 0 THEN 0 ELSE After(words)[at[n - 1]]]

LEMMA AtFollows ==
  ASSUME NEW words, Len(words) \in Nat
  PROVE  /\ DOMAIN At(words) = 0..Len(words) /\ At(words)[0] = 0
         /\ \A n \in 1..Len(words) : At(words)[n] = After(words)[At(words)[n - 1]]
<1>1. \A m \in Nat : \E at : Rounds(words, at, m)
  <2> DEFINE X == {m \in Nat : ~ \E at : Rounds(words, at, m)}
  <2> SUFFICES ASSUME X # {} PROVE FALSE
    OBVIOUS
  <2>1. PICK m \in X : \A k \in X : m <= k
    <3>1. X \in SUBSET Nat
      OBVIOUS
    <3> HIDE DEF X
    <3> QED BY <3>1, FirstRound
  <2>2. CASE m = 0
    <3> DEFINE at == [n \in 0..0 |-> IF n = 0 THEN 0 ELSE 1]
    <3>1. at = [n \in 0..0 |-> IF n = 0 THEN 0 ELSE After(words)[at[n - 1]]]
      OBVIOUS
    <3> HIDE DEF at
    <3> QED BY <2>2, <3>1 DEF Rounds
  <2>3. CASE m # 0
    <3>1. m - 1 \in Nat /\ m - 1 \notin X
      BY <2>1, <2>3
    <3>2. PICK f : Rounds(words, f, m - 1)
      BY <3>1
    <3> DEFINE at == [n \in 0..m |-> IF n = m THEN After(words)[f[m - 1]] ELSE f[n]]
    <3>3. \A n \in 0..m - 1 : f[n] = IF n = 0 THEN 0 ELSE After(words)[f[n - 1]]
      BY <3>2 DEF Rounds
    <3>4. \A n \in 0..m : at[n] = IF n = 0 THEN 0 ELSE After(words)[at[n - 1]]
      <4> SUFFICES ASSUME NEW n \in 0..m
                   PROVE  at[n] = IF n = 0 THEN 0 ELSE After(words)[at[n - 1]]
        OBVIOUS
      <4>1. CASE n = 0
        BY <2>3, <3>3, <4>1
      <4>2. CASE n # 0 /\ n = m
        <5>1. at[n - 1] = f[m - 1]
          BY <4>2
        <5> QED BY <4>2, <5>1
      <4>3. CASE n # 0 /\ n # m
        <5>1. at[n] = f[n] /\ at[n - 1] = f[n - 1] /\ n \in 0..m - 1
          BY <4>3
        <5> QED BY <3>3, <4>3, <5>1
      <4> QED BY <4>1, <4>2, <4>3
    <3>5. Rounds(words, at, m)
      <4>1. DOMAIN at = 0..m /\ at = [n \in 0..m |-> at[n]]
        OBVIOUS
      <4> HIDE DEF at
      <4> QED BY <3>4, <4>1 DEF Rounds
    <3> QED BY <3>5
  <2> QED BY <2>2, <2>3
<1>2. At(words) = CHOOSE at : Rounds(words, at, Len(words))
  BY DEF At, Rounds
<1>3. Rounds(words, At(words), Len(words))
  BY <1>1, <1>2
<1> HIDE DEF At
<1> QED BY <1>3 DEF Rounds

(* The loop goes from each place to the next one of a set that leads from  *)
(* 0 to the end, and meets all of them.                                    *)
Leads(words, P) ==
  /\ P \subseteq 0..Len(words) /\ 0 \in P /\ Len(words) \in P
  /\ \A i \in P : i < Len(words) =>
       /\ After(words)[i] \in P /\ After(words)[i] > i
       /\ \A j \in P : j <= i \/ j >= After(words)[i]

LEMMA DecodeIs ==
  ASSUME NEW words, Len(words) \in Nat, NEW P, Leads(words, P)
  PROVE  Decode(words) = {words[i + 3] : i \in {j \in P : j < Len(words) /\ words[j + 1] # 0}}
<1> DEFINE L == Len(words)
           at == At(words)
<1>1. /\ DOMAIN at = 0..L /\ at[0] = 0
      /\ \A n \in 1..L : at[n] = After(words)[at[n - 1]]
  BY AtFollows
<1>2. /\ P \subseteq 0..L /\ 0 \in P /\ L \in P /\ L \in Nat
      /\ \A i \in P : i < L => /\ After(words)[i] \in P /\ After(words)[i] > i
                                /\ \A j \in P : j <= i \/ j >= After(words)[i]
      /\ After(words)[L] = L
  <2>1. After(words)[L] = L
    BY DEF After
  <2> QED BY <2>1 DEF Leads
<1> HIDE DEF L, at
<1> DEFINE Good(n) == /\ at[n] \in P /\ (at[n] >= n \/ at[n] = L)
                      /\ \A p \in P : p < at[n] => \E k \in 0..L : at[k] = p
           X == {n \in 0..L : ~ Good(n)}
<1>3. X = {}
  <2> SUFFICES ASSUME X # {} PROVE FALSE
    OBVIOUS
  <2>1. PICK n \in X : \A m \in X : n <= m
    <3>1. X \in SUBSET Nat
      BY <1>2
    <3> HIDE DEF X
    <3> QED BY <3>1, FirstRound
  <2>2. n \in 0..L /\ ~ Good(n)
    OBVIOUS
  <2>3. n # 0
    <3>1. \A p \in P : ~ (p < 0)
      BY <1>2
    <3> QED BY <1>1, <1>2, <2>2, <3>1
  <2>4. n - 1 \in 0..L /\ n \in 1..L
    BY <1>2, <2>2, <2>3
  <2>5. Good(n - 1)
    <3>1. n - 1 \notin X
      BY <1>2, <2>1, <2>4
    <3> QED BY <2>4, <3>1
  <2>6. at[n] = After(words)[at[n - 1]]
    BY <1>1, <2>4
  <2>7. CASE at[n - 1] = L
    <3>1. at[n] = at[n - 1]
      BY <1>2, <2>6, <2>7
    <3>2. Good(n)
      BY <2>5, <2>7, <3>1
    <3> QED BY <2>2, <3>2
  <2>8. CASE at[n - 1] # L
    <3>1. at[n - 1] \in P /\ at[n - 1] >= n - 1
      BY <2>5, <2>8
    <3>2. at[n - 1] \in 0..L /\ at[n - 1] < L
      <4>1. at[n - 1] \in 0..L
        BY <1>2, <3>1
      <4> QED BY <1>2, <2>8, <4>1
    <3>3. at[n] \in P /\ at[n] > at[n - 1] /\ \A j \in P : j <= at[n - 1] \/ j >= at[n]
      BY <1>2, <2>6, <3>1, <3>2
    <3>4. at[n] \in 0..L
      BY <1>2, <3>3
    <3>5. at[n] >= n
      <4>1. n \in Int /\ L \in Int
        BY <1>2, <2>2
      <4> QED BY <3>1, <3>2, <3>3, <3>4, <4>1
    <3>6. ASSUME NEW p \in P, p < at[n] PROVE \E k \in 0..L : at[k] = p
      <4>1. p \in 0..L
        BY <1>2
      <4>2. p <= at[n - 1]
        BY <3>2, <3>3, <3>4, <3>6, <4>1
      <4>3. CASE p = at[n - 1]
        BY <2>4, <4>3
      <4>4. CASE p # at[n - 1]
        BY <2>5, <3>2, <4>1, <4>2, <4>4
      <4> QED BY <4>3, <4>4
    <3>7. Good(n)
      BY <3>3, <3>5, <3>6
    <3> QED BY <2>2, <3>7
  <2> QED BY <2>7, <2>8
<1>4. \A n \in 0..L : Good(n)
  BY <1>3
<1>5. at[L] = L
  <2>1. Good(L) /\ L \in 0..L
    BY <1>2, <1>4
  <2>2. at[L] \in 0..L
    BY <1>2, <2>1
  <2> QED BY <1>2, <2>1, <2>2
<1>6. Range(at) \subseteq P
  BY <1>1, <1>4 DEF Range
<1>7. \A p \in P : p < L => p \in Range(at)
  <2>1. Good(L)
    BY <1>2, <1>4
  <2> QED BY <1>1, <1>5, <2>1 DEF Range
<1>8. {j \in Range(at) : j < L /\ words[j + 1] # 0} = {j \in P : j < L /\ words[j + 1] # 0}
  BY <1>6, <1>7
<1> QED BY <1>8 DEF Decode, at, L

(* A buffer whose places lead from clause to clause decodes to them.       *)
LEMMA PlacesDecode ==
  ASSUME NEW words \in Seq(Word), NEW P, Places(words, P)
  PROVE  /\ Leads(words, P)
         /\ \A i \in P \ {Len(words)} : words[i + 1] # 0
         /\ Decode(words) = {words[i + 3] : i \in P \ {Len(words)}}
<1>1. Len(words) \in Nat
  OBVIOUS
<1>2. ASSUME NEW i \in P \ {Len(words)}
      PROVE  /\ words[i + 1] # 0 /\ After(words)[i] \in P /\ After(words)[i] > i
             /\ \A j \in P : j <= i \/ j >= After(words)[i]
  <2>1. PICK c \in Clauses :
          /\ words[i + 1] = Size[c] /\ i + 2 + Size[c] \in P
          /\ \A j \in P : j <= i \/ j >= i + 2 + Size[c]
    BY DEF Places
  <2>2. Size[c] \in Nat /\ Size[c] # 0 /\ i \in 0..Len(words) /\ i # Len(words)
    BY SharingAssumption DEF Places
  <2>3. After(words)[i] = i + 2 + Size[c]
    BY <2>1, <2>2 DEF After
  <2> QED BY <2>1, <2>2, <2>3
<1>3. Leads(words, P)
  BY <1>2 DEF Leads, Places
<1>4. {j \in P : j < Len(words) /\ words[j + 1] # 0} = P \ {Len(words)}
  <2>1. \A j \in P : j < Len(words) <=> j # Len(words)
    BY <1>1 DEF Places
  <2>2. \A j \in P \ {Len(words)} : words[j + 1] # 0
    BY <1>2
  <2> QED BY <2>1, <2>2
<1> QED BY <1>1, <1>2, <1>3, <1>4, DecodeIs

(* Nothing is decoded from no words.                                       *)
LEMMA EmptyDecodes ==
  /\ << >> \in Seq(Word) /\ Len(<< >>) = 0
  /\ Places(<< >>, {0}) /\ Decode(<< >>) = {}
<1>1. << >> \in Seq(Word) /\ Len(<< >>) = 0
  OBVIOUS
<1>2. Places(<< >>, {0})
  BY <1>1 DEF Places
<1>3. {0} \ {Len(<< >>)} = {}
  BY <1>1
<1>4. Decode(<< >>) = {(<< >>)[i + 3] : i \in {0} \ {Len(<< >>)}}
  BY <1>1, <1>2, PlacesDecode
<1>5. Decode(<< >>) = {}
  BY <1>3, <1>4
<1> QED BY <1>1, <1>2, <1>5

LEMMA WriteFacts ==
  ASSUME NEW words \in Seq(Word), NEW c \in Clauses
  PROVE  /\ Write(words, c) \in Seq(Word)
         /\ Len(Write(words, c)) = Len(words) + 2 + Size[c]
         /\ \A i \in 1..Len(words) : Write(words, c)[i] = words[i]
         /\ Write(words, c)[Len(words) + 1] = Size[c]
         /\ Write(words, c)[Len(words) + 3] = c
<1> DEFINE head == << Size[c], Lbd[c] >>
           lits == [n \in 1..Size[c] |-> c]
<1>1. Size[c] \in Nat /\ Size[c] # 0 /\ Lbd[c] \in Nat /\ Len(words) \in Nat
  BY SharingAssumption
<1>2. head \in Seq(Word) /\ Len(head) = 2 /\ head[1] = Size[c]
  BY <1>1 DEF Word
<1>3. lits \in Seq(Word) /\ Len(lits) = Size[c] /\ lits[1] = c
  BY <1>1 DEF Word
<1> HIDE DEF head, lits
<1>4. /\ words \o head \in Seq(Word) /\ Len(words \o head) = Len(words) + 2
      /\ \A i \in 1..Len(words) : (words \o head)[i] = words[i]
      /\ (words \o head)[Len(words) + 1] = Size[c]
  <2>1. /\ words \o head \in Seq(Word) /\ Len(words \o head) = Len(words) + Len(head)
        /\ \A i \in 1..Len(words) + Len(head) :
             (words \o head)[i] = IF i <= Len(words) THEN words[i] ELSE head[i - Len(words)]
    BY <1>2, ConcatProperties
  <2>2. (words \o head)[Len(words) + 1] = head[Len(words) + 1 - Len(words)]
    BY <1>1, <1>2, <2>1
  <2>3. Len(words) + 1 - Len(words) = 1
    BY <1>1
  <2> QED BY <1>1, <1>2, <2>1, <2>2, <2>3
<1>5. /\ (words \o head) \o lits \in Seq(Word)
      /\ Len((words \o head) \o lits) = Len(words) + 2 + Size[c]
      /\ \A i \in 1..Len(words) + 2 : ((words \o head) \o lits)[i] = (words \o head)[i]
      /\ ((words \o head) \o lits)[Len(words) + 3] = c
  <2> DEFINE w == words \o head
  <2> HIDE DEF w
  <2>1. w \in Seq(Word) /\ Len(w) = Len(words) + 2
    BY <1>4 DEF w
  <2>2. /\ w \o lits \in Seq(Word) /\ Len(w \o lits) = Len(w) + Len(lits)
        /\ \A i \in 1..Len(w) + Len(lits) :
             (w \o lits)[i] = IF i <= Len(w) THEN w[i] ELSE lits[i - Len(w)]
    BY <1>3, <2>1, ConcatProperties
  <2>3. (w \o lits)[Len(words) + 3] = lits[Len(words) + 3 - (Len(words) + 2)]
    BY <1>1, <1>3, <2>1, <2>2
  <2>4. Len(words) + 3 - (Len(words) + 2) = 1
    BY <1>1
  <2> QED BY <1>1, <1>3, <2>1, <2>2, <2>3, <2>4 DEF w
<1>6. Write(words, c) = (words \o head) \o lits
  BY DEF Write, head, lits
<1> QED BY <1>1, <1>4, <1>5, <1>6

(* A clause more in the buffer is a clause more decoded.                   *)
LEMMA WriteDecodes ==
  ASSUME NEW words \in Seq(Word), NEW P \in SUBSET (0..Len(words)), Places(words, P),
         NEW c \in Clauses
  PROVE  /\ \E Q \in SUBSET (0..Len(Write(words, c))) : Places(Write(words, c), Q)
         /\ Decode(Write(words, c)) = Decode(words) \union {c}
<1> DEFINE L == Len(words)
           w == Write(words, c)
           M == Len(w)
           Q == P \union {M}
<1>1. Size[c] \in Nat /\ Size[c] # 0 /\ L \in Nat
  BY SharingAssumption
<1>2. /\ w \in Seq(Word) /\ M = L + 2 + Size[c]
      /\ \A i \in 1..L : w[i] = words[i]
      /\ w[L + 1] = Size[c] /\ w[L + 3] = c
  BY WriteFacts
<1>3. P \subseteq 0..L /\ 0 \in P /\ L \in P
  BY DEF Places
<1> HIDE DEF w, M
<1>4. ASSUME NEW i \in P \ {L}
      PROVE  /\ w[i + 3] = words[i + 3]
             /\ \E d \in Clauses : /\ w[i + 1] = Size[d] /\ i + 2 + Size[d] \in Q
                                    /\ \A j \in Q : j <= i \/ j >= i + 2 + Size[d]
  <2>1. PICK d \in Clauses :
          /\ words[i + 1] = Size[d] /\ i + 2 + Size[d] \in P
          /\ \A j \in P : j <= i \/ j >= i + 2 + Size[d]
    BY DEF Places
  <2>2. Size[d] \in Nat /\ Size[d] # 0 /\ i \in Nat
    BY <1>3, SharingAssumption
  <2>3. i + 2 + Size[d] <= L
    BY <1>1, <1>3, <2>1, <2>2
  <2>4. i + 1 \in 1..L /\ i + 3 \in 1..L
    BY <1>1, <2>2, <2>3
  <2>5. \A j \in Q : j <= i \/ j >= i + 2 + Size[d]
    BY <1>1, <1>2, <2>1, <2>2, <2>3
  <2> QED BY <1>2, <2>1, <2>4, <2>5
<1>5. Q \in SUBSET (0..M)
  <2>1. M \in Nat /\ L <= M
    BY <1>1, <1>2
  <2>2. \A i \in P : i \in 0..M
    BY <1>1, <1>3, <2>1
  <2> QED BY <2>1, <2>2
<1>6. Places(w, Q)
  <2>1. Q \subseteq 0..M /\ {0, M} \subseteq Q
    BY <1>3, <1>5
  <2>2. ASSUME NEW i \in Q \ {M}
        PROVE  \E d \in Clauses : /\ w[i + 1] = Size[d] /\ i + 2 + Size[d] \in Q
                                   /\ \A j \in Q : j <= i \/ j >= i + 2 + Size[d]
    <3>1. CASE i = L
      <4>1. \A j \in Q : j <= L \/ j >= L + 2 + Size[c]
        BY <1>1, <1>2, <1>3
      <4> QED BY <1>2, <3>1, <4>1
    <3>2. CASE i # L
      BY <1>4, <3>2
    <3> QED BY <3>1, <3>2
  <2> HIDE DEF Q
  <2> QED BY <2>1, <2>2 DEF Places, M
<1>7. Decode(w) = {w[i + 3] : i \in Q \ {M}}
  BY <1>2, <1>6, PlacesDecode DEF M
<1>8. Decode(words) = {words[i + 3] : i \in P \ {L}}
  BY PlacesDecode
<1>9. Q \ {M} = (P \ {L}) \union {L}
  BY <1>1, <1>2, <1>3
<1>10. Decode(w) = Decode(words) \union {c}
  BY <1>2, <1>4, <1>7, <1>8, <1>9
<1> QED BY <1>6, <1>10, <1>5 DEF w, M

(* A buffer with its padding.                                              *)
LEMMA PaddedFacts ==
  ASSUME NEW words \in Seq(Word), Len(words) <= TotalSize
  PROVE  /\ \A i \in 1..Len(words) : Padded(words)[i] = words[i]
         /\ \A i \in Len(words) + 1..TotalSize : Padded(words)[i] = 0
<1> DEFINE zeros == [n \in 1..TotalSize - Len(words) |-> 0]
<1>1. Len(words) \in Nat /\ TotalSize \in Nat
  BY SharingAssumption
<1>2. zeros \in Seq(Word) /\ Len(zeros) = TotalSize - Len(words)
      /\ \A n \in 1..TotalSize - Len(words) : zeros[n] = 0
  BY <1>1 DEF Word
<1> HIDE DEF zeros
<1>3. \A i \in 1..TotalSize :
        (words \o zeros)[i] = IF i <= Len(words) THEN words[i] ELSE zeros[i - Len(words)]
  BY <1>1, <1>2, ConcatProperties
<1>4. Padded(words) = words \o zeros
  BY DEF Padded, zeros
<1> QED BY <1>1, <1>2, <1>3, <1>4

(* The ranks in yes_comm are those of the members, in their order.         *)
LEMMA MemberFacts ==
  ASSUME members \in SUBSET Ranks
  PROVE  /\ Cardinality(members) \in Nat
         /\ \A k \in 0..Cardinality(members) - 1 : Member(k) \in members
         /\ \A r \in members : \E k \in 0..Cardinality(members) - 1 : Member(k) = r
<1> DEFINE before(r) == {q \in members : q < r}
           m == Cardinality(members)
           place == [r \in members |-> Cardinality(before(r))]
<1>1. IsFiniteSet(members) /\ m \in Nat /\ \A r \in members : r \in Int
  <2>1. WorldSize - 1 \in Int
    BY SharingAssumption
  <2>2. IsFiniteSet(Ranks)
    BY <2>1, FS_Interval DEF Ranks
  <2>3. IsFiniteSet(members)
    BY <2>2, FS_Subset
  <2>4. m \in Nat
    BY <2>3, FS_CardinalityType
  <2>5. \A r \in members : r \in Int
    BY <2>1 DEF Ranks
  <2> QED BY <2>3, <2>4, <2>5
<1>2. ASSUME NEW r \in members
      PROVE  IsFiniteSet(before(r)) /\ place[r] \in 0..m - 1
  <2>1. before(r) \in SUBSET members /\ r \notin before(r)
    BY <1>1
  <2> HIDE DEF before
  <2>2. IsFiniteSet(before(r)) /\ Cardinality(before(r)) <= m /\ Cardinality(before(r)) # m
    BY <1>1, <2>1, FS_Subset
  <2>3. Cardinality(before(r)) \in Nat
    BY <2>2, FS_CardinalityType
  <2> QED BY <1>1, <2>2, <2>3
<1>3. ASSUME NEW q \in members, NEW r \in members, q < r PROVE place[q] # place[r]
  <2>1. before(q) \in SUBSET before(r) /\ q \in before(r) /\ q \notin before(q)
    BY <1>1, <1>3
  <2> HIDE DEF before
  <2>2. Cardinality(before(q)) # Cardinality(before(r))
    BY <1>2, <2>1, FS_Subset
  <2> QED BY <2>2
<1>4. \A q, r \in members : place[q] = place[r] => q = r
  <2> HIDE DEF place
  <2> QED BY <1>1, <1>3
<1>5. \A k \in 0..m - 1 : \E r \in members : place[r] = k
  <2>1. place \in [members -> 0..m - 1]
    BY <1>2
  <2> HIDE DEF place
  <2>2. place \in Injection(members, 0..m - 1)
    BY <1>4, <2>1 DEF Injection, IsInjective
  <2>3. IsFiniteSet(0..m - 1) /\ Cardinality(0..m - 1) = m
    <3>1. 0 \in Int /\ m - 1 \in Int
      BY <1>1
    <3>2. /\ IsFiniteSet(0..m - 1)
          /\ Cardinality(0..m - 1) = IF 0 > m - 1 THEN 0 ELSE m - 1 - 0 + 1
      BY <3>1, FS_Interval
    <3> QED BY <1>1, <3>2
  <2>4. place \in Surjection(members, 0..m - 1)
    BY <2>2, <2>3, FS_Injection
  <2> QED BY <2>4 DEF Surjection
<1>6. \A k : Member(k) = CHOOSE r \in members : place[r] = k
  BY DEF Member
<1> HIDE DEF place, m
<1>7. \A k \in 0..m - 1 : Member(k) \in members
  BY <1>5, <1>6
<1>8. ASSUME NEW r \in members PROVE Member(place[r]) = r
  <2>1. Member(place[r]) \in members /\ place[Member(place[r])] = place[r]
    BY <1>6
  <2> QED BY <1>4, <2>1
<1> QED BY <1>1, <1>2, <1>7, <1>8 DEF m

(* The buffers one after the other.                                        *)
LEMMA Product ==
  ASSUME NEW a \in Nat, NEW b \in Nat, NEW c \in Nat
  PROVE  /\ a * c \in Nat /\ (a + 1) * c = a * c + c
         /\ a <= b => a * c <= b * c
<1>1. a * c \in Nat /\ (a + 1) * c = a * c + c
  OBVIOUS
<1>2. ASSUME a <= b PROVE a * c <= b * c
  <2>1. b - a \in Nat
    BY <1>2
  <2>2. (b - a) * c \in Nat
    BY <2>1
  <2>3. b * c = a * c + (b - a) * c
    BY <2>1
  <2> QED BY <1>1, <2>2, <2>3
<1> QED BY <1>1, <1>2

LEMMA Quotient ==
  ASSUME NEW k \in Nat, NEW c \in Nat, NEW i \in 0..c - 1
  PROVE  (k * c + i) \div c = k /\ (k * c + i) % c = i
OBVIOUS

BuffersFull ==
  \A r \in members : /\ buffer[r] \in Seq(Word) /\ Len(buffer[r]) <= TotalSize
                     /\ \E P \in SUBSET (0..Len(buffer[r])) : Places(buffer[r], P)

LEMMA GatheredFacts ==
  ASSUME members \in SUBSET Ranks, BuffersFull
  PROVE  /\ Len(Gathered) = Cardinality(members) * TotalSize
         /\ Len(Gathered) \in Nat
         /\ \A k \in 0..Cardinality(members) - 1 : \A i \in 0..TotalSize - 1 :
              Gathered[k * TotalSize + i + 1] =
                IF i < Len(buffer[Member(k)]) THEN buffer[Member(k)][i + 1] ELSE 0
<1> DEFINE m == Cardinality(members)
           T == TotalSize
<1>1. m \in Nat /\ T \in Nat /\ m * T \in Nat
  BY MemberFacts, SharingAssumption, Product
<1>2. Len(Gathered) = m * T
  BY <1>1 DEF Gathered
<1>3. ASSUME NEW k \in 0..m - 1, NEW i \in 0..T - 1
      PROVE  Gathered[k * T + i + 1] =
               IF i < Len(buffer[Member(k)]) THEN buffer[Member(k)][i + 1] ELSE 0
  <2>1. k \in Nat /\ i \in Nat /\ k + 1 <= m /\ i < T
    BY <1>1
  <2>2. k * T \in Nat /\ k * T + T <= m * T
    <3>1. k + 1 \in Nat
      BY <2>1
    <3>2. (k + 1) * T = k * T + T /\ k * T \in Nat
      BY <1>1, <2>1, Product
    <3>3. (k + 1) * T <= m * T
      BY <1>1, <2>1, <3>1, Product
    <3> QED BY <3>2, <3>3
  <2>3. k * T + i + 1 \in 1..m * T /\ (k * T + i + 1) - 1 = k * T + i
    BY <1>1, <2>1, <2>2
  <2>4. (k * T + i) \div T = k /\ (k * T + i) % T = i
    BY <1>1, <2>1, Quotient
  <2> DEFINE w == buffer[Member(k)]
             n == k * T + i + 1
  <2>5. Gathered[n] = Padded(buffer[Member((n - 1) \div T)])[((n - 1) % T) + 1]
    BY <2>3 DEF Gathered
  <2>6. (n - 1) \div T = k /\ (n - 1) % T = i
    BY <2>3, <2>4
  <2> HIDE DEF n
  <2>7. Gathered[n] = Padded(w)[i + 1]
    BY <2>5, <2>6
  <2>8. w \in Seq(Word) /\ Len(w) <= T
    BY MemberFacts DEF BuffersFull
  <2> HIDE DEF w
  <2>9. Padded(w)[i + 1] = IF i < Len(w) THEN w[i + 1] ELSE 0
    <3>1. Len(w) \in Nat
      BY <2>8
    <3>2. CASE i < Len(w)
      <4>1. i + 1 \in 1..Len(w)
        BY <2>1, <3>1, <3>2
      <4> QED BY <2>8, <3>2, <4>1, PaddedFacts
    <3>3. CASE ~ (i < Len(w))
      <4>1. i + 1 \in Len(w) + 1..T
        BY <1>1, <2>1, <3>1, <3>3
      <4> QED BY <2>8, <3>3, <4>1, PaddedFacts
    <3> QED BY <3>2, <3>3
  <2> QED BY <2>7, <2>9 DEF w, n
<1> QED BY <1>1, <1>2, <1>3

LEMMA GatheredDecodes ==
  ASSUME members \in SUBSET Ranks, BuffersFull
  PROVE  Decode(Gathered) = UNION {Decode(buffer[r]) : r \in members}
<1> DEFINE m == Cardinality(members)
           T == TotalSize
           K == 0..m - 1
           w == [k \in K |-> buffer[Member(k)]]
           G == Gathered
           S == [k \in K |-> CHOOSE P : Places(w[k], P)]
           base == [k \in 0..m |-> k * T]
           P == {p \in 0..m * T : p = m * T \/ \E k \in K : \E i \in S[k] : p = base[k] + i}
<1>1. m \in Nat /\ T \in Nat
  BY MemberFacts, SharingAssumption
<1>2. /\ \A k \in 0..m : base[k] \in Nat
      /\ \A k \in K : base[k + 1] = base[k] + T
      /\ \A j, k \in 0..m : j <= k => base[j] <= base[k]
      /\ base[m] = m * T /\ (T = 0 => base[m] = 0)
  <2>1. ASSUME NEW k \in 0..m PROVE base[k] = k * T /\ base[k] \in Nat
    BY <1>1, Product
  <2>2. ASSUME NEW k \in K PROVE base[k + 1] = base[k] + T
    <3>1. k \in 0..m /\ k + 1 \in 0..m /\ k \in Nat
      BY <1>1
    <3>2. (k + 1) * T = k * T + T
      BY <1>1, <3>1, Product
    <3> QED BY <3>1, <3>2
  <2>3. ASSUME NEW j \in 0..m, NEW k \in 0..m, j <= k PROVE base[j] <= base[k]
    BY <1>1, <2>3, Product
  <2> QED BY <1>1, <2>1, <2>2, <2>3
<1>3. Len(G) = base[m] /\ Len(G) \in Nat
  BY <1>2, GatheredFacts
<1>4. ASSUME NEW k \in K
      PROVE  /\ w[k] \in Seq(Word) /\ Len(w[k]) <= T /\ Len(w[k]) \in Nat
             /\ Places(w[k], S[k]) /\ S[k] \in SUBSET (0..Len(w[k]))
             /\ 0 \in S[k] /\ Len(w[k]) \in S[k]
             /\ \A i \in S[k] : i \in Nat /\ i <= T
             /\ \A i \in 0..T - 1 : G[base[k] + i + 1] = IF i < Len(w[k]) THEN w[k][i + 1] ELSE 0
  <2>1. Member(k) \in members
    BY MemberFacts
  <2>2. /\ w[k] \in Seq(Word) /\ Len(w[k]) <= T
        /\ \E Q \in SUBSET (0..Len(w[k])) : Places(w[k], Q)
    BY <2>1 DEF BuffersFull
  <2>3. S[k] = CHOOSE Q : Places(w[k], Q)
    OBVIOUS
  <2> HIDE DEF w, S
  <2>4. Places(w[k], S[k]) /\ Len(w[k]) \in Nat
    BY <2>2, <2>3
  <2>5. S[k] \in SUBSET (0..Len(w[k])) /\ 0 \in S[k] /\ Len(w[k]) \in S[k]
    BY <2>4 DEF Places
  <2>6. \A i \in S[k] : i \in Nat /\ i <= T
    BY <1>1, <2>2, <2>4, <2>5
  <2>7. base[k] = k * T
    BY <1>1
  <2>8. \A i \in 0..T - 1 : G[base[k] + i + 1] = IF i < Len(w[k]) THEN w[k][i + 1] ELSE 0
    BY <2>7, GatheredFacts DEF w
  <2> QED BY <2>2, <2>4, <2>5, <2>6, <2>8
<1>5. P = {p \in 0..base[m] : p = base[m] \/ \E k \in K : \E i \in S[k] : p = base[k] + i}
  BY <1>2
<1> HIDE DEF m, w, G, S, base, P
(* A place before the end is in one buffer, before the end of it.          *)
<1>6. ASSUME NEW p \in P, p < base[m]
      PROVE  \E k \in K : \E i \in S[k] : p = base[k] + i /\ i < T
  <2>1. PICK k \in K : \E i \in S[k] : p = base[k] + i
    BY <1>2, <1>5, <1>6
  <2>2. PICK i \in S[k] : p = base[k] + i
    BY <2>1
  <2>3. i \in Nat /\ i <= T /\ base[k] \in Nat /\ base[k + 1] = base[k] + T
    BY <1>1, <1>2, <1>4
  <2>4. CASE i < T
    BY <2>2, <2>4
  <2>5. CASE i = T
    <3>1. p = base[k + 1] /\ k + 1 \in 0..m
      BY <1>1, <2>2, <2>3, <2>5
    <3>2. k + 1 # m
      BY <1>2, <1>6, <3>1
    <3>3. k + 1 \in K /\ base[k + 1] \in Nat
      BY <1>1, <1>2, <3>1, <3>2
    <3>4. 0 \in S[k + 1] /\ p = base[k + 1] + 0
      BY <1>4, <3>1, <3>3
    <3>5. base[k] + T <= base[m]
      BY <1>1, <1>2, <2>3, <3>1
    <3>6. 0 < T
      BY <1>1, <1>2, <1>5, <1>6
    <3> QED BY <3>3, <3>4, <3>6
  <2> QED BY <1>1, <2>3, <2>4, <2>5
(* The places between the begin of a buffer and that of the next.          *)
<1>7. ASSUME NEW k \in K, NEW j \in P
      PROVE  j <= base[k] \/ j >= base[k] + T \/ \E i \in S[k] : j = base[k] + i
  <2>1. k \in 0..m /\ k + 1 \in 0..m /\ m \in 0..m /\ k + 1 <= m
    BY <1>1
  <2>2. base[k] \in Nat /\ base[k] + T = base[k + 1] /\ base[k + 1] <= base[m]
    BY <1>2, <2>1
  <2>3. CASE j = base[m]
    BY <2>2, <2>3
  <2>4. ASSUME NEW n \in K, NEW i \in S[n], j = base[n] + i
        PROVE  j <= base[k] \/ j >= base[k] + T \/ \E h \in S[k] : j = base[k] + h
    <3>1. n \in 0..m /\ n + 1 \in 0..m /\ base[n] \in Nat /\ base[n + 1] = base[n] + T
      BY <1>1, <1>2
    <3>2. i \in Nat /\ i <= T
      BY <1>4
    <3>3. CASE n = k
      BY <2>4, <3>3
    <3>4. CASE n < k
      <4>1. base[n + 1] <= base[k]
        BY <1>1, <1>2, <2>1, <3>1, <3>4
      <4> QED BY <1>1, <2>2, <2>4, <3>1, <3>2, <4>1
    <3>5. CASE n > k
      <4>1. base[k + 1] <= base[n]
        BY <1>1, <1>2, <2>1, <3>1, <3>5
      <4> QED BY <1>1, <2>2, <2>4, <3>1, <3>2, <4>1
    <3> QED BY <1>1, <3>3, <3>4, <3>5
  <2>5. j = base[m] \/ \E n \in K : \E i \in S[n] : j = base[n] + i
    BY <1>5
  <2> QED BY <2>3, <2>4, <2>5
<1>8. ASSUME NEW p \in P, p < base[m]
      PROVE  /\ After(G)[p] \in P /\ After(G)[p] > p
             /\ \A j \in P : j <= p \/ j >= After(G)[p]
  <2>1. PICK k \in K : \E i \in S[k] : p = base[k] + i /\ i < T
    BY <1>6, <1>8
  <2>2. PICK i \in S[k] : p = base[k] + i /\ i < T
    BY <2>1
  <2>3. /\ i \in Nat /\ k \in Nat /\ base[k] \in Nat /\ base[k] = k * T
        /\ k + 1 \in 0..m /\ base[k + 1] = base[k] + T /\ base[k + 1] <= base[m]
    <3>1. k \in 0..m /\ k + 1 \in 0..m /\ m \in 0..m /\ k + 1 <= m /\ k \in Nat
      BY <1>1
    <3>2. base[k] = k * T
      BY <3>1 DEF base
    <3> QED BY <1>2, <1>4, <3>1, <3>2
  <2>4. G[p + 1] = IF i < Len(w[k]) THEN w[k][i + 1] ELSE 0
    <3>1. i \in 0..T - 1 /\ p + 1 = base[k] + i + 1
      BY <1>1, <2>2, <2>3
    <3> QED BY <1>4, <3>1
  <2>5. p \in 0..Len(G) /\ p # Len(G)
    BY <1>2, <1>3, <1>5, <1>8
  <2>6. After(G)[p] = IF G[p + 1] = 0 THEN NextBuffer(p) ELSE p + 2 + G[p + 1]
    BY <2>5 DEF After
  <2>7. CASE i < Len(w[k])
    <3>1. PICK c \in Clauses :
            /\ w[k][i + 1] = Size[c] /\ i + 2 + Size[c] \in S[k]
            /\ \A j \in S[k] : j <= i \/ j >= i + 2 + Size[c]
      <4>1. Places(w[k], S[k]) /\ i \in S[k] \ {Len(w[k])}
        BY <1>4, <2>3, <2>7
      <4> QED BY <4>1 DEF Places
    <3>2. Size[c] \in Nat /\ Size[c] # 0
      BY SharingAssumption
    <3>3. After(G)[p] = base[k] + (i + 2 + Size[c])
      <4>1. G[p + 1] = Size[c]
        BY <2>4, <2>7, <3>1
      <4> QED BY <2>2, <2>3, <2>6, <3>2, <4>1
    <3>4. i + 2 + Size[c] <= T
      BY <1>4, <3>1
    <3>5. After(G)[p] \in P
      <4>1. After(G)[p] \in 0..base[m]
        <5>1. base[m] \in Nat /\ T \in Nat
          BY <1>1, <1>3
        <5> QED BY <2>3, <3>2, <3>3, <3>4, <5>1
      <4> QED BY <1>5, <3>1, <3>3, <4>1
    <3>6. ASSUME NEW j \in P PROVE j <= p \/ j >= After(G)[p]
      <4>1. CASE j <= base[k] \/ j >= base[k] + T
        <5>1. j \in Int
          BY <1>2, <1>5
        <5> QED BY <1>1, <2>2, <2>3, <3>2, <3>3, <3>4, <4>1, <5>1
      <4>2. ASSUME NEW n \in S[k], j = base[k] + n PROVE j <= p \/ j >= After(G)[p]
        <5>1. n \in Nat /\ (n <= i \/ n >= i + 2 + Size[c])
          BY <1>4, <3>1
        <5> QED BY <2>2, <2>3, <3>2, <3>3, <4>2, <5>1
      <4> QED BY <1>7, <4>1, <4>2
    <3> QED BY <2>2, <2>3, <3>2, <3>3, <3>5, <3>6
  <2>8. CASE ~ (i < Len(w[k]))
    <3>1. p \div T = k
      <4>1. i \in 0..T - 1 /\ p = k * T + i
        BY <1>1, <2>2, <2>3
      <4> QED BY <1>1, <2>3, <4>1, Quotient
    <3>2. NextBuffer(p) = (k + 1) * T
      BY <3>1 DEF NextBuffer, T
    <3>3. After(G)[p] = base[k + 1]
      BY <2>3, <2>4, <2>6, <2>8, <3>2 DEF base
    <3>4. After(G)[p] \in P
      <4>1. CASE k + 1 = m
        BY <1>3, <1>5, <3>3, <4>1
      <4>2. CASE k + 1 # m
        <5>1. k + 1 \in K
          BY <1>1, <2>3, <4>2
        <5>2. 0 \in S[k + 1] /\ base[k + 1] = base[k + 1] + 0 /\ base[k + 1] \in 0..base[m]
          BY <1>1, <1>2, <1>4, <2>3, <5>1
        <5> QED BY <1>5, <3>3, <5>1, <5>2
      <4> QED BY <4>1, <4>2
    <3>5. ASSUME NEW j \in P PROVE j <= p \/ j >= After(G)[p]
      <4>1. CASE j <= base[k] \/ j >= base[k] + T
        <5>1. j \in Int
          BY <1>2, <1>5
        <5> QED BY <1>1, <2>2, <2>3, <3>3, <4>1, <5>1
      <4>2. ASSUME NEW n \in S[k], j = base[k] + n PROVE j <= p \/ j >= After(G)[p]
        <5>1. n \in Nat /\ n <= i
          BY <1>4, <2>3, <2>8
        <5> QED BY <2>2, <2>3, <4>2, <5>1
      <4> QED BY <1>7, <4>1, <4>2
    <3> QED BY <1>1, <2>2, <2>3, <3>3, <3>4, <3>5
  <2> QED BY <2>7, <2>8
<1>9. Leads(G, P)
  <2>1. P \subseteq 0..Len(G) /\ Len(G) \in P
    BY <1>2, <1>3, <1>5
  <2>2. 0 \in P
    <3>1. CASE m = 0
      BY <1>1, <1>2, <1>3, <1>5, <2>1, <3>1
    <3>2. CASE m # 0
      <4>1. 0 \in K /\ 0 \in S[0] /\ base[0] = 0
        BY <1>1, <1>4, <3>2 DEF K, base
      <4> QED BY <1>3, <1>5, <4>1
    <3> QED BY <3>1, <3>2
  <2> QED BY <1>3, <1>8, <2>1, <2>2 DEF Leads
<1>10. Decode(G) = {G[p + 3] : p \in {j \in P : j < base[m] /\ G[j + 1] # 0}}
  BY <1>3, <1>9, DecodeIs
(* Where there is a clause, its first literal is that of the buffer.       *)
<1>11. ASSUME NEW k \in K
       PROVE  /\ Decode(w[k]) = {w[k][i + 3] : i \in S[k] \ {Len(w[k])}}
              /\ \A i \in S[k] \ {Len(w[k])} :
                   /\ i < Len(w[k]) /\ w[k][i + 1] # 0 /\ i + 2 < Len(w[k])
                   /\ G[base[k] + i + 1] = w[k][i + 1] /\ G[base[k] + i + 3] = w[k][i + 3]
  <2>1. /\ \A i \in S[k] \ {Len(w[k])} : w[k][i + 1] # 0
        /\ Decode(w[k]) = {w[k][i + 3] : i \in S[k] \ {Len(w[k])}}
    BY <1>4, PlacesDecode
  <2>2. ASSUME NEW i \in S[k] \ {Len(w[k])}
        PROVE  /\ i < Len(w[k]) /\ i + 2 < Len(w[k])
               /\ G[base[k] + i + 1] = w[k][i + 1] /\ G[base[k] + i + 3] = w[k][i + 3]
    <3>1. PICK c \in Clauses : i + 2 + Size[c] \in S[k]
      BY <1>4 DEF Places
    <3>2. Size[c] \in Nat /\ Size[c] # 0 /\ i \in Nat /\ Len(w[k]) \in Nat /\ base[k] \in Nat
      <4>1. k \in 0..m
        BY <1>1
      <4> QED BY <1>2, <1>4, <4>1, SharingAssumption
    <3>3. i + 2 + Size[c] <= Len(w[k])
      BY <1>4, <3>1
    <3>4. i < Len(w[k]) /\ i + 2 < Len(w[k]) /\ i \in 0..T - 1 /\ i + 2 \in 0..T - 1
      <4>1. Len(w[k]) <= T
        BY <1>4
      <4> QED BY <1>1, <3>2, <3>3, <4>1
    <3>5. G[base[k] + i + 1] = w[k][i + 1]
      BY <1>4, <3>4
    <3>6. G[base[k] + (i + 2) + 1] = w[k][(i + 2) + 1]
      BY <1>4, <3>4
    <3>7. base[k] + (i + 2) + 1 = base[k] + i + 3 /\ (i + 2) + 1 = i + 3
      BY <3>2
    <3> QED BY <3>4, <3>5, <3>6, <3>7
  <2> QED BY <2>1, <2>2
<1>12. ASSUME NEW c \in Decode(G) PROVE \E k \in K : c \in Decode(w[k])
  <2>1. PICK p \in P : p < base[m] /\ G[p + 1] # 0 /\ c = G[p + 3]
    BY <1>10
  <2>2. PICK k \in K : \E i \in S[k] : p = base[k] + i /\ i < T
    BY <1>6, <2>1
  <2>3. PICK i \in S[k] : p = base[k] + i /\ i < T
    BY <2>2
  <2>4. i \in 0..T - 1 /\ p + 1 = base[k] + i + 1 /\ p + 3 = base[k] + i + 3
    <3>1. k \in 0..m
      BY <1>1
    <3> QED BY <1>1, <1>2, <1>4, <2>3, <3>1
  <2>5. i # Len(w[k])
    BY <1>4, <2>1, <2>4
  <2>6. G[base[k] + i + 3] = w[k][i + 3]
    BY <1>11, <2>5
  <2>7. c = w[k][i + 3] /\ i \in S[k] \ {Len(w[k])}
    BY <2>1, <2>4, <2>5, <2>6
  <2> QED BY <1>11, <2>7
<1>13. ASSUME NEW k \in K, NEW c \in Decode(w[k]) PROVE c \in Decode(G)
  <2>1. PICK i \in S[k] \ {Len(w[k])} : c = w[k][i + 3]
    BY <1>11
  <2> DEFINE p == base[k] + i
  <2>2. /\ i \in Nat /\ base[k] \in Nat /\ i < T
        /\ base[k] + T <= base[m]
    <3>1. k \in 0..m /\ k + 1 \in 0..m /\ m \in 0..m /\ k + 1 <= m
      BY <1>1
    <3>2. base[k] + T <= base[m]
      BY <1>2, <3>1
    <3>3. i \in Nat /\ i < Len(w[k]) /\ Len(w[k]) <= T /\ Len(w[k]) \in Nat
      BY <1>4, <1>11
    <3> QED BY <1>1, <1>2, <3>1, <3>2, <3>3
  <2>3. p < base[m] /\ p \in 0..base[m] /\ p + 1 = base[k] + i + 1 /\ p + 3 = base[k] + i + 3
    <3>1. base[m] \in Nat
      BY <1>3
    <3> QED BY <1>1, <2>2, <3>1
  <2>4. p \in P
    BY <1>5, <2>3
  <2>5. G[p + 1] # 0 /\ c = G[p + 3]
    BY <1>11, <2>1, <2>3
  <2> QED BY <1>10, <2>3, <2>4, <2>5
<1>14. ASSUME NEW c
       PROVE  (\E k \in K : c \in Decode(w[k])) <=> \E r \in members : c \in Decode(buffer[r])
  <2>1. \A k \in K : w[k] = buffer[Member(k)]
    BY DEF w
  <2>2. /\ \A k \in K : Member(k) \in members
        /\ \A r \in members : \E k \in K : Member(k) = r
    BY MemberFacts DEF K, m
  <2> QED BY <2>1, <2>2
<1>15. \A c : c \in Decode(G) <=> \E r \in members : c \in Decode(buffer[r])
  BY <1>12, <1>13, <1>14
<1> QED BY <1>15 DEF G
-----------------------------------------------------------------------------
(* The types the proofs need; what a rank receives is a value like another. *)
Typed ==
  /\ derived \in [Solvers -> SUBSET Clauses]
  /\ DOMAIN imported = Solvers
  /\ DOMAIN localDB = Ranks /\ DOMAIN selection = Ranks
  /\ DOMAIN globalDB = Ranks /\ DOMAIN accepted = Ranks /\ DOMAIN filter = Ranks
  /\ DOMAIN willing = Ranks /\ members \in SUBSET Ranks
  /\ buffer \in [Ranks -> Seq(Word)]
  /\ DOMAIN received = Ranks /\ DOMAIN pc = Ranks

(* The clauses, and the rounds.                                            *)
Origins == OriginsTrue /\ SendsOwnClauses /\ KeptOrShared /\ ImportsAreForeign
Round == BuffersTrue /\ ReceivedTrue /\ RoundShape /\ SharedAgree

(* Nothing has been learnt at first, and no round has begun.               *)
LEMMA SharingInit == Init => Typed /\ SharingInv
<1> SUFFICES ASSUME Init PROVE Typed /\ SharingInv
  OBVIOUS
<1> USE DEF Init
<1>1. Typed
  BY EmptyDecodes DEF Typed
<1>2. Origins
  BY DEF Origins, OriginsTrue, SendsOwnClauses, KeptOrShared, ImportsAreForeign
<1>3. BuffersTrue
  <2>1. TotalSize \in Nat
    BY SharingAssumption
  <2> SUFFICES ASSUME NEW r \in Ranks
               PROVE  /\ \E P \in SUBSET (0..Len(buffer[r])) : Places(buffer[r], P)
                      /\ Len(buffer[r]) <= TotalSize
                      /\ Decode(buffer[r]) \subseteq filter[r] \intersect accepted[r]
                      /\ globalDB[r] \subseteq accepted[r]
    BY DEF BuffersTrue
  <2>2. buffer[r] = << >> /\ globalDB[r] = {}
    OBVIOUS
  <2> QED BY <2>1, <2>2, EmptyDecodes
<1>4. ReceivedTrue
  BY EmptyDecodes DEF ReceivedTrue
<1>5. RoundShape /\ SharedAgree
  BY DEF RoundShape, SharedAgree, Shared
<1> QED BY <1>1, <1>2, <1>3, <1>4, <1>5 DEF SharingInv, Origins

(* What was learnt stays learnt.                                           *)
LEMMA LearntStays ==
  ASSUME \A s \in Solvers : derived[s] \subseteq derived'[s], NEW r, NEW c
  PROVE  /\ LearntOn(r, c) => LearntOn(r, c)'
         /\ LearntElsewhere(r, c) => LearntElsewhere(r, c)'
BY DEF LearntOn, LearntElsewhere

(* A step of a solver or of a database leaves the round as it is.          *)
LEMMA RoundKept ==
  ASSUME Round, UNCHANGED << filter, buffer, received, willing, members, pc >>,
         \A s \in Solvers : derived[s] \subseteq derived'[s],
         \A r \in Ranks : accepted[r] \subseteq accepted'[r] /\ globalDB'[r] \subseteq accepted'[r]
  PROVE  Round'
<1>1. BuffersTrue'
  BY DEF Round, BuffersTrue
<1>2. ReceivedTrue'
  BY LearntStays DEF Round, ReceivedTrue
<1>3. RoundShape' /\ SharedAgree'
  BY DEF Round, RoundShape, SharedAgree, Shared
<1> QED BY <1>1, <1>2, <1>3 DEF Round

(* A solver learns a clause.                                               *)
LEMMA LearnKeeps ==
  ASSUME Typed, Origins, Round, NEW s \in Solvers, Learn(s)
  PROVE  Typed' /\ Origins' /\ Round'
<1> USE DEF Origins
<1>1. PICK c \in Derivable[s] \ derived[s] :
        /\ derived' = [derived EXCEPT ![s] = @ \union {c}]
        /\ localDB' = [localDB EXCEPT ![RankOf[s]] = @ \union {<< c, s >>}]
        /\ UNCHANGED << imported, selection, global, comm >>
  BY DEF Learn
<1>2. RankOf[s] \in Ranks /\ c \in Clauses
  BY SharingAssumption
<1>3. Typed'
  <2>1. derived' \in [Solvers -> SUBSET Clauses]
    BY <1>1, <1>2 DEF Typed
  <2> QED BY <1>1, <2>1 DEF Typed, global, comm
<1>4. \A t \in Solvers : derived[t] \subseteq derived'[t]
  BY <1>1 DEF Typed
<1>5. OriginsTrue'
  <2> SUFFICES ASSUME NEW r \in Ranks, NEW x \in localDB'[r] \union selection'[r]
               PROVE  IF x[2] = Global THEN LearntElsewhere(r, x[1])'
                      ELSE x[2] \in Solvers /\ RankOf[x[2]] = r /\ x[1] \in derived'[x[2]]
    BY DEF OriginsTrue
  <2>1. CASE x \in localDB[r] \union selection[r]
    BY <1>4, <2>1, LearntStays DEF OriginsTrue
  <2>2. CASE x \notin localDB[r] \union selection[r]
    <3>1. r = RankOf[s] /\ x = << c, s >>
      BY <1>1, <1>2, <2>2 DEF Typed
    <3>2. c \in derived'[s]
      BY <1>1 DEF Typed
    <3> QED BY <3>1, <3>2, SharingAssumption
  <2> QED BY <2>1, <2>2
<1>6. SendsOwnClauses' /\ ImportsAreForeign'
  BY <1>1, <1>4 DEF SendsOwnClauses, ImportsAreForeign, global
<1>7. KeptOrShared'
  BY <1>1 DEF KeptOrShared, global
<1>8. Round'
  <2>1. UNCHANGED << globalDB, accepted, filter, willing, members, buffer, received, pc >>
    BY <1>1 DEF global, comm
  <2>2. \A r \in Ranks : globalDB[r] \subseteq accepted[r]
    BY DEF Round, BuffersTrue
  <2> QED BY <1>4, <2>1, <2>2, RoundKept
<1> QED BY <1>3, <1>5, <1>6, <1>7, <1>8

(* The sets a selection is made of are clauses of the local database.      *)
LEMMA SelectionsAreLocal ==
  ASSUME NEW r, NEW sel \in Selections(r)
  PROVE  sel \subseteq localDB[r]
BY DEF Selections

(* The local sharer selects clauses.                                       *)
LEMMA SelectKeeps ==
  ASSUME Typed, Origins, Round, NEW r \in Ranks, Select(r)
  PROVE  Typed' /\ Origins' /\ Round'
<1> USE DEF Origins
<1>1. PICK sel \in Selections(r) : \E lost \in Dropped(r, sel) :
        /\ selection' = [selection EXCEPT ![r] = sel]
        /\ localDB' = [localDB EXCEPT ![r] = @ \ (sel \union lost)]
  BY DEF Select
<1>2. UNCHANGED << derived, imported, globalDB, accepted, filter,
                   willing, members, buffer, received, pc >>
  BY DEF Select, global, comm
<1>3. Typed'
  BY <1>1, <1>2 DEF Typed
<1>4. \A q \in Ranks : localDB'[q] \union selection'[q] \subseteq localDB[q] \union selection[q]
  BY <1>1, SelectionsAreLocal DEF Typed
<1>5. OriginsTrue'
  BY <1>2, <1>4 DEF OriginsTrue, LearntElsewhere, LearntOn
<1>6. SendsOwnClauses' /\ KeptOrShared' /\ ImportsAreForeign'
  BY <1>2 DEF SendsOwnClauses, KeptOrShared, ImportsAreForeign
<1>7. Round'
  <2>1. \A q \in Ranks : globalDB[q] \subseteq accepted[q]
    BY DEF Round, BuffersTrue
  <2> QED BY <1>2, <2>1, RoundKept
<1> QED BY <1>3, <1>5, <1>6, <1>7

(* It exports them: a clause goes to no solver that learnt it, for its     *)
(* origin is that solver, or a solver of another rank.                     *)
LEMMA ExportKeeps ==
  ASSUME Typed, Origins, Round, NEW r \in Ranks, Export(r)
  PROVE  Typed' /\ Origins' /\ Round'
<1> USE DEF Origins
<1> DEFINE given == {x[1] : x \in {y \in selection[r] : MayExport(y[2], Global)}}
           to(s) == {x[1] : x \in {y \in selection[r] : MayExport(y[2], s)}}
<1>1. /\ \E added \in SUBSET given :
           /\ globalDB' = [globalDB EXCEPT ![r] = @ \union added]
           /\ accepted' = [accepted EXCEPT ![r] = @ \union added]
      /\ selection' = [selection EXCEPT ![r] = {}]
      /\ imported' = [s \in Solvers |-> IF RankOf[s] # r THEN imported[s]
                                        ELSE imported[s] \union to(s)]
      /\ UNCHANGED << derived, localDB, filter, willing, members, buffer, received, pc >>
  BY DEF Export, comm
<1>2. \A c \in given : \E s \in Solvers : RankOf[s] = r /\ c \in derived[s]
  BY DEF OriginsTrue, MayExport
<1>3. ASSUME NEW s \in Solvers, RankOf[s] = r, NEW c \in to(s)
      PROVE  \E t \in Solvers \ {s} : c \in derived[t]
  <2>1. PICK x \in selection[r] : x[2] # s /\ c = x[1]
    BY DEF MayExport
  <2>2. CASE x[2] = Global
    <3>1. PICK q \in Ranks \ {r} : LearntOn(q, c)
      BY <2>1, <2>2 DEF OriginsTrue, LearntElsewhere
    <3> QED BY <1>3, <3>1 DEF LearntOn
  <2>3. CASE x[2] # Global
    BY <2>1, <2>3 DEF OriginsTrue
  <2> QED BY <2>2, <2>3
<1> HIDE DEF to
<1>4. PICK added \in SUBSET given :
      /\ globalDB' = [globalDB EXCEPT ![r] = @ \union added]
      /\ accepted' = [accepted EXCEPT ![r] = @ \union added]
  BY <1>1
<1> HIDE DEF given
<1>5. Typed'
  BY <1>1, <1>4 DEF Typed
<1>6. OriginsTrue'
  BY <1>1 DEF OriginsTrue, Typed, LearntElsewhere, LearntOn
<1>7. SendsOwnClauses'
  BY <1>1, <1>2, <1>4 DEF SendsOwnClauses, Typed
<1>8. KeptOrShared'
  BY <1>1, <1>4 DEF KeptOrShared, Typed
<1>9. ImportsAreForeign'
  <2> SUFFICES ASSUME NEW s \in Solvers, NEW c \in imported'[s]
               PROVE  \E t \in Solvers \ {s} : c \in derived'[t]
    BY DEF ImportsAreForeign
  <2>1. CASE c \in imported[s]
    BY <1>1, <2>1 DEF ImportsAreForeign
  <2>2. CASE c \notin imported[s]
    BY <1>1, <1>3, <2>2
  <2> QED BY <2>1, <2>2
<1>10. Round'
  <2>1. ASSUME NEW q \in Ranks
        PROVE  accepted[q] \subseteq accepted'[q] /\ globalDB'[q] \subseteq accepted'[q]
    <3>1. globalDB[q] \subseteq accepted[q]
      BY DEF Round, BuffersTrue
    <3> QED BY <1>4, <3>1 DEF Typed
  <2> QED BY <1>1, <2>1, RoundKept
<1> QED BY <1>5, <1>6, <1>7, <1>8, <1>9, <1>10

(* Every step of the global sharer but the last leaves what was learnt,    *)
(* selected and imported; a clause leaves the database only when the       *)
(* filter has it.                                                          *)
LEMMA OriginsKept ==
  ASSUME Typed, Origins, UNCHANGED << derived, imported, localDB, selection, accepted >>,
         \A r \in Ranks : globalDB[r] \union filter[r] \subseteq globalDB'[r] \union filter'[r]
  PROVE  Origins'
<1>1. OriginsTrue' /\ SendsOwnClauses' /\ ImportsAreForeign'
  BY DEF Origins, OriginsTrue, SendsOwnClauses, ImportsAreForeign, LearntElsewhere, LearntOn
<1>2. KeptOrShared'
  BY DEF Origins, KeptOrShared
<1> QED BY <1>1, <1>2 DEF Origins

(* A new clause is written: it is shared by none until the words are.      *)
LEMMA SerializeNewKeeps ==
  ASSUME Typed, Origins, Round, NEW r \in Ranks, SerializeNew(r)
  PROVE  Typed' /\ Origins' /\ Round'
<1>1. PICK c \in Best(r) \ filter[r] :
        /\ Len(buffer[r]) + 2 + Size[c] <= TotalSize
        /\ globalDB' = [globalDB EXCEPT ![r] = @ \ {c}]
        /\ buffer' = [buffer EXCEPT ![r] = Write(@, c)]
        /\ filter' = [filter EXCEPT ![r] = @ \union {c}]
  BY DEF SerializeNew
<1>2. /\ UNCHANGED << derived, imported, localDB, selection, accepted,
                      willing, members, received, pc >>
      /\ pc[r] = "serialize"
  BY DEF SerializeNew, local, MayTake
<1>3. c \in globalDB[r] /\ c \in accepted[r] /\ c \in Clauses /\ c \notin filter[r]
  <2>1. c \in globalDB[r] /\ c \notin filter[r]
    BY <1>1 DEF Best
  <2>2. c \in accepted[r]
    BY <2>1 DEF Round, BuffersTrue
  <2>3. PICK s \in Solvers : c \in derived[s]
    BY <2>2 DEF Origins, SendsOwnClauses
  <2> QED BY <2>1, <2>2, <2>3 DEF Typed
<1> DEFINE w == buffer[r]
<1>4. /\ w \in Seq(Word) /\ Len(w) <= TotalSize
      /\ \E P \in SUBSET (0..Len(w)) : Places(w, P)
      /\ Decode(w) \subseteq filter[r] \intersect accepted[r]
      /\ globalDB[r] \subseteq accepted[r]
  BY DEF Typed, Round, BuffersTrue
<1>5. /\ buffer'[r] = Write(w, c) /\ \A q \in Ranks \ {r} : buffer'[q] = buffer[q]
      /\ filter'[r] = filter[r] \union {c} /\ \A q \in Ranks \ {r} : filter'[q] = filter[q]
      /\ globalDB'[r] = globalDB[r] \ {c} /\ \A q \in Ranks \ {r} : globalDB'[q] = globalDB[q]
  BY <1>1 DEF Typed
<1> HIDE DEF w
<1>6. /\ Write(w, c) \in Seq(Word) /\ Len(Write(w, c)) <= TotalSize
      /\ \E P \in SUBSET (0..Len(Write(w, c))) : Places(Write(w, c), P)
      /\ Decode(Write(w, c)) = Decode(w) \union {c}
  <2>1. Write(w, c) \in Seq(Word) /\ Len(Write(w, c)) = Len(w) + 2 + Size[c]
    BY <1>3, <1>4, WriteFacts
  <2>2. Len(Write(w, c)) <= TotalSize
    BY <1>1, <2>1 DEF w
  <2> QED BY <1>3, <1>4, <2>1, <2>2, WriteDecodes
<1>7. Typed'
  BY <1>1, <1>2, <1>5, <1>6 DEF Typed
<1>8. Origins'
  <2>1. \A q \in Ranks : globalDB[q] \union filter[q] \subseteq globalDB'[q] \union filter'[q]
    BY <1>5
  <2> QED BY <1>2, <2>1, OriginsKept
<1>9. BuffersTrue'
  <2> SUFFICES ASSUME NEW q \in Ranks
               PROVE  /\ \E P \in SUBSET (0..Len(buffer'[q])) : Places(buffer'[q], P)
                      /\ Len(buffer'[q]) <= TotalSize
                      /\ Decode(buffer'[q]) \subseteq filter'[q] \intersect accepted'[q]
                      /\ globalDB'[q] \subseteq accepted'[q]
    BY DEF BuffersTrue
  <2>1. CASE q = r
    BY <1>2, <1>3, <1>4, <1>5, <1>6, <2>1
  <2>2. CASE q # r
    BY <1>2, <1>5, <2>2 DEF Round, BuffersTrue
  <2> QED BY <2>1, <2>2
<1>10. ReceivedTrue'
  BY <1>2, <1>5 DEF Round, ReceivedTrue, LearntElsewhere, LearntOn
<1>11. RoundShape'
  BY <1>2, <1>5 DEF Round, RoundShape
<1>12. SharedAgree'
  <2>1. Shared(r)' = Shared(r)
    BY <1>2, <1>3, <1>5, <1>6 DEF Shared, w
  <2>2. \A q \in Ranks \ {r} : Shared(q)' = Shared(q)
    BY <1>2, <1>5 DEF Shared
  <2> QED BY <1>2, <2>1, <2>2 DEF Round, SharedAgree
<1> QED BY <1>7, <1>8, <1>9, <1>10, <1>11, <1>12 DEF Round

(* A known clause is released.                                             *)
LEMMA SerializeKnownKeeps ==
  ASSUME Typed, Origins, Round, NEW r \in Ranks, SerializeKnown(r)
  PROVE  Typed' /\ Origins' /\ Round'
<1>1. PICK c \in Best(r) \intersect filter[r] :
        globalDB' = [globalDB EXCEPT ![r] = @ \ {c}]
  BY DEF SerializeKnown
<1>2. UNCHANGED << derived, imported, localDB, selection, accepted, filter,
                   willing, members, buffer, received, pc >>
  BY DEF SerializeKnown, local, comm
<1>3. \A q \in Ranks : /\ globalDB[q] \union filter[q] \subseteq globalDB'[q] \union filter'[q]
                        /\ globalDB'[q] \subseteq globalDB[q]
  BY <1>1, <1>2 DEF Typed
<1>4. Typed'
  BY <1>1, <1>2 DEF Typed
<1>5. Origins'
  BY <1>2, <1>3, OriginsKept
<1>6. Round'
  <2>1. \A q \in Ranks : globalDB'[q] \subseteq accepted[q]
    BY <1>3 DEF Round, BuffersTrue
  <2> QED BY <1>2, <2>1, RoundKept
<1> QED BY <1>4, <1>5, <1>6

(* The buffer is closed.                                                   *)
LEMMA CloseKeeps ==
  ASSUME Typed, Origins, Round, NEW r \in Ranks, SerializeOverflow(r) \/ SerializeDone(r)
  PROVE  Typed' /\ Origins' /\ Round'
<1>1. /\ UNCHANGED << derived, imported, localDB, selection, accepted, filter,
                      willing, members, buffer, received >>
      /\ pc[r] = "serialize" /\ pc' = [pc EXCEPT ![r] = "gather"]
      /\ DOMAIN globalDB' = Ranks /\ \A q \in Ranks : globalDB'[q] = globalDB[q]
  <2>1. CASE SerializeOverflow(r)
    <3>1. PICK c \in Best(r) : globalDB' = [globalDB EXCEPT ![r] = PutBack(@ \ {c}, c)]
      BY <2>1 DEF SerializeOverflow
    <3>2. PutBack(globalDB[r] \ {c}, c) = globalDB[r]
      BY DEF PutBack, Best
    <3> QED BY <2>1, <3>1, <3>2 DEF SerializeOverflow, MayTake, Goto, local, Typed
  <2>2. CASE SerializeDone(r)
    BY <2>2 DEF SerializeDone, Goto, local, global, Typed
  <2> QED BY <2>1, <2>2
<1>2. Typed'
  BY <1>1 DEF Typed
<1>3. Origins'
  BY <1>1, OriginsKept
<1>4. BuffersTrue' /\ ReceivedTrue' /\ SharedAgree'
  BY <1>1 DEF Round, BuffersTrue, ReceivedTrue, SharedAgree, Shared, LearntElsewhere, LearntOn
<1>5. RoundShape'
  BY <1>1 DEF Round, RoundShape, Typed
<1> QED BY <1>2, <1>3, <1>4, <1>5 DEF Round

(* A rank stops sharing: it is in no round.                                *)
LEMMA StopKeeps ==
  ASSUME Typed, Origins, Round, NEW r \in Ranks, StopSharing(r)
  PROVE  Typed' /\ Origins' /\ Round'
<1>1. /\ UNCHANGED << derived, imported, localDB, selection, globalDB, accepted, filter,
                      members, buffer, received, pc >>
      /\ pc[r] = "idle" /\ willing[r] /\ willing' = [willing EXCEPT ![r] = FALSE]
  BY DEF StopSharing, local, global
<1>2. Typed' /\ Origins'
  BY <1>1, OriginsKept DEF Typed
<1>3. BuffersTrue' /\ ReceivedTrue'
  <2>1. BuffersTrue'
    BY <1>1 DEF Round, BuffersTrue
  <2>2. ReceivedTrue'
    BY <1>1 DEF Round, ReceivedTrue, LearntElsewhere, LearntOn
  <2> QED BY <2>1, <2>2
<1>4. members = {}
  BY <1>1 DEF Round, RoundShape
<1>5. RoundShape'
  BY <1>1, <1>4 DEF Round, RoundShape
<1>6. SharedAgree'
  BY <1>1 DEF Round, SharedAgree, Shared, Typed
<1> QED BY <1>2, <1>3, <1>5, <1>6 DEF Round

(* A round begins, with the ranks that are willing.                        *)
LEMMA SplitKeeps ==
  ASSUME Typed, Origins, Round, Split
  PROVE  Typed' /\ Origins' /\ Round'
<1>1. /\ UNCHANGED << derived, imported, localDB, selection, globalDB, accepted, filter,
                      willing, buffer, received >>
      /\ \A r \in Ranks : pc[r] = "idle"
      /\ members' = {} \/ members' = {r \in Ranks : willing[r]}
      /\ pc' = [r \in Ranks |-> IF r \in members' THEN "serialize" ELSE "idle"]
  BY DEF Split, local, global
<1>2. Typed' /\ Origins'
  BY <1>1, OriginsKept DEF Typed
<1>3. BuffersTrue' /\ ReceivedTrue' /\ SharedAgree'
  BY <1>1 DEF Round, BuffersTrue, ReceivedTrue, SharedAgree, Shared, LearntElsewhere, LearntOn
<1>4. \A r \in Ranks : buffer[r] = << >> /\ received[r] = << >>
  BY <1>1 DEF Round, RoundShape
<1>5. RoundShape'
  BY <1>1, <1>4 DEF RoundShape
<1> QED BY <1>2, <1>3, <1>5 DEF Round

(* The members get the words of all: each of them knows what it has sent,  *)
(* and what the others have sent was learnt elsewhere.                     *)
LEMMA AllGatherKeeps ==
  ASSUME Typed, Origins, Round, AllGather
  PROVE  Typed' /\ Origins' /\ Round'
<1>1. /\ UNCHANGED << derived, imported, localDB, selection, globalDB, accepted, filter, willing >>
      /\ members # {}
      /\ received' = [r \in Ranks |-> IF r \in members THEN Gathered ELSE received[r]]
      /\ buffer' = [r \in Ranks |-> << >>]
      /\ pc' = [r \in Ranks |-> IF r \in members THEN "deserialize" ELSE pc[r]]
      /\ members' = {}
  BY DEF AllGather, local, global
<1>2. /\ members \in SUBSET Ranks /\ members = {r \in Ranks : willing[r]}
      /\ \A r \in Ranks : r \notin members => pc[r] = "idle"
      /\ \A r \in Ranks : received[r] = << >>
  BY <1>1 DEF Round, RoundShape, Typed
<1>3. Decode(Gathered) = UNION {Decode(buffer[r]) : r \in members}
  <2>1. BuffersFull
    BY <1>2 DEF BuffersFull, Typed, Round, BuffersTrue
  <2> QED BY <1>2, <2>1, GatheredDecodes
<1>4. \A r \in Ranks : Decode(buffer[r]) \subseteq filter[r] \intersect accepted[r]
  BY DEF Round, BuffersTrue
<1> HIDE DEF Gathered
<1>5. Typed'
  BY <1>1, EmptyDecodes DEF Typed
<1>6. Origins'
  BY <1>1, OriginsKept
<1>7. BuffersTrue'
  <2> SUFFICES ASSUME NEW r \in Ranks
               PROVE  /\ \E P \in SUBSET (0..Len(buffer'[r])) : Places(buffer'[r], P)
                      /\ Len(buffer'[r]) <= TotalSize
                      /\ Decode(buffer'[r]) \subseteq filter'[r] \intersect accepted'[r]
                      /\ globalDB'[r] \subseteq accepted'[r]
    BY DEF BuffersTrue
  <2>1. buffer'[r] = << >> /\ globalDB[r] \subseteq accepted[r] /\ TotalSize \in Nat
    BY <1>1, SharingAssumption DEF Round, BuffersTrue
  <2> QED BY <1>1, <2>1, EmptyDecodes
<1>8. ReceivedTrue'
  <2> SUFFICES ASSUME NEW r \in Ranks, NEW c \in Decode(received'[r])
               PROVE  c \in filter'[r] \/ LearntElsewhere(r, c)'
    BY DEF ReceivedTrue
  <2>1. r \in members /\ c \in Decode(Gathered)
    <3>1. r \in members
      <4> SUFFICES ASSUME r \notin members PROVE FALSE
        OBVIOUS
      <4>1. received'[r] = << >>
        BY <1>1, <1>2
      <4> QED BY <4>1, EmptyDecodes
    <3> QED BY <1>1, <3>1
  <2>2. PICK q \in members : c \in Decode(buffer[q])
    BY <1>3, <2>1
  <2>3. q \in Ranks /\ c \in filter[q] /\ c \in accepted[q]
    BY <1>2, <1>4, <2>2
  <2>4. CASE q = r
    BY <1>1, <2>3, <2>4
  <2>5. CASE q # r
    <3>1. LearntOn(q, c)
      BY <2>3 DEF Origins, SendsOwnClauses, LearntOn
    <3> QED BY <1>1, <2>3, <2>5, <3>1 DEF LearntElsewhere, LearntOn
  <2> QED BY <2>4, <2>5
<1>9. RoundShape'
  BY <1>1, <1>2 DEF RoundShape
<1>10. SharedAgree'
  <2>1. ASSUME NEW q \in Ranks, willing[q]
        PROVE  Shared(q)' = filter[q] \union Decode(Gathered)
    <3>1. q \in members
      BY <1>2, <2>1
    <3>2. buffer'[q] = << >> /\ received'[q] = Gathered /\ filter'[q] = filter[q]
      BY <1>1, <3>1
    <3> QED BY <3>2, EmptyDecodes DEF Shared
  <2>2. ASSUME NEW q \in Ranks, willing[q]
        PROVE  Shared(q) = filter[q] \ Decode(buffer[q])
    BY <1>2, EmptyDecodes DEF Shared
  <2>3. ASSUME NEW q \in Ranks, willing[q]
        PROVE  filter[q] \union Decode(Gathered) = Shared(q) \union Decode(Gathered)
    <3>1. q \in members
      BY <1>2, <2>3
    <3>2. Decode(buffer[q]) \subseteq Decode(Gathered)
      BY <1>3, <3>1
    <3> QED BY <2>2, <2>3, <3>2
  <2>4. \A q, r \in Ranks : willing[q] /\ willing[r] => Shared(q)' = Shared(r)'
    <3>1. \A q, r \in Ranks : willing[q] /\ willing[r] => Shared(q) = Shared(r)
      BY DEF Round, SharedAgree
    <3> QED BY <2>1, <2>3, <3>1
  <2> QED BY <1>1, <2>4 DEF SharedAgree
<1> QED BY <1>5, <1>6, <1>7, <1>8, <1>9, <1>10 DEF Round

(* What is new of it enters the filter and the local strategy.             *)
LEMMA DeserializeKeeps ==
  ASSUME Typed, Origins, Round, NEW r \in Ranks, Deserialize(r)
  PROVE  Typed' /\ Origins' /\ Round'
<1> DEFINE new == Decode(received[r]) \ filter[r]
<1>1. /\ filter' = [filter EXCEPT ![r] = @ \union new]
      /\ \E kept \in SUBSET new :
           localDB' = [localDB EXCEPT ![r] = @ \union {<< c, Global >> : c \in kept}]
      /\ received' = [received EXCEPT ![r] = << >>]
      /\ pc[r] = "deserialize" /\ pc' = [pc EXCEPT ![r] = "idle"]
      /\ UNCHANGED << derived, imported, selection, globalDB, accepted, willing, members, buffer >>
  BY DEF Deserialize, Goto
<1>2. PICK kept \in SUBSET new :
        localDB' = [localDB EXCEPT ![r] = @ \union {<< c, Global >> : c \in kept}]
  BY <1>1
<1>3. /\ \A c \in new : LearntElsewhere(r, c)
      /\ filter'[r] = filter[r] \union Decode(received[r]) /\ buffer[r] = << >>
      /\ received'[r] = << >>
      /\ \A q \in Ranks \ {r} : received'[q] = received[q] /\ filter'[q] = filter[q]
      /\ \A q \in Ranks : filter[q] \subseteq filter'[q]
  <2>1. \A c \in new : LearntElsewhere(r, c)
    BY DEF Round, ReceivedTrue
  <2>2. buffer[r] = << >>
    BY <1>1 DEF Round, RoundShape
  <2> QED BY <1>1, <2>1, <2>2 DEF Typed
<1> HIDE DEF new
<1>4. Typed'
  BY <1>1, <1>2 DEF Typed
<1>5. Origins'
  <2>1. OriginsTrue'
    <3> SUFFICES ASSUME NEW q \in Ranks, NEW x \in localDB'[q] \union selection'[q]
                 PROVE  IF x[2] = Global THEN LearntElsewhere(q, x[1])'
                        ELSE x[2] \in Solvers /\ RankOf[x[2]] = q /\ x[1] \in derived'[x[2]]
      BY DEF OriginsTrue
    <3>1. CASE x \in localDB[q] \union selection[q]
      BY <1>1, <3>1 DEF Origins, OriginsTrue, LearntElsewhere, LearntOn
    <3>2. CASE x \notin localDB[q] \union selection[q]
      <4>1. PICK c \in kept : q = r /\ x = << c, Global >>
        BY <1>1, <1>2, <3>2 DEF Typed
      <4>2. LearntElsewhere(q, x[1])
        BY <1>3, <4>1
      <4> QED BY <1>1, <4>1, <4>2 DEF LearntElsewhere, LearntOn
    <3> QED BY <3>1, <3>2
  <2>2. SendsOwnClauses' /\ ImportsAreForeign'
    BY <1>1 DEF Origins, SendsOwnClauses, ImportsAreForeign
  <2>3. KeptOrShared'
    BY <1>1, <1>3 DEF Origins, KeptOrShared
  <2> QED BY <2>1, <2>2, <2>3 DEF Origins
<1>6. BuffersTrue'
  BY <1>1, <1>3 DEF Round, BuffersTrue
<1>7. ReceivedTrue'
  <2> SUFFICES ASSUME NEW q \in Ranks, NEW c \in Decode(received'[q])
               PROVE  c \in filter'[q] \/ LearntElsewhere(q, c)'
    BY DEF ReceivedTrue
  <2>1. q # r
    BY <1>3, EmptyDecodes
  <2>2. c \in filter[q] \/ LearntElsewhere(q, c)
    BY <1>3, <2>1 DEF Round, ReceivedTrue
  <2> QED BY <1>1, <1>3, <2>2 DEF LearntElsewhere, LearntOn
<1>8. RoundShape'
  BY <1>1, <1>3 DEF Round, RoundShape, Typed
<1>9. SharedAgree'
  <2>1. Shared(r)' = Shared(r)
    BY <1>1, <1>3, EmptyDecodes DEF Shared
  <2>2. \A q \in Ranks \ {r} : Shared(q)' = Shared(q)
    BY <1>1, <1>3 DEF Shared
  <2> QED BY <1>1, <2>1, <2>2 DEF Round, SharedAgree
<1> QED BY <1>4, <1>5, <1>6, <1>7, <1>8, <1>9 DEF Round

(* Nothing else happens.                                                   *)
LEMMA StutterKeeps ==
  ASSUME Typed, Origins, Round, UNCHANGED vars
  PROVE  Typed' /\ Origins' /\ Round'
<1>1. UNCHANGED << derived, imported, localDB, selection, globalDB, accepted, filter,
                   willing, members, buffer, received, pc >>
  BY DEF vars, local, global, comm
<1>2. Typed' /\ Origins'
  BY <1>1, OriginsKept DEF Typed
<1>3. Round'
  BY <1>1 DEF Round, BuffersTrue, ReceivedTrue, RoundShape, SharedAgree, Shared,
              LearntElsewhere, LearntOn
<1> QED BY <1>2, <1>3
-----------------------------------------------------------------------------
(* The invariant holds in every state.                                     *)
THEOREM SharingCorrect == Spec => [](Typed /\ SharingInv)
<1>1. SharingInv <=> Origins /\ Round
  BY DEF SharingInv, Origins, Round
<1>2. Typed /\ SharingInv /\ [Next]_vars => (Typed /\ SharingInv)'
  <2> SUFFICES ASSUME Typed, Origins, Round, [Next]_vars
               PROVE  Typed' /\ Origins' /\ Round'
    BY DEF SharingInv, Origins, Round
  <2> QED BY LearnKeeps, SelectKeeps, ExportKeeps, SerializeNewKeeps, SerializeKnownKeeps,
             CloseKeeps, StopKeeps, SplitKeeps, AllGatherKeeps, DeserializeKeeps, StutterKeeps
          DEF Next, LocalStep, GlobalStep
<1> QED BY <1>2, SharingInit, PTL DEF Spec

(* A rank only gives to the network what its own solvers have learnt.      *)
THEOREM SendsOwnCorrect == Spec => []SendsOwnClauses
<1>1. SharingInv => SendsOwnClauses
  BY DEF SharingInv
<1> QED BY <1>1, SharingCorrect, PTL

(* No clause that the global strategy has taken is lost: it waits in the   *)
(* database or was sent, by this rank or by another.                       *)
THEOREM KeptOrSharedCorrect == Spec => []KeptOrShared
<1>1. SharingInv => KeptOrShared
  BY DEF SharingInv
<1> QED BY <1>1, SharingCorrect, PTL

(* No solver gets its own clause back, be it by the local strategy or over *)
(* the network: another solver has learnt each clause it imports.          *)
THEOREM ImportsAreForeignCorrect == Spec => []ImportsAreForeign
<1>1. SharingInv => ImportsAreForeign
  BY DEF SharingInv
<1> QED BY <1>1, SharingCorrect, PTL

(* Between two rounds the ranks that still share have the same filter:     *)
(* nothing is in a buffer, and what they share is what they have filtered. *)
THEOREM FiltersAgreeCorrect == Spec => []FiltersAgree
<1>1. Typed /\ SharingInv => FiltersAgree
  <2> SUFFICES ASSUME SharingInv, \A r \in Ranks : pc[r] = "idle",
                      NEW q \in Ranks, NEW r \in Ranks, willing[q], willing[r]
               PROVE  filter[q] = filter[r]
    BY DEF FiltersAgree
  <2>1. ASSUME NEW p \in Ranks PROVE Shared(p) = filter[p]
    <3>1. buffer[p] = << >> /\ received[p] = << >>
      BY DEF SharingInv, RoundShape
    <3> QED BY <3>1, EmptyDecodes DEF Shared
  <2>2. Shared(q) = Shared(r)
    BY DEF SharingInv, SharedAgree
  <2> QED BY <2>1, <2>2
<1> QED BY <1>1, SharingCorrect, PTL
=============================================================================
