------------------------ MODULE DistributedEndProofs ------------------------
(***************************************************************************)
(* Proofs about the end of a run over MPI, for any number of ranks and any *)
(* set of answering ranks, with both global strategies.                    *)
(*                                                                         *)
(* The argument: the broadcasts of the root reach every rank in the same   *)
(* order, so that all that matters is how many of them a rank has still to *)
(* take.  These counts pace the ranks (BoardsMatch, GathersMatch,          *)
(* MailMatch), the first broadcast that is not 0 is the end, and every     *)
(* rank takes over this one (QueueInv).                                    *)
(***************************************************************************)
EXTENDS DistributedEnd, FiniteSetTheorems, WellFoundedInduction, TLAPS

(* A rank knows the end once it has taken the last broadcast.              *)
Knows(r) == sharerPc[r] \in {"apply", "join", "stopped"}

(* The winner and the result that a broadcast carries, and those that a    *)
(* rank took over.                                                         *)
EndIn(packed) == << WinnerOf(packed), ResultOf(packed) >>
EndOf(r) == IF sharerPc[r] = "apply" THEN EndIn(value[r]) ELSE << mpiWinner[r], value[r] >>

Bit(b) == IF b THEN 1 ELSE 0

(* The broadcasts of rounds that a rank has not taken yet: the first one   *)
(* of all announces the formula and belongs to no round.                   *)
Untaken(pc, q) == Len(q) - Bit(pc = "start" /\ q # << >>)
Waiting(r) == IF r = Root THEN 0 ELSE Untaken(solvePc[r], bcast[r])

(* The exchanges of clauses that a rank has not begun, of those the root   *)
(* announced.                                                              *)
Lag(r) == Waiting(r) - Bit(Knows(Root) /\ ~Knows(r)) + Bit(sharerPc[r] = "share")

(* Types, as the steps keep them: the bound of mail follows from MailMatch. *)
Typed ==
  /\ run \in Runs
  /\ mainPc \in [Ranks -> MainPc] /\ solvePc \in [Ranks -> SolvePc]
  /\ workerPc \in [Ranks -> WorkerPc] /\ sharerPc \in [Ranks -> SharerPc]
  /\ globalEnding \in [Ranks -> BOOLEAN] /\ finalResult \in [Ranks -> Results]
  /\ mpiWinner \in [Ranks -> Ranks \cup {NoRank}]
  /\ value \in [Ranks -> Packed] /\ requestsSent \in [Ranks -> BOOLEAN]
  /\ message \in [Others -> Results \cup {Nothing, Live, Delivered}]
  /\ received \in [Others -> Results \cup {Nothing}]
  /\ bcast \in [Others -> Seq(Packed)] /\ \A r \in Others : Len(bcast[r]) <= MaxAhead
  /\ mail \in [Ranks \X Ranks -> Nat]
  /\ printed \in [Ranks -> Results \cup {Nothing}]

(* Which phases of its threads go together on a rank.                      *)
Phases ==
  /\ \A r \in Ranks :
       /\ sharerPc[r] = "off" <=> solvePc[r] # "launched"
       /\ solvePc[r] \in {"start", "build"} => workerPc[r] = "off"
       /\ sharerPc[r] \in {"join", "stopped"} => mpiWinner[r] \in Ranks /\ value[r] \in Results
       /\ sharerPc[r] = "board" => run.board
       /\ sharerPc[r] = "recv" => run.strategy = "ring"
       /\ mainPc[r] \in {"finalize", "exit"} =>
            solvePc[r] \in {"launched", "returned"} /\ sharerPc[r] \in {"off", "stopped"}
  /\ sharerPc[Root] # "bcast"

(* The broadcasts on their way to a rank: the announcement of the formula, *)
(* or of an end before it; then 0 for each round, then the end.            *)
AnnouncedTo(r) ==
  /\ solvePc[Root] = "start" => solvePc[r] = "start" /\ bcast[r] = << >>
  /\ solvePc[Root] # "start" /\ solvePc[r] = "start" =>
       /\ bcast[r] # << >>
       /\ bcast[r][1] \in {UNKNOWN, TIMEOUT}
       /\ bcast[r][1] = TIMEOUT => solvePc[Root] = "returned"

RoundsOf(r) ==
  \A i \in 1 .. Len(bcast[r]) :
    i > 1 \/ solvePc[r] # "start" =>
      /\ bcast[r][i] # 0 <=> (Knows(Root) /\ i = Len(bcast[r]))
      /\ bcast[r][i] # 0 => EndIn(bcast[r][i]) = EndOf(Root)

EndReaches(r) ==
  /\ sharerPc[Root] = "off" => Waiting(r) = 0
  /\ Knows(Root) /\ ~Knows(r) => Waiting(r) > 0
  /\ Knows(r) => Knows(Root) /\ bcast[r] = << >> /\ EndOf(r) = EndOf(Root)

QueueInv == \A r \in Others : AnnouncedTo(r) /\ RoundsOf(r) /\ EndReaches(r)

(* The ranks make the same calls: as many exchanges of the board, as many  *)
(* gathers of clauses, and what a rank sent to a neighbour and this one    *)
(* did not receive yet is the distance between them.                       *)
BoardsMatch ==
  run.board =>
    \A r \in Ranks :
      Waiting(r) + Bit(sharerPc[Root] = "test") = Bit(sharerPc[r] \in {"test", "bcast"})

GathersMatch == run.strategy = "allgather" => \A r \in Ranks : Lag(r) = Lag(Root)

MailMatch ==
  \A r, s \in Ranks :
    mail[<< s, r >>] =
      IF s \in Neighbours(r) THEN Lag(r) - Lag(s) + Bit(sharerPc[r] = "recv") ELSE 0

PaceInv == QueueInv /\ BoardsMatch /\ GathersMatch /\ MailMatch

(* The end messages.                                                       *)
MessageInv ==
  /\ \A r \in Others :
       /\ ~Knows(Root) => message[r] \in {Nothing, Live, Delivered}
       /\ sharerPc[r] = "off" => message[r] = Nothing
       /\ sharerPc[r] = "stopped" => message[r] = Delivered
       /\ requestsSent[r] <=> message[r] # Nothing
       /\ received[r] # Nothing => message[r] = Delivered
  /\ sharerPc[Root] = "stopped" => \A r \in Others : received[r] # Nothing

(* Who answered: only the worker of a rank, or the end that it took over,  *)
(* makes its result COMPLETE, and the winner of such an end answered.      *)
Wrote(r) == workerPc[r] \in {"wrote", "done"}
Answered(r) == Wrote(r) \/ (sharerPc[r] \in {"join", "stopped"} /\ value[r] = COMPLETE)

AnswerInv ==
  /\ \A r \in Ranks : finalResult[r] = COMPLETE => Answered(r)
  /\ ~Knows(Root) => \A r \in Others : received[r] = COMPLETE => Wrote(r)
  /\ Knows(Root) /\ EndOf(Root)[2] = COMPLETE => Wrote(EndOf(Root)[1])

(* Who prints: a rank that takes itself for the winner.                    *)
PrintInv ==
  \A r \in Ranks :
    /\ printed[r] # Nothing => mainPc[r] = "exit"
    /\ mainPc[r] = "exit" => (printed[r] # Nothing <=> mpiWinner[r] = r)

(* Unless the deadline may strike anywhere, a run ends for all ranks       *)
(* before the workers start, or for all after their sharers did.           *)
Orderly == run.deadline # "any"

(* While the root parses no sharer runs, and every rank takes TIMEOUT over. *)
ParsingInv ==
  \A r \in Ranks :
    /\ solvePc[r] \in {"start", "returned"}
    /\ solvePc[r] = "returned" => mpiWinner[r] = Root
    /\ r # Root /\ bcast[r] # << >> => bcast[r][1] = TIMEOUT

(* Otherwise no rank ends before its sharers run.                          *)
LateEnd(r) ==
  /\ solvePc[r] # "returned"
  /\ solvePc[r] # "launched" => mainPc[r] \notin {"expire", "expired"}
  /\ solvePc[r] \in {"start", "build"} => ~globalEnding[r] /\ finalResult[r] = UNKNOWN
  /\ r # Root /\ solvePc[r] = "start" /\ bcast[r] # << >> => bcast[r][1] = UNKNOWN

OrderlyInv ==
  /\ run.deadline = "parsing" => ParsingInv
  /\ run.deadline \in {"never", "solving"} => \A r \in Ranks : LateEnd(r)

(* Without a deadline the only end is an answer.                           *)
OnlyAnswersEnd(r) ==
  /\ mainPc[r] \notin {"expire", "expired"}
  /\ workerPc[r] = "wrote" \/ globalEnding[r] => finalResult[r] = COMPLETE
  /\ printed[r] \in {Nothing, COMPLETE}
  /\ mainPc[r] = "wait" \/ finalResult[r] = COMPLETE

OnlyAnswersSent(r) ==
  /\ received[r] \in {Nothing, COMPLETE}
  /\ message[r] \in {Nothing, Live, Delivered, COMPLETE}
  /\ message[r] = Live => finalResult[r] = COMPLETE

NeverInv ==
  run.deadline = "never" =>
    /\ \A r \in Ranks : OnlyAnswersEnd(r)
    /\ \A r \in Others : OnlyAnswersSent(r)
    /\ Knows(Root) => EndOf(Root)[2] = COMPLETE

EndInv ==
  /\ Typed /\ Phases /\ PaceInv /\ MessageInv /\ AnswerInv /\ PrintInv /\ PrintsOwnAnswer
  /\ Orderly => OrderlyInv
  /\ NeverInv
-----------------------------------------------------------------------------
(* Facts about ranks, results and queues. *)

LEMMA RankFacts ==
  /\ Root \in Ranks /\ Others \subseteq Ranks /\ Root \notin Others
  /\ \A r \in Ranks : r \in Int /\ (r # Root => r \in Others)
BY DistributedAssumption DEF Root, Ranks, Others

(* What is packed is taken apart again. *)
LEMMA UnpackPacked ==
  ASSUME NEW r \in Ranks, NEW res \in Results
  PROVE  /\ Pack(r, res) \in Packed
         /\ WinnerOf(Pack(r, res)) = r
         /\ ResultOf(Pack(r, res)) = res
<1>1. r \in Nat /\ res \in {0, 10, 30}
  BY DEF Ranks, Results, UNKNOWN, COMPLETE, TIMEOUT
<1>2. (r * 2^16 + res) \div 2^16 = r /\ (r * 2^16 + res) % 2^16 = res
  BY <1>1
<1> QED BY <1>2 DEF Pack, Packed, WinnerOf, ResultOf

(* A result alone is what the root packs. *)
LEMMA ResultPacked ==
  ASSUME NEW res \in Results
  PROVE  res \in Packed /\ Pack(Root, res) = res
<1>1. Pack(Root, res) = res
  BY DEF Pack, Root, Results, UNKNOWN, COMPLETE, TIMEOUT
<1> QED BY <1>1, RankFacts DEF Packed

LEMMA PackedFacts ==
  ASSUME NEW packed \in Packed
  PROVE  WinnerOf(packed) \in Ranks /\ ResultOf(packed) \in Results /\ ResultOf(packed) \in Packed
<1>1. PICK r \in Ranks, res \in Results : packed = Pack(r, res)
  BY DEF Packed
<1> QED BY <1>1, UnpackPacked, ResultPacked

LEMMA ZeroPacked == UNKNOWN = 0 /\ 0 \in Packed
BY ResultPacked DEF Results, UNKNOWN

LEMMA TailFacts ==
  ASSUME NEW S, NEW q \in Seq(S), q # << >>
  PROVE  /\ Tail(q) \in Seq(S) /\ Head(q) = q[1] /\ q[1] \in S
         /\ Len(q) \in Nat /\ Len(q) > 0 /\ Len(Tail(q)) = Len(q) - 1
         /\ \A i \in 1 .. Len(Tail(q)) : Tail(q)[i] = q[i + 1]
OBVIOUS

LEMMA AppendFacts ==
  ASSUME NEW S, NEW q \in Seq(S), NEW e \in S
  PROVE  /\ Append(q, e) \in Seq(S) /\ Append(q, e) # << >>
         /\ Len(q) \in Nat /\ Len(Append(q, e)) = Len(q) + 1
         /\ Append(q, e)[Len(q) + 1] = e
         /\ \A i \in 1 .. Len(q) : Append(q, e)[i] = q[i]
OBVIOUS

LEMMA EmptyFacts ==
  ASSUME NEW S, NEW q \in Seq(S)
  PROVE  Len(q) \in Nat /\ (q = << >> <=> Len(q) = 0)
OBVIOUS

(* The neighbours of the ring: the relation is symmetric, without loops.   *)
LEMMA NeighboursFacts ==
  ASSUME NEW r \in Ranks
  PROVE  /\ Neighbours(r) \subseteq Ranks
         /\ r \notin Neighbours(r)
         /\ \A s \in Ranks : s \in Neighbours(r) <=> r \in Neighbours(s)
<1>1. ASSUME NEW u \in Ranks
      PROVE  /\ (u + 1) % NumRanks = IF u = NumRanks - 1 THEN 0 ELSE u + 1
             /\ (u + NumRanks - 1) % NumRanks = IF u = 0 THEN NumRanks - 1 ELSE u - 1
  BY <1>1, DistributedAssumption DEF Ranks
<1>2. ASSUME NEW u \in Ranks
      PROVE  Neighbours(u) = { IF u = NumRanks - 1 THEN 0 ELSE u + 1,
                               IF u = 0 THEN NumRanks - 1 ELSE u - 1 }
  BY <1>1 DEF Neighbours
<1> QED BY <1>2, DistributedAssumption DEF Ranks

LEMMA UntakenFacts ==
  ASSUME NEW S, NEW q \in Seq(S), NEW pc
  PROVE  /\ Untaken(pc, q) \in Int
         /\ pc # "start" => Untaken(pc, q) = Len(q)
         /\ pc = "start" /\ q # << >> => Untaken(pc, q) = Len(q) - 1
         /\ q = << >> => Untaken(pc, q) = 0
BY EmptyFacts DEF Untaken, Bit

LEMMA CountTypes ==
  ASSUME Typed, NEW r \in Ranks
  PROVE  Waiting(r) \in Int /\ Lag(r) \in Int
<1>1. Waiting(r) \in Int
  BY RankFacts, UntakenFacts DEF Waiting, Typed
<1> QED BY <1>1 DEF Lag, Bit
-----------------------------------------------------------------------------
(* Typing. *)

(* A set of ranks that is not empty has a last one.                        *)
LEMMA LastFacts ==
  ASSUME NEW S \in SUBSET Others, S # {}
  PROVE  Last(S) \in S /\ \A s \in S : s <= Last(S)
<1> DEFINE Below == {p \in Nat \X Nat : p[1] < p[2]}
           T == {NumRanks - s : s \in S}
<1>1. IsWellFoundedOn(Below, Nat)
  BY NatLessThanWellFounded DEF OpToRel
<1>2. T \subseteq Nat /\ T # {}
  <2>1. PICK s \in S : TRUE
    OBVIOUS
  <2>2. NumRanks - s \in T
    BY <2>1
  <2>3. \A u \in S : NumRanks - u \in Nat
    BY DistributedAssumption DEF Others, Ranks
  <2> QED BY <2>2, <2>3
<1>3. \E x \in T : \A y \in T : << y, x >> \notin Below
  <2> HIDE DEF Below, T
  <2> QED BY <1>1, <1>2, WFMin
<1>4. PICK r \in S : \A y \in T : << y, NumRanks - r >> \notin Below
  BY <1>3
<1>5. ASSUME NEW s \in S PROVE s <= r
  <2>1. NumRanks - s \in Nat /\ NumRanks - r \in Nat /\ NumRanks \in Int /\ r \in Int /\ s \in Int
    BY DistributedAssumption DEF Others, Ranks
  <2>2. ~ (NumRanks - s < NumRanks - r)
    BY <1>4, <2>1
  <2> QED BY <2>1, <2>2
<1>6. \E u \in S : \A s \in S : s <= u
  BY <1>5
<1> QED BY <1>6 DEF Last

LEMMA VerdictType ==
  ASSUME Typed
  PROVE  RootVerdict \in Packed
<1>1. CASE globalEnding[Root]
  BY <1>1, RankFacts, UnpackPacked DEF RootVerdict, Typed
<1>2. CASE ~ globalEnding[Root]
  <2> DEFINE got == {r \in Others : received[r] # Nothing}
             answers == {r \in got : received[r] # TIMEOUT}
  <2>1. CASE got = {}
    BY <1>2, <2>1, ZeroPacked DEF RootVerdict, Verdict
  <2>2. CASE got # {}
    <3>1. Last(got) \in got /\ (answers # {} => Last(answers) \in answers)
      BY <2>2, LastFacts
    <3>2. received[Last(got)] \in Results
      BY <3>1 DEF Typed
    <3>3. (IF answers = {} THEN Root ELSE Last(answers)) \in Ranks
      BY <3>1, RankFacts
    <3>4. RootVerdict =
            Pack(IF answers = {} THEN Root ELSE Last(answers), received[Last(got)])
      BY <1>2, <2>2 DEF RootVerdict, Verdict
    <3> QED BY <3>2, <3>3, <3>4, UnpackPacked
  <2> QED BY <2>1, <2>2
<1> QED BY <1>1, <1>2

LEMMA FirstBcastTyped ==
  ASSUME Typed, NEW r \in Ranks, NEW res \in Results, AfterFirstBcast(r, res)
  PROVE  /\ mpiWinner' \in [Ranks -> Ranks \cup {NoRank}]
         /\ finalResult' \in [Ranks -> Results] /\ globalEnding' \in [Ranks -> BOOLEAN]
         /\ solvePc' \in [Ranks -> SolvePc]
<1>1. CASE EndAtStart(r, res)
  BY <1>1, RankFacts DEF EndAtStart, Typed, SolvePc
<1>2. CASE solvePc' = [solvePc EXCEPT ![r] = "build"] /\ UNCHANGED ends
  BY <1>2 DEF ends, Typed, SolvePc
<1> QED BY <1>1, <1>2 DEF AfterFirstBcast

LEMMA AnnounceTyped == ASSUME Typed, QueueInv, Announce PROVE Typed'
<1>1. solvePc[Root] = "start" /\ finalResult[Root] \in Results
  BY RankFacts DEF Announce, Typed
<1>2. \A r \in Others : bcast[r] \in Seq(Packed) /\ Len(bcast[r]) = 0
  BY <1>1, EmptyFacts DEF QueueInv, AnnouncedTo, Typed
<1>3. \A r \in Others : bcast'[r] \in Seq(Packed) /\ Len(bcast'[r]) <= MaxAhead
  BY <1>1, <1>2, AppendFacts, ResultPacked, DistributedAssumption DEF Announce
<1>4. bcast' \in [Others -> Seq(Packed)]
  BY <1>3 DEF Announce
<1>5. /\ mpiWinner' \in [Ranks -> Ranks \cup {NoRank}]
      /\ finalResult' \in [Ranks -> Results] /\ globalEnding' \in [Ranks -> BOOLEAN]
      /\ solvePc' \in [Ranks -> SolvePc]
  BY <1>1, RankFacts, FirstBcastTyped DEF Announce
<1> QED BY <1>3, <1>4, <1>5 DEF Announce, Typed

LEMMA TakeFormulaTyped ==
  ASSUME Typed, QueueInv, NEW r \in Ranks, TakeFormula(r)
  PROVE  Typed'
<1>1. r \in Others /\ solvePc[r] = "start" /\ bcast[r] # << >> /\ bcast[r] \in Seq(Packed)
  BY RankFacts DEF TakeFormula, Typed
<1>2. Head(bcast[r]) = bcast[r][1] /\ bcast[r][1] \in Results
  BY <1>1, TailFacts DEF QueueInv, AnnouncedTo, Results
<1>3. Tail(bcast[r]) \in Seq(Packed) /\ Len(Tail(bcast[r])) <= MaxAhead
  BY <1>1, TailFacts, DistributedAssumption DEF Typed
<1>4. /\ bcast' \in [Others -> Seq(Packed)]
      /\ \A u \in Others : Len(bcast'[u]) <= MaxAhead
  BY <1>1, <1>3 DEF TakeFormula, Typed
<1>5. /\ mpiWinner' \in [Ranks -> Ranks \cup {NoRank}]
      /\ finalResult' \in [Ranks -> Results] /\ globalEnding' \in [Ranks -> BOOLEAN]
      /\ solvePc' \in [Ranks -> SolvePc]
  BY <1>2, FirstBcastTyped DEF TakeFormula
<1> QED BY <1>4, <1>5 DEF TakeFormula, Typed

LEMMA BcastEndTyped == ASSUME Typed, BcastEnd PROVE Typed'
<1>1. RootVerdict \in Packed
  BY VerdictType
<1>2. \A r \in Others : bcast'[r] \in Seq(Packed) /\ Len(bcast'[r]) <= MaxAhead
  BY <1>1, AppendFacts, DistributedAssumption DEF BcastEnd, Typed
<1>3. bcast' \in [Others -> Seq(Packed)]
  BY <1>2 DEF BcastEnd
<1> QED BY <1>1, <1>2, <1>3 DEF BcastEnd, AfterBcast, SharerPc, ends, Typed

LEMMA TakeBcastTyped ==
  ASSUME Typed, NEW r \in Ranks, TakeBcast(r)
  PROVE  Typed'
<1>1. r \in Others /\ bcast[r] # << >> /\ bcast[r] \in Seq(Packed)
  BY RankFacts DEF TakeBcast, Typed
<1>2. /\ Head(bcast[r]) \in Packed
      /\ Tail(bcast[r]) \in Seq(Packed) /\ Len(Tail(bcast[r])) <= MaxAhead
  BY <1>1, TailFacts, DistributedAssumption DEF Typed
<1>3. /\ bcast' \in [Others -> Seq(Packed)]
      /\ \A u \in Others : Len(bcast'[u]) <= MaxAhead
  BY <1>1, <1>2 DEF TakeBcast, Typed
<1> QED BY <1>2, <1>3 DEF TakeBcast, AfterBcast, SharerPc, ends, Typed

LEMMA EndTyped ==
  ASSUME Typed, Phases, NEW r \in Ranks, ApplyEnd(r) \/ JoinProcess(r)
  PROVE  Typed'
<1>1. CASE ApplyEnd(r)
  <2>1. /\ WinnerOf(value[r]) \in Ranks
        /\ ResultOf(value[r]) \in Results /\ ResultOf(value[r]) \in Packed
    BY PackedFacts DEF Typed
  <2>2. /\ message' \in [Others -> Results \cup {Nothing, Live, Delivered}]
        /\ requestsSent' \in [Ranks -> BOOLEAN]
    <3>1. CASE r # Root /\ ~requestsSent[r]
      <4>1. /\ message' = [message EXCEPT ![r] = ResultOf(value[r])]
            /\ requestsSent' = [requestsSent EXCEPT ![r] = TRUE]
        BY <1>1, <3>1 DEF ApplyEnd, LastMessage
      <4> QED BY <4>1, <2>1 DEF Typed
    <3>2. CASE ~ (r # Root /\ ~requestsSent[r])
      BY <1>1, <3>2 DEF ApplyEnd, LastMessage, Typed
    <3> QED BY <3>1, <3>2
  <2> QED BY <1>1, <2>1, <2>2 DEF ApplyEnd, SharerPc, Typed
<1>2. CASE JoinProcess(r)
  <2>1. value[r] \in Results
    BY <1>2 DEF JoinProcess, Phases
  <2> QED BY <1>2, <2>1 DEF JoinProcess, network, SharerPc, Typed
<1> QED BY <1>1, <1>2

LEMMA RingTyped ==
  ASSUME Typed, NEW r \in Ranks, SendClauses(r) \/ ReceiveClauses(r)
  PROVE  Typed'
<1>1. CASE SendClauses(r)
  <2>1. mail' \in [Ranks \X Ranks -> Nat]
    BY <1>1 DEF SendClauses, Typed
  <2> QED BY <1>1, <2>1 DEF SendClauses, ends, SharerPc, Typed
<1>2. CASE ReceiveClauses(r)
  <2>1. ASSUME NEW p \in Ranks \X Ranks PROVE mail'[p] \in Nat
    <3>1. CASE p[2] = r /\ p[1] \in Neighbours(r)
      <4>1. p = << p[1], r >> /\ mail[p] \in Nat
        BY <3>1 DEF Typed
      <4>2. mail[p] > 0 /\ mail'[p] = mail[p] - 1
        BY <1>2, <3>1, <4>1 DEF ReceiveClauses
      <4> QED BY <4>1, <4>2
    <3>2. CASE ~ (p[2] = r /\ p[1] \in Neighbours(r))
      BY <1>2, <3>2 DEF ReceiveClauses, Typed
    <3> QED BY <3>1, <3>2
  <2>2. mail' \in [Ranks \X Ranks -> Nat]
    BY <1>2, <2>1 DEF ReceiveClauses
  <2> QED BY <1>2, <2>2 DEF ReceiveClauses, RoundStart, ends, SharerPc, Typed
<1> QED BY <1>1, <1>2

LEMMA OtherSharerTyped ==
  ASSUME Typed,
         \/ ExchangeBoard \/ SplitAndGather
         \/ \E r \in Ranks : SendEnd(r)
         \/ \E r \in Others : Deliver(r)
  PROVE  Typed'
<1>1. CASE ExchangeBoard
  BY <1>1 DEF ExchangeBoard, ends, network, SharerPc, Typed
<1>2. CASE SplitAndGather
  BY <1>2 DEF SplitAndGather, AfterSplit, RoundStart, ends, network, SharerPc, Typed
<1>3. ASSUME NEW r \in Ranks, SendEnd(r) PROVE Typed'
  BY <1>3, RankFacts DEF SendEnd, ends, SharerPc, Typed
<1>4. ASSUME NEW r \in Others, Deliver(r) PROVE Typed'
  <2>1. message[r] \in Results \cup {Live} /\ finalResult[r] \in Results
    BY <1>4, RankFacts DEF Deliver, Typed
  <2> QED BY <1>4, <2>1 DEF Deliver, pcs, ends, Typed
<1> QED BY <1>1, <1>2, <1>3, <1>4

LEMMA LocalTyped ==
  ASSUME Typed, NEW r \in Ranks,
         \/ StartWorkers(r) \/ LaunchSharers(r)
         \/ WorkerWins(r) \/ WorkerStores(r) \/ MainStep(r)
  PROVE  Typed'
<1>1. CASE StartWorkers(r)
  BY <1>1 DEF StartWorkers, ends, network, SolvePc, WorkerPc, Typed
<1>2. CASE LaunchSharers(r)
  BY <1>2 DEF LaunchSharers, RoundStart, ends, network, SolvePc, SharerPc, Typed
<1>3. CASE WorkerWins(r)
  BY <1>3 DEF WorkerWins, ends, network, WorkerPc, Typed
<1>4. CASE WorkerStores(r)
  BY <1>4 DEF WorkerStores, network, WorkerPc, Results, Typed
<1>5. CASE Leave(r)
  BY <1>5 DEF Leave, ends, network, MainPc, Typed
<1>6. CASE Expire(r)
  BY <1>6 DEF Expire, ends, network, MainPc, Results, Typed
<1>7. CASE JoinThreads(r)
  BY <1>7 DEF JoinThreads, ends, network, MainPc, Typed
<1>8. CASE PrintResult(r)
  <2>1. printed' \in [Ranks -> Results \cup {Nothing}]
    BY <1>8 DEF PrintResult, Results, Typed
  <2> QED BY <1>8, <2>1 DEF PrintResult, ends, network, MainPc, Typed
<1> QED BY <1>1, <1>2, <1>3, <1>4, <1>5, <1>6, <1>7, <1>8 DEF MainStep

LEMMA TypedStep == Typed /\ Phases /\ QueueInv /\ [Next]_vars => Typed'
<1>1. Typed /\ UNCHANGED vars => Typed'
  BY DEF vars, pcs, ends, network, Typed
<1> QED
  BY <1>1, AnnounceTyped, TakeFormulaTyped, BcastEndTyped, TakeBcastTyped, EndTyped,
     RingTyped, OtherSharerTyped, LocalTyped
  DEF Next, Collective, SolveStep, SharerStep, Finished
-----------------------------------------------------------------------------
(* The phases of the threads. *)

LEMMA FirstBcastPhases ==
  ASSUME Typed, Phases, NEW r \in Ranks, NEW res \in Results,
         solvePc[r] = "start", AfterFirstBcast(r, res),
         UNCHANGED << run, mainPc, workerPc, sharerPc, value >>
  PROVE  Phases'
<1>1. CASE EndAtStart(r, res)
  <2>1. /\ solvePc' = [solvePc EXCEPT ![r] = "returned"]
        /\ mpiWinner' = [mpiWinner EXCEPT ![r] = Root]
    BY <1>1 DEF EndAtStart
  <2>2. ASSUME NEW u \in Ranks, u # r
        PROVE  solvePc'[u] = solvePc[u] /\ mpiWinner'[u] = mpiWinner[u]
    BY <2>1, <2>2 DEF Typed
  <2>3. solvePc'[r] = "returned" /\ workerPc[r] = "off" /\ sharerPc[r] = "off"
        /\ mainPc[r] \notin {"finalize", "exit"}
    BY <2>1 DEF Typed, Phases
  <2> QED BY <2>2, <2>3 DEF Phases
<1>2. CASE solvePc' = [solvePc EXCEPT ![r] = "build"] /\ UNCHANGED ends
  <2>1. ASSUME NEW u \in Ranks, u # r PROVE solvePc'[u] = solvePc[u]
    BY <1>2, <2>1 DEF Typed
  <2>2. solvePc'[r] = "build" /\ workerPc[r] = "off" /\ sharerPc[r] = "off"
        /\ mainPc[r] \notin {"finalize", "exit"}
    BY <1>2 DEF Typed, Phases
  <2> QED BY <1>2, <2>1, <2>2 DEF Phases, ends
<1> QED BY <1>1, <1>2 DEF AfterFirstBcast

LEMMA SolvePhases ==
  ASSUME Typed, Phases, QueueInv,
         NEW r \in Ranks, Announce \/ SolveStep(r)
  PROVE  Phases'
<1>1. CASE Announce
  <2>1. Root \in Ranks /\ finalResult[Root] \in Results
    BY RankFacts DEF Typed
  <2> QED BY <1>1, <2>1, FirstBcastPhases DEF Announce
<1>2. CASE TakeFormula(r)
  <2>1. r \in Others /\ bcast[r] \in Seq(Packed) /\ bcast[r] # << >>
    BY <1>2, RankFacts DEF TakeFormula, Typed
  <2>2. Head(bcast[r]) \in Results
    BY <1>2, <2>1, TailFacts DEF QueueInv, AnnouncedTo, Results, TakeFormula
  <2> QED BY <1>2, <2>2, FirstBcastPhases DEF TakeFormula
<1>3. CASE StartWorkers(r)
  <2>1. ASSUME NEW u \in Ranks, u # r
        PROVE  solvePc'[u] = solvePc[u] /\ workerPc'[u] = workerPc[u]
    BY <1>3, <2>1 DEF StartWorkers, Typed
  <2>2. solvePc'[r] \in {"returned", "workers"} /\ solvePc[r] = "build"
    BY <1>3 DEF StartWorkers, Typed
  <2> QED BY <1>3, <2>1, <2>2 DEF StartWorkers, ends, Phases
<1>4. CASE LaunchSharers(r)
  <2>1. ASSUME NEW u \in Ranks, u # r
        PROVE  solvePc'[u] = solvePc[u] /\ sharerPc'[u] = sharerPc[u]
    BY <1>4, <2>1 DEF LaunchSharers, Typed
  <2>2. /\ solvePc'[r] = "launched" /\ solvePc[r] = "workers"
        /\ sharerPc'[r] \in {"board", "test"} /\ (sharerPc'[r] = "board" => run.board)
    BY <1>4 DEF LaunchSharers, RoundStart, Typed
  <2> QED BY <1>4, <2>1, <2>2, RankFacts DEF LaunchSharers, ends, Phases
<1> QED BY <1>1, <1>2, <1>3, <1>4 DEF SolveStep

(* A step of the sharer of r that moves it within a round.                 *)
LEMMA MovePhases ==
  ASSUME Typed, Phases, NEW r \in Ranks, sharerPc[r] \notin {"off", "stopped"},
         UNCHANGED << run, mainPc, solvePc, workerPc >>,
         \A u \in Ranks : u # r => sharerPc'[u] = sharerPc[u]
                                   /\ mpiWinner'[u] = mpiWinner[u] /\ value'[u] = value[u],
         sharerPc'[r] \in SharerPc \ {"off"},
         sharerPc'[r] \in {"join", "stopped"} => mpiWinner'[r] \in Ranks /\ value'[r] \in Results,
         sharerPc'[r] = "board" => run.board,
         sharerPc'[r] = "recv" => run.strategy = "ring",
         sharerPc'[r] = "bcast" => r # Root
  PROVE  Phases'
<1>1. mainPc[r] \notin {"finalize", "exit"} /\ solvePc[r] = "launched"
  BY DEF Phases
<1> QED BY <1>1, RankFacts DEF Phases

LEMMA SharerPhases ==
  ASSUME Typed, Phases,
         NEW r \in Ranks, SharerStep(r) \/ ExchangeBoard \/ BcastEnd \/ SplitAndGather
  PROVE  Phases'
<1>1. CASE ExchangeBoard
  BY <1>1, RankFacts DEF ExchangeBoard, ends, Phases
<1>2. CASE SplitAndGather
  BY <1>2, RankFacts DEF SplitAndGather, AfterSplit, RoundStart, ends, Phases
<1>3. CASE BcastEnd
  <2>1. Root \in Ranks /\ sharerPc[Root] = "test"
    BY <1>3, RankFacts DEF BcastEnd
  <2>2. sharerPc'[Root] \in {"share", "apply"}
    BY <1>3, <2>1 DEF BcastEnd, AfterBcast, Typed
  <2>3. \A u \in Ranks : u # Root => sharerPc'[u] = sharerPc[u] /\ value'[u] = value[u]
    BY <1>3 DEF BcastEnd, Typed
  <2> QED BY <1>3, <2>1, <2>2, <2>3, MovePhases DEF BcastEnd, ends, SharerPc
<1>4. CASE SendEnd(r)
  <2>1. \A u \in Ranks : u # r => sharerPc'[u] = sharerPc[u]
    BY <1>4 DEF SendEnd, Typed
  <2>2. sharerPc'[r] = "bcast" /\ r # Root /\ sharerPc[r] = "test"
    BY <1>4 DEF SendEnd, Typed
  <2> QED BY <1>4, <2>1, <2>2, MovePhases DEF SendEnd, ends, SharerPc
<1>5. CASE TakeBcast(r)
  <2>1. sharerPc[r] = "bcast" /\ sharerPc'[r] \in {"share", "apply"}
    BY <1>5 DEF TakeBcast, AfterBcast, Typed
  <2>2. \A u \in Ranks : u # r => sharerPc'[u] = sharerPc[u] /\ value'[u] = value[u]
    BY <1>5 DEF TakeBcast, Typed
  <2> QED BY <1>5, <2>1, <2>2, MovePhases DEF TakeBcast, ends, SharerPc
<1>6. CASE ApplyEnd(r)
  <2>1. sharerPc[r] = "apply" /\ sharerPc'[r] = "join" /\ value'[r] = ResultOf(value[r])
        /\ mpiWinner'[r] = WinnerOf(value[r])
    BY <1>6 DEF ApplyEnd, Typed
  <2>2. value'[r] \in Results /\ mpiWinner'[r] \in Ranks
    BY <2>1, PackedFacts DEF Typed
  <2>3. \A u \in Ranks : u # r => sharerPc'[u] = sharerPc[u]
                                  /\ mpiWinner'[u] = mpiWinner[u] /\ value'[u] = value[u]
    BY <1>6 DEF ApplyEnd, Typed
  <2> QED BY <1>6, <2>1, <2>2, <2>3, MovePhases DEF ApplyEnd, SharerPc
<1>7. CASE JoinProcess(r)
  <2>1. sharerPc[r] = "join" /\ sharerPc'[r] = "stopped"
    BY <1>7 DEF JoinProcess, Typed
  <2>2. value[r] \in Results /\ mpiWinner[r] \in Ranks
    BY <2>1 DEF Phases
  <2>3. \A u \in Ranks : u # r => sharerPc'[u] = sharerPc[u]
    BY <1>7 DEF JoinProcess, Typed
  <2> QED BY <1>7, <2>1, <2>2, <2>3, MovePhases DEF JoinProcess, SharerPc
<1>8. CASE SendClauses(r)
  <2>1. sharerPc[r] = "share" /\ sharerPc'[r] = "recv" /\ run.strategy = "ring"
        /\ \A u \in Ranks : u # r => sharerPc'[u] = sharerPc[u]
    BY <1>8 DEF SendClauses, Typed
  <2> QED BY <1>8, <2>1, MovePhases DEF SendClauses, ends, SharerPc
<1>9. CASE ReceiveClauses(r)
  <2>1. sharerPc[r] = "recv" /\ sharerPc'[r] = RoundStart
        /\ \A u \in Ranks : u # r => sharerPc'[u] = sharerPc[u]
    BY <1>9 DEF ReceiveClauses, Typed
  <2> QED BY <1>9, <2>1, MovePhases DEF ReceiveClauses, RoundStart, ends, SharerPc
<1> QED BY <1>1, <1>2, <1>3, <1>4, <1>5, <1>6, <1>7, <1>8, <1>9 DEF SharerStep

LEMMA LocalPhases ==
  ASSUME Typed, Phases, NEW r \in Ranks,
         WorkerWins(r) \/ WorkerStores(r) \/ MainStep(r) \/ (r \in Others /\ Deliver(r))
  PROVE  Phases'
<1>1. CASE WorkerWins(r)
  BY <1>1 DEF WorkerWins, ends, Typed, Phases
<1>2. CASE WorkerStores(r)
  BY <1>2 DEF WorkerStores, Typed, Phases
<1>3. CASE Leave(r) \/ JoinThreads(r) \/ PrintResult(r)
  <2>1. /\ \A u \in Ranks : u # r => mainPc'[u] = mainPc[u]
        /\ mainPc'[r] \in {"finalize", "exit"} =>
             solvePc[r] \in {"launched", "returned"} /\ sharerPc[r] \in {"off", "stopped"}
    BY <1>3 DEF Leave, JoinThreads, PrintResult, Typed, Phases
  <2> QED BY <1>3, <2>1 DEF Leave, JoinThreads, PrintResult, ends, Phases
<1>4. CASE Expire(r)
  <2>1. /\ \A u \in Ranks : u # r => mainPc'[u] = mainPc[u]
        /\ mainPc'[r] \notin {"finalize", "exit"}
    BY <1>4 DEF Expire, Typed
  <2>2. UNCHANGED << run, solvePc, workerPc, sharerPc, value, mpiWinner >>
    BY <1>4 DEF Expire, ends
  <2> QED BY <2>1, <2>2 DEF Phases
<1>5. CASE r \in Others /\ Deliver(r)
  BY <1>5 DEF Deliver, pcs, ends, Phases
<1> QED BY <1>1, <1>2, <1>3, <1>4, <1>5 DEF MainStep

LEMMA PhasesStep == Typed /\ Phases /\ QueueInv /\ [Next]_vars => Phases'
<1>1. Phases /\ UNCHANGED vars => Phases'
  BY DEF vars, pcs, ends, Phases
<1> QED BY <1>1, SolvePhases, SharerPhases, LocalPhases, RankFacts DEF Next, Collective, Finished
-----------------------------------------------------------------------------
(* The broadcasts. *)

(* A step that takes and adds no broadcast and keeps what ranks know of    *)
(* the end.                                                                *)
KeepsEnd ==
  /\ bcast' = bcast
  /\ \A r \in Ranks :
       /\ solvePc'[r] = "start" <=> solvePc[r] = "start"
       /\ solvePc[r] = "returned" => solvePc'[r] = "returned"
       /\ Knows(r)' <=> Knows(r)
       /\ Knows(r) => EndOf(r)' = EndOf(r)
       /\ sharerPc'[r] = "off" => sharerPc[r] = "off"

LEMMA KeepsWaiting ==
  ASSUME KeepsEnd, NEW r \in Ranks
  PROVE  Waiting(r)' = Waiting(r)
BY DEF KeepsEnd, Waiting, Untaken, Bit

LEMMA KeepsQueue ==
  ASSUME QueueInv, KeepsEnd
  PROVE  QueueInv'
<1> SUFFICES ASSUME NEW r \in Others
             PROVE  AnnouncedTo(r)' /\ RoundsOf(r)' /\ EndReaches(r)'
  BY DEF QueueInv
<1>1. AnnouncedTo(r) /\ RoundsOf(r) /\ EndReaches(r) /\ r \in Ranks /\ Root \in Ranks
  BY RankFacts DEF QueueInv
<1>2. AnnouncedTo(r)'
  BY <1>1 DEF AnnouncedTo, KeepsEnd
<1>3. RoundsOf(r)'
  BY <1>1 DEF RoundsOf, KeepsEnd
<1>4. EndReaches(r)'
  BY <1>1, KeepsWaiting DEF EndReaches, KeepsEnd
<1> QED BY <1>2, <1>3, <1>4

(* A step of the sharer of one rank, outside the end.                      *)
LEMMA MoveKeepsEnd ==
  ASSUME Typed, NEW r \in Ranks,
         UNCHANGED << bcast, solvePc, value, mpiWinner >>,
         \A u \in Ranks : u # r => sharerPc'[u] = sharerPc[u],
         Knows(r)' <=> Knows(r), sharerPc[r] # "apply", sharerPc'[r] \notin {"off", "apply"}
  PROVE  KeepsEnd
BY DEF KeepsEnd, Knows, EndOf

LEMMA SharerKeepsEnd ==
  ASSUME Typed, NEW r \in Ranks,
         \/ SendEnd(r) \/ ApplyEnd(r) \/ JoinProcess(r) \/ SendClauses(r) \/ ReceiveClauses(r)
         \/ ExchangeBoard \/ SplitAndGather
  PROVE  KeepsEnd
<1>1. CASE SendEnd(r)
  <2>1. /\ UNCHANGED << bcast, solvePc, value, mpiWinner >>
        /\ sharerPc[r] = "test" /\ sharerPc'[r] = "bcast"
        /\ \A u \in Ranks : u # r => sharerPc'[u] = sharerPc[u]
    BY <1>1 DEF SendEnd, ends, Typed
  <2> QED BY <2>1, MoveKeepsEnd DEF Knows
<1>2. CASE ApplyEnd(r)
  <2>1. /\ UNCHANGED << bcast, solvePc >> /\ sharerPc[r] = "apply" /\ sharerPc'[r] = "join"
        /\ << mpiWinner'[r], value'[r] >> = EndIn(value[r])
        /\ \A u \in Ranks : u # r => /\ sharerPc'[u] = sharerPc[u] /\ value'[u] = value[u]
                                     /\ mpiWinner'[u] = mpiWinner[u]
    BY <1>2 DEF ApplyEnd, EndIn, Typed
  <2> QED BY <2>1 DEF KeepsEnd, Knows, EndOf
<1>3. CASE JoinProcess(r)
  <2>1. /\ UNCHANGED << bcast, solvePc, value, mpiWinner >>
        /\ sharerPc[r] = "join" /\ sharerPc'[r] = "stopped"
        /\ \A u \in Ranks : u # r => sharerPc'[u] = sharerPc[u]
    BY <1>3 DEF JoinProcess, network, Typed
  <2> QED BY <2>1, MoveKeepsEnd DEF Knows
<1>4. CASE SendClauses(r)
  <2>1. /\ UNCHANGED << bcast, solvePc, value, mpiWinner >>
        /\ sharerPc[r] = "share" /\ sharerPc'[r] = "recv"
        /\ \A u \in Ranks : u # r => sharerPc'[u] = sharerPc[u]
    BY <1>4 DEF SendClauses, ends, Typed
  <2> QED BY <2>1, MoveKeepsEnd DEF Knows
<1>5. CASE ReceiveClauses(r)
  <2>1. /\ UNCHANGED << bcast, solvePc, value, mpiWinner >>
        /\ sharerPc[r] = "recv" /\ sharerPc'[r] \in {"board", "test"}
        /\ \A u \in Ranks : u # r => sharerPc'[u] = sharerPc[u]
    BY <1>5 DEF ReceiveClauses, RoundStart, ends, Typed
  <2> QED BY <2>1, MoveKeepsEnd DEF Knows
<1>6. CASE ExchangeBoard
  BY <1>6 DEF ExchangeBoard, ends, network, KeepsEnd, Knows, EndOf
<1>7. CASE SplitAndGather
  BY <1>7 DEF SplitAndGather, AfterSplit, RoundStart, ends, network, KeepsEnd, Knows, EndOf
<1> QED BY <1>1, <1>2, <1>3, <1>4, <1>5, <1>6, <1>7

LEMMA LocalKeepsEnd ==
  ASSUME Typed, Phases, NEW r \in Ranks,
         \/ StartWorkers(r) \/ LaunchSharers(r)
         \/ WorkerWins(r) \/ WorkerStores(r) \/ MainStep(r) \/ (r \in Others /\ Deliver(r))
  PROVE  KeepsEnd
<1>1. CASE StartWorkers(r)
  <2>1. /\ UNCHANGED << bcast, sharerPc, value, mpiWinner >>
        /\ solvePc[r] = "build" /\ solvePc'[r] \in {"returned", "workers"}
        /\ \A u \in Ranks : u # r => solvePc'[u] = solvePc[u]
    BY <1>1 DEF StartWorkers, ends, network, Typed
  <2> QED BY <2>1 DEF KeepsEnd, Knows, EndOf
<1>2. CASE LaunchSharers(r)
  <2>1. /\ UNCHANGED << bcast, value, mpiWinner >>
        /\ solvePc[r] = "workers" /\ solvePc'[r] = "launched"
        /\ sharerPc[r] = "off" /\ sharerPc'[r] \in {"board", "test"}
        /\ \A u \in Ranks : u # r => solvePc'[u] = solvePc[u] /\ sharerPc'[u] = sharerPc[u]
    BY <1>2 DEF LaunchSharers, RoundStart, ends, network, Typed, Phases
  <2> QED BY <2>1 DEF KeepsEnd, Knows, EndOf
<1>3. CASE WorkerWins(r) \/ WorkerStores(r) \/ MainStep(r) \/ (r \in Others /\ Deliver(r))
  <2>1. UNCHANGED << bcast, solvePc, sharerPc, value, mpiWinner >>
    BY <1>3 DEF WorkerWins, WorkerStores, MainStep, Leave, Expire, JoinThreads, PrintResult,
                Deliver, pcs, ends, network
  <2> QED BY <2>1 DEF KeepsEnd, Knows, EndOf
<1> QED BY <1>1, <1>2, <1>3

(* The root announces the formula, or the end that it met while parsing.   *)
LEMMA AnnounceQueue ==
  ASSUME Typed, Phases, QueueInv, AnswerInv, Announce
  PROVE  /\ QueueInv'
         /\ \A r \in Ranks : Waiting(r)' = 0 /\ Waiting(r) = 0
         /\ UNCHANGED sharerPc
<1>1. /\ Root \in Ranks /\ solvePc[Root] = "start" /\ sharerPc[Root] = "off"
      /\ sharerPc' = sharerPc /\ workerPc[Root] = "off"
  BY RankFacts DEF Announce, Phases
<1>2. finalResult[Root] \in {UNKNOWN, TIMEOUT}
  BY <1>1 DEF AnswerInv, Answered, Typed, Wrote, Results
<1>3. /\ solvePc'[Root] \in {"build", "returned"}
      /\ finalResult[Root] = TIMEOUT => solvePc'[Root] = "returned"
      /\ \A r \in Ranks : r # Root => solvePc'[r] = solvePc[r]
  BY <1>1, <1>2 DEF Announce, AfterFirstBcast, EndAtStart, Typed, UNKNOWN, TIMEOUT
<1>4. ASSUME NEW r \in Others
      PROVE  /\ solvePc[r] = "start" /\ solvePc'[r] = "start" /\ sharerPc[r] = "off"
             /\ bcast[r] = << >> /\ Len(bcast[r]) = 0 /\ r # Root
             /\ Len(bcast'[r]) = 1 /\ bcast'[r] # << >> /\ bcast'[r][1] = finalResult[Root]
  <2>1. r \in Ranks /\ r # Root /\ solvePc[r] = "start" /\ bcast[r] = << >>
    BY <1>1, RankFacts DEF QueueInv, AnnouncedTo
  <2>2. bcast'[r] = Append(<< >>, finalResult[Root]) /\ finalResult[Root] \in Results
    BY <1>1, <2>1 DEF Announce, Typed
  <2>3. bcast'[r] = << finalResult[Root] >>
    BY <2>2
  <2> QED BY <1>3, <2>1, <2>3 DEF Phases
<1>5. \A r \in Ranks : Waiting(r)' = 0 /\ Waiting(r) = 0
  <2>1. ASSUME NEW r \in Others PROVE Waiting(r)' = 0 /\ Waiting(r) = 0
    <3>1. bcast'[r] \in Seq(Results) /\ bcast[r] \in Seq(Packed)
      BY <1>1, <1>4 DEF Announce, Typed
    <3>2. Untaken(solvePc[r], bcast[r]) = 0
      BY <1>4, <3>1, UntakenFacts
    <3>3. Untaken(solvePc'[r], bcast'[r]) = Len(bcast'[r]) - 1
      BY <1>4, <3>1, UntakenFacts
    <3> QED BY <1>4, <3>2, <3>3 DEF Waiting
  <2> QED BY <2>1, RankFacts DEF Waiting
<1>6. ~ Knows(Root)' /\ \A r \in Others : ~ Knows(r)'
  BY <1>1, <1>4 DEF Knows
<1>7. ASSUME NEW r \in Others PROVE AnnouncedTo(r)' /\ RoundsOf(r)' /\ EndReaches(r)'
  <2>1. AnnouncedTo(r)'
    BY <1>2, <1>3, <1>4 DEF AnnouncedTo
  <2>2. RoundsOf(r)'
    BY <1>4 DEF RoundsOf
  <2>3. EndReaches(r)'
    BY <1>5, <1>6, RankFacts DEF EndReaches
  <2> QED BY <2>1, <2>2, <2>3
<1> QED BY <1>1, <1>5, <1>7 DEF QueueInv

LEMMA TakeFormulaQueue ==
  ASSUME Typed, Phases, QueueInv, NEW r \in Ranks, TakeFormula(r)
  PROVE  /\ QueueInv'
         /\ \A u \in Ranks : Waiting(u)' = Waiting(u)
         /\ UNCHANGED sharerPc
<1>1. /\ r \in Others /\ r # Root /\ solvePc[r] = "start" /\ bcast[r] # << >>
      /\ bcast[r] \in Seq(Packed) /\ sharerPc' = sharerPc /\ sharerPc[r] = "off"
  BY RankFacts DEF TakeFormula, Typed, Phases
<1>2. /\ Len(bcast[r]) \in Nat /\ Len(bcast[r]) > 0
      /\ bcast'[r] = Tail(bcast[r]) /\ Len(bcast'[r]) = Len(bcast[r]) - 1
      /\ \A i \in 1 .. Len(bcast'[r]) : bcast'[r][i] = bcast[r][i + 1]
      /\ bcast'[r] \in Seq(Packed) /\ Head(bcast[r]) = bcast[r][1]
  BY <1>1, TailFacts DEF TakeFormula, Typed
<1>3. bcast[r][1] \in {UNKNOWN, TIMEOUT} /\ solvePc[Root] # "start"
  BY <1>1 DEF QueueInv, AnnouncedTo
<1>4. /\ solvePc'[r] \in {"build", "returned"}
      /\ \A u \in Ranks : u # r => solvePc'[u] = solvePc[u] /\ mpiWinner'[u] = mpiWinner[u]
      /\ \A u \in Others : u # r => bcast'[u] = bcast[u]
      /\ value' = value
  BY <1>1, <1>2 DEF TakeFormula, AfterFirstBcast, EndAtStart, ends, Typed
<1>5. /\ Root \in Ranks /\ (Knows(Root)' <=> Knows(Root)) /\ EndOf(Root)' = EndOf(Root)
      /\ solvePc'[Root] = solvePc[Root] /\ ~ Knows(r) /\ ~ Knows(r)'
      /\ \A u \in Others : u # r => (Knows(u)' <=> Knows(u)) /\ EndOf(u)' = EndOf(u)
  BY <1>1, <1>4, RankFacts DEF Knows, EndOf
<1>6. \A u \in Ranks : u # r => Waiting(u)' = Waiting(u)
  BY <1>4, RankFacts DEF Waiting
<1>7. Waiting(r)' = Waiting(r) /\ Waiting(r) = Len(bcast[r]) - 1
  <2>1. Untaken(solvePc[r], bcast[r]) = Len(bcast[r]) - 1
    BY <1>1, UntakenFacts
  <2>2. Untaken(solvePc'[r], bcast'[r]) = Len(bcast'[r])
    BY <1>2, <1>4, UntakenFacts
  <2> QED BY <1>1, <1>2, <2>1, <2>2 DEF Waiting
<1>8. ASSUME NEW u \in Others, u # r PROVE AnnouncedTo(u)' /\ RoundsOf(u)' /\ EndReaches(u)'
  <2>1. AnnouncedTo(u) /\ RoundsOf(u) /\ EndReaches(u) /\ u \in Ranks
        /\ bcast'[u] = bcast[u] /\ solvePc'[u] = solvePc[u]
    BY <1>4, <1>8, RankFacts DEF QueueInv
  <2>2. AnnouncedTo(u)'
    BY <1>5, <2>1 DEF AnnouncedTo
  <2>3. RoundsOf(u)'
    BY <1>5, <2>1 DEF RoundsOf
  <2>4. EndReaches(u)'
    BY <1>1, <1>5, <1>6, <1>8, <2>1 DEF EndReaches
  <2> QED BY <2>2, <2>3, <2>4
<1>9. AnnouncedTo(r)' /\ RoundsOf(r)' /\ EndReaches(r)'
  <2>1. AnnouncedTo(r) /\ RoundsOf(r) /\ EndReaches(r)
    BY <1>1 DEF QueueInv
  <2>2. AnnouncedTo(r)'
    BY <1>3, <1>4, <1>5 DEF AnnouncedTo
  <2>3. RoundsOf(r)'
    <3> SUFFICES ASSUME NEW i \in 1 .. Len(bcast'[r])
                 PROVE  /\ bcast'[r][i] # 0 <=> (Knows(Root)' /\ i = Len(bcast'[r]))
                        /\ bcast'[r][i] # 0 => EndIn(bcast'[r][i]) = EndOf(Root)'
      BY DEF RoundsOf, EndIn
    <3>1. i + 1 \in 1 .. Len(bcast[r]) /\ i + 1 > 1
      BY <1>2
    <3>2. /\ bcast[r][i + 1] # 0 <=> (Knows(Root) /\ i + 1 = Len(bcast[r]))
          /\ bcast[r][i + 1] # 0 => EndIn(bcast[r][i + 1]) = EndOf(Root)
      BY <2>1, <3>1 DEF RoundsOf
    <3> QED BY <1>2, <1>5, <3>2
  <2>4. EndReaches(r)'
    BY <1>1, <1>5, <1>7, <2>1 DEF EndReaches
  <2> QED BY <2>2, <2>3, <2>4
<1> QED BY <1>1, <1>6, <1>7, <1>8, <1>9 DEF QueueInv

(* The root ends a round, or the run.                                      *)
LEMMA BcastEndQueue ==
  ASSUME Typed, Phases, QueueInv, BcastEnd
  PROVE  /\ QueueInv'
         /\ \A r \in Others : Waiting(r)' = Waiting(r) + 1 /\ ~Knows(r) /\ ~Knows(r)'
         /\ ~Knows(Root) /\ (Knows(Root)' <=> RootVerdict # 0)
         /\ Knows(Root)' => EndOf(Root)' = EndIn(RootVerdict)
<1>1. /\ Root \in Ranks /\ sharerPc[Root] = "test" /\ ~ Knows(Root)
      /\ solvePc[Root] = "launched" /\ solvePc' = solvePc
      /\ sharerPc'[Root] = AfterBcast(RootVerdict) /\ value'[Root] = RootVerdict
      /\ \A r \in Ranks : r # Root => sharerPc'[r] = sharerPc[r]
  BY RankFacts DEF BcastEnd, Knows, Typed, Phases
<1>2. /\ Knows(Root)' <=> RootVerdict # 0
      /\ Knows(Root)' => EndOf(Root)' = EndIn(RootVerdict)
  BY <1>1 DEF Knows, AfterBcast, EndOf, EndIn
<1>3. ASSUME NEW r \in Others
      PROVE  /\ r \in Ranks /\ r # Root
             /\ AnnouncedTo(r) /\ RoundsOf(r) /\ EndReaches(r) /\ ~ Knows(r) /\ ~ Knows(r)'
             /\ bcast'[r] # << >> /\ Len(bcast[r]) \in Nat /\ Len(bcast'[r]) = Len(bcast[r]) + 1
             /\ bcast'[r][Len(bcast[r]) + 1] = RootVerdict
             /\ \A i \in 1 .. Len(bcast[r]) : bcast'[r][i] = bcast[r][i]
  <2>1. r \in Ranks /\ r # Root /\ AnnouncedTo(r) /\ RoundsOf(r) /\ EndReaches(r)
    BY RankFacts DEF QueueInv
  <2>2. ~ Knows(r) /\ ~ Knows(r)'
    BY <1>1, <2>1 DEF EndReaches, Knows
  <2>3. bcast[r] \in Seq(Packed) /\ bcast'[r] = Append(bcast[r], RootVerdict)
    BY DEF BcastEnd, Typed
  <2>4. RootVerdict \in Packed
    BY VerdictType
  <2> QED BY <2>1, <2>2, <2>3, <2>4, AppendFacts
<1>4. ASSUME NEW r \in Others PROVE Waiting(r)' = Waiting(r) + 1
  <2>1. Len(bcast[r]) # 0 <=> bcast[r] # << >>
    BY EmptyFacts DEF Typed
  <2>2. solvePc[r] = "start" => bcast[r] # << >>
    BY <1>1, <1>3 DEF AnnouncedTo
  <2>3. bcast[r] \in Seq(Packed) /\ bcast'[r] \in Seq(Packed)
    BY VerdictType, AppendFacts DEF BcastEnd, Typed
  <2>4. CASE solvePc[r] = "start"
    <3>1. Untaken(solvePc[r], bcast[r]) = Len(bcast[r]) - 1
      BY <2>2, <2>3, <2>4, UntakenFacts
    <3>2. Untaken(solvePc'[r], bcast'[r]) = Len(bcast'[r]) - 1
      BY <1>1, <1>3, <2>3, <2>4, UntakenFacts
    <3> QED BY <1>3, <3>1, <3>2 DEF Waiting
  <2>5. CASE solvePc[r] # "start"
    <3>1. Untaken(solvePc[r], bcast[r]) = Len(bcast[r])
      BY <2>3, <2>5, UntakenFacts
    <3>2. Untaken(solvePc'[r], bcast'[r]) = Len(bcast'[r])
      BY <1>1, <2>3, <2>5, UntakenFacts
    <3> QED BY <1>3, <3>1, <3>2 DEF Waiting
  <2> QED BY <2>4, <2>5
<1>5. ASSUME NEW r \in Others PROVE AnnouncedTo(r)' /\ RoundsOf(r)' /\ EndReaches(r)'
  <2>1. AnnouncedTo(r)'
    <3>1. CASE solvePc[r] = "start"
      <4>1. bcast[r] # << >> /\ bcast[r] \in Seq(Packed)
        BY <1>1, <1>3, <3>1 DEF AnnouncedTo, Typed
      <4>2. 1 \in 1 .. Len(bcast[r])
        BY <4>1, EmptyFacts
      <4>3. bcast'[r][1] = bcast[r][1]
        BY <1>3, <4>2
      <4> QED BY <1>1, <1>3, <3>1, <4>3 DEF AnnouncedTo
    <3>2. CASE solvePc[r] # "start"
      BY <1>1, <3>2 DEF AnnouncedTo
    <3> QED BY <3>1, <3>2
  <2>2. RoundsOf(r)'
    <3> SUFFICES ASSUME NEW i \in 1 .. Len(bcast'[r]), i > 1 \/ solvePc'[r] # "start"
                 PROVE  /\ bcast'[r][i] # 0 <=> (Knows(Root)' /\ i = Len(bcast'[r]))
                        /\ bcast'[r][i] # 0 => EndIn(bcast'[r][i]) = EndOf(Root)'
      BY DEF RoundsOf, EndIn
    <3>1. CASE i \in 1 .. Len(bcast[r])
      <4>1. bcast'[r][i] = bcast[r][i] /\ i # Len(bcast'[r])
        BY <1>3, <3>1
      <4>2. bcast[r][i] = 0
        BY <1>1, <1>3, <3>1 DEF RoundsOf
      <4> QED BY <4>1, <4>2
    <3>2. CASE i = Len(bcast[r]) + 1
      BY <1>2, <1>3, <3>2
    <3> QED BY <1>3, <3>1, <3>2
  <2>3. EndReaches(r)'
    <3>1. Waiting(r)' > 0
      <4>1. bcast[r] \in Seq(Packed) /\ (Len(bcast[r]) # 0 <=> bcast[r] # << >>)
        BY EmptyFacts DEF Typed
      <4>2. solvePc[r] = "start" => Len(bcast[r]) # 0
        BY <1>1, <1>3, <4>1 DEF AnnouncedTo
      <4>3. Waiting(r) >= 0 /\ Waiting(r) \in Int
        BY <1>3, <4>1, <4>2, UntakenFacts DEF Waiting
      <4> QED BY <1>4, <4>3
    <3>2. sharerPc'[Root] # "off"
      BY <1>1 DEF AfterBcast
    <3> QED BY <1>3, <3>1, <3>2 DEF EndReaches
  <2> QED BY <2>1, <2>2, <2>3
<1> QED BY <1>1, <1>2, <1>3, <1>4, <1>5 DEF QueueInv

(* A rank takes a broadcast: the end is the last one.                      *)
LEMMA TakeBcastQueue ==
  ASSUME Typed, Phases, QueueInv, NEW r \in Ranks, TakeBcast(r)
  PROVE  /\ QueueInv'
         /\ r \in Others /\ sharerPc[r] = "bcast" /\ ~Knows(r)
         /\ Waiting(r)' = Waiting(r) - 1 /\ Waiting(r) >= 1
         /\ \A u \in Ranks : u # r => Waiting(u)' = Waiting(u) /\ sharerPc'[u] = sharerPc[u]
         /\ sharerPc'[r] = IF Knows(Root) /\ Waiting(r) = 1 THEN "apply" ELSE "share"
         /\ Knows(Root)' <=> Knows(Root)
         /\ EndOf(Root)' = EndOf(Root)
<1>1. /\ r \in Others /\ r # Root /\ Root \in Ranks /\ sharerPc[r] = "bcast" /\ bcast[r] # << >>
      /\ bcast[r] \in Seq(Packed) /\ solvePc[r] = "launched" /\ ~ Knows(r)
      /\ solvePc' = solvePc /\ mpiWinner' = mpiWinner
      /\ sharerPc'[r] = AfterBcast(Head(bcast[r])) /\ value'[r] = Head(bcast[r])
  BY RankFacts DEF TakeBcast, ends, Typed, Phases, Knows
<1>2. /\ Len(bcast[r]) \in Nat /\ Len(bcast[r]) > 0
      /\ bcast'[r] = Tail(bcast[r]) /\ Len(bcast'[r]) = Len(bcast[r]) - 1
      /\ \A i \in 1 .. Len(bcast'[r]) : bcast'[r][i] = bcast[r][i + 1]
      /\ bcast'[r] \in Seq(Packed) /\ Head(bcast[r]) = bcast[r][1]
  BY <1>1, TailFacts DEF TakeBcast, Typed
<1>3. /\ \A u \in Ranks : u # r => sharerPc'[u] = sharerPc[u] /\ value'[u] = value[u]
      /\ \A u \in Others : u # r => bcast'[u] = bcast[u]
  BY DEF TakeBcast, Typed
<1>4. /\ Knows(Root)' <=> Knows(Root)
      /\ EndOf(Root)' = EndOf(Root)
      /\ \A u \in Others : u # r => (Knows(u)' <=> Knows(u)) /\ EndOf(u)' = EndOf(u)
  BY <1>1, <1>3, RankFacts DEF Knows, EndOf
<1>5. Waiting(r) = Len(bcast[r]) /\ Waiting(r)' = Len(bcast'[r])
  BY <1>1, <1>2, UntakenFacts DEF Waiting
<1>6. \A u \in Ranks : u # r => Waiting(u)' = Waiting(u)
  BY <1>1, <1>3, RankFacts DEF Waiting
<1>7. AnnouncedTo(r) /\ RoundsOf(r) /\ EndReaches(r)
  BY <1>1 DEF QueueInv
<1>8. /\ bcast[r][1] # 0 <=> (Knows(Root) /\ Len(bcast[r]) = 1)
      /\ bcast[r][1] # 0 => EndIn(bcast[r][1]) = EndOf(Root)
  <2>1. 1 \in 1 .. Len(bcast[r]) /\ solvePc[r] # "start"
    BY <1>1, <1>2
  <2>2. /\ bcast[r][1] # 0 <=> (Knows(Root) /\ 1 = Len(bcast[r]))
        /\ bcast[r][1] # 0 => EndIn(bcast[r][1]) = EndOf(Root)
    BY <1>7, <2>1 DEF RoundsOf
  <2> QED BY <2>2
<1>9. sharerPc'[r] = IF Knows(Root) /\ Waiting(r) = 1 THEN "apply" ELSE "share"
  BY <1>1, <1>2, <1>5, <1>8 DEF AfterBcast
<1>10. ASSUME NEW u \in Others, u # r PROVE AnnouncedTo(u)' /\ RoundsOf(u)' /\ EndReaches(u)'
  <2>1. AnnouncedTo(u) /\ RoundsOf(u) /\ EndReaches(u) /\ u \in Ranks
        /\ bcast'[u] = bcast[u]
    BY <1>3, <1>10, RankFacts DEF QueueInv
  <2>2. AnnouncedTo(u)'
    BY <1>1, <2>1 DEF AnnouncedTo
  <2>3. RoundsOf(u)'
    BY <1>1, <1>4, <2>1 DEF RoundsOf
  <2>4. EndReaches(u)'
    BY <1>1, <1>3, <1>4, <1>6, <1>10, <2>1 DEF EndReaches
  <2> QED BY <2>2, <2>3, <2>4
<1>11. AnnouncedTo(r)' /\ RoundsOf(r)' /\ EndReaches(r)'
  <2>1. AnnouncedTo(r)'
    BY <1>1, <1>7 DEF AnnouncedTo
  <2>2. RoundsOf(r)'
    <3> SUFFICES ASSUME NEW i \in 1 .. Len(bcast'[r])
                 PROVE  /\ bcast'[r][i] # 0 <=> (Knows(Root)' /\ i = Len(bcast'[r]))
                        /\ bcast'[r][i] # 0 => EndIn(bcast'[r][i]) = EndOf(Root)'
      BY DEF RoundsOf, EndIn
    <3>1. i + 1 \in 1 .. Len(bcast[r])
      BY <1>2
    <3>2. /\ bcast[r][i + 1] # 0 <=> (Knows(Root) /\ i + 1 = Len(bcast[r]))
          /\ bcast[r][i + 1] # 0 => EndIn(bcast[r][i + 1]) = EndOf(Root)
      BY <1>1, <1>7, <3>1 DEF RoundsOf
    <3> QED BY <1>2, <1>4, <3>2
  <2>3. EndReaches(r)'
    <3>1. sharerPc[Root] # "off" /\ sharerPc'[Root] = sharerPc[Root]
      BY <1>1, <1>2, <1>3, <1>5, <1>7 DEF EndReaches
    <3>2. CASE Knows(Root) /\ Waiting(r) = 1
      <4>1. sharerPc'[r] = "apply" /\ Len(bcast'[r]) = 0 /\ EndIn(value'[r]) = EndOf(Root)
        BY <1>1, <1>2, <1>5, <1>8, <1>9, <3>2
      <4>2. bcast'[r] = << >>
        BY <1>2, <4>1, EmptyFacts
      <4> QED BY <1>4, <3>1, <3>2, <4>1, <4>2 DEF EndReaches, Knows, EndOf, EndIn
    <3>3. CASE ~ (Knows(Root) /\ Waiting(r) = 1)
      <4>1. ~ Knows(r)' /\ (Knows(Root) => Waiting(r)' > 0)
        <5>1. sharerPc'[r] = "share" /\ (Knows(Root) => Len(bcast[r]) # 1)
          BY <1>5, <1>9, <3>3
        <5>2. ~ Knows(r)'
          BY <5>1 DEF Knows
        <5>3. ASSUME Knows(Root) PROVE Waiting(r)' > 0
          <6>1. Len(bcast[r]) # 1 /\ Len(bcast[r]) \in Nat /\ Len(bcast[r]) > 0
            BY <1>2, <5>1, <5>3
          <6>2. Waiting(r)' = Len(bcast[r]) - 1
            BY <1>2, <1>5
          <6>3. \A n \in Nat : n # 1 /\ n > 0 => n - 1 > 0
            OBVIOUS
          <6>4. Len(bcast[r]) - 1 > 0
            BY <6>1, <6>3
          <6> QED BY <6>2, <6>4
        <5> QED BY <5>2, <5>3
      <4> QED BY <1>4, <3>1, <4>1 DEF EndReaches
    <3> QED BY <3>2, <3>3
  <2> QED BY <2>1, <2>2, <2>3
<1> QED BY <1>1, <1>2, <1>3, <1>4, <1>5, <1>6, <1>9, <1>10, <1>11 DEF QueueInv
-----------------------------------------------------------------------------
(* The pace of the ranks. *)

LEMMA KeepsLag ==
  ASSUME KeepsEnd, NEW r \in Ranks, sharerPc'[r] = "share" <=> sharerPc[r] = "share"
  PROVE  Lag(r)' = Lag(r)
<1>1. /\ Waiting(r)' = Waiting(r)
      /\ Knows(r)' <=> Knows(r)
      /\ Knows(Root)' <=> Knows(Root)
  BY KeepsWaiting, RankFacts DEF KeepsEnd
<1> QED BY <1>1 DEF Lag, Bit

LEMMA BoardsKept ==
  ASSUME BoardsMatch, run' = run,
         run.board =>
           /\ \A r \in Ranks :
                /\ Waiting(r)' = Waiting(r)
                /\ sharerPc'[r] \in {"test", "bcast"} <=> sharerPc[r] \in {"test", "bcast"}
           /\ sharerPc'[Root] = "test" <=> sharerPc[Root] = "test"
  PROVE  BoardsMatch'
BY DEF BoardsMatch, Bit

(* Only the distances between the ranks matter.                            *)
LEMMA LagsShift ==
  ASSUME Typed, GathersMatch, MailMatch, UNCHANGED << run, mail >>, NEW d \in Int,
         \A r \in Ranks : /\ Lag(r)' = Lag(r) + d
                          /\ sharerPc'[r] = "recv" <=> sharerPc[r] = "recv"
  PROVE  GathersMatch' /\ MailMatch'
<1>1. \A r \in Ranks : Lag(r) \in Int
  BY CountTypes
<1>2. GathersMatch'
  BY RankFacts DEF GathersMatch
<1>3. ASSUME NEW r \in Ranks, NEW s \in Ranks
      PROVE  Lag(r)' - Lag(s)' = Lag(r) - Lag(s)
  BY <1>1
<1>4. ASSUME NEW r \in Ranks PROVE Bit(sharerPc'[r] = "recv") = Bit(sharerPc[r] = "recv")
  BY DEF Bit
<1>5. MailMatch'
  <2> SUFFICES ASSUME NEW r \in Ranks, NEW s \in Ranks
               PROVE  mail'[<< s, r >>] =
                        IF s \in Neighbours(r) THEN Lag(r)' - Lag(s)' + Bit(sharerPc'[r] = "recv")
                        ELSE 0
    BY DEF MailMatch, Neighbours, Bit
  <2> QED BY <1>3, <1>4 DEF MailMatch
<1> QED BY <1>2, <1>5

LEMMA LagsKept ==
  ASSUME Typed, GathersMatch, MailMatch, UNCHANGED << run, mail >>,
         \A r \in Ranks : /\ Lag(r)' = Lag(r)
                          /\ sharerPc'[r] = "recv" <=> sharerPc[r] = "recv"
  PROVE  GathersMatch' /\ MailMatch'
<1>1. \A r \in Ranks : Lag(r)' = Lag(r) + 0
  BY CountTypes
<1> QED BY <1>1, LagsShift

(* The steps that exchange nothing.                                        *)
LEMMA LocalPace ==
  ASSUME Typed, Phases, BoardsMatch, GathersMatch, MailMatch, NEW r \in Ranks,
         \/ StartWorkers(r) \/ LaunchSharers(r)
         \/ WorkerWins(r) \/ WorkerStores(r) \/ MainStep(r) \/ (r \in Others /\ Deliver(r))
         \/ SendEnd(r) \/ ApplyEnd(r) \/ JoinProcess(r)
  PROVE  BoardsMatch' /\ GathersMatch' /\ MailMatch'
<1>1. KeepsEnd
  BY LocalKeepsEnd, SharerKeepsEnd
<1>2. UNCHANGED << run, mail >>
  BY DEF StartWorkers, LaunchSharers, WorkerWins, WorkerStores, MainStep, Leave, Expire,
         JoinThreads, PrintResult, Deliver, SendEnd, ApplyEnd, JoinProcess, network
<1>3. /\ \A u \in Ranks :
           /\ sharerPc'[u] = "recv" <=> sharerPc[u] = "recv"
           /\ sharerPc'[u] = "share" <=> sharerPc[u] = "share"
           /\ run.board => (sharerPc'[u] \in {"test", "bcast"} <=> sharerPc[u] \in {"test", "bcast"})
      /\ run.board => (sharerPc'[Root] = "test" <=> sharerPc[Root] = "test")
  <2>1. CASE LaunchSharers(r)
    <3>1. /\ sharerPc[r] = "off" /\ sharerPc' = [sharerPc EXCEPT ![r] = RoundStart]
          /\ sharerPc'[r] \in {"board", "test"} /\ (run.board => sharerPc'[r] = "board")
      BY <2>1 DEF LaunchSharers, RoundStart, Typed, Phases
    <3> QED BY <3>1, RankFacts DEF Typed
  <2>2. CASE SendEnd(r)
    <3>1. /\ r # Root /\ sharerPc[r] = "test" /\ sharerPc' = [sharerPc EXCEPT ![r] = "bcast"]
      BY <2>2 DEF SendEnd
    <3> QED BY <3>1, RankFacts DEF Typed
  <2>3. CASE ApplyEnd(r)
    <3>1. /\ sharerPc[r] = "apply" /\ sharerPc' = [sharerPc EXCEPT ![r] = "join"]
      BY <2>3 DEF ApplyEnd
    <3> QED BY <3>1, RankFacts DEF Typed
  <2>4. CASE JoinProcess(r)
    <3>1. /\ sharerPc[r] = "join" /\ sharerPc' = [sharerPc EXCEPT ![r] = "stopped"]
      BY <2>4 DEF JoinProcess
    <3> QED BY <3>1, RankFacts DEF Typed
  <2>5. CASE \/ StartWorkers(r) \/ WorkerWins(r) \/ WorkerStores(r) \/ MainStep(r)
             \/ (r \in Others /\ Deliver(r))
    <3>1. sharerPc' = sharerPc
      BY <2>5 DEF StartWorkers, WorkerWins, WorkerStores, MainStep, Leave, Expire, JoinThreads,
                  PrintResult, Deliver, pcs
    <3> QED BY <3>1
  <2> QED BY <2>1, <2>2, <2>3, <2>4, <2>5
<1>4. \A u \in Ranks : Waiting(u)' = Waiting(u) /\ Lag(u)' = Lag(u)
  BY <1>1, <1>3, KeepsWaiting, KeepsLag
<1>5. BoardsMatch'
  BY <1>2, <1>3, <1>4, BoardsKept
<1> QED BY <1>2, <1>3, <1>4, <1>5, LagsKept

LEMMA FormulaPace ==
  ASSUME Typed, Phases, QueueInv, AnswerInv, BoardsMatch, GathersMatch, MailMatch,
         NEW r \in Ranks, Announce \/ TakeFormula(r)
  PROVE  BoardsMatch' /\ GathersMatch' /\ MailMatch'
<1>1. UNCHANGED << run, mail, sharerPc >>
  BY DEF Announce, TakeFormula
<1>2. \A u \in Ranks : Waiting(u)' = Waiting(u)
  BY AnnounceQueue, TakeFormulaQueue
<1>3. \A u \in Ranks : Lag(u)' = Lag(u)
  BY <1>1, <1>2, RankFacts DEF Lag, Knows
<1> QED BY <1>1, <1>2, <1>3, BoardsKept, LagsKept

LEMMA ExchangeBoardPace ==
  ASSUME Typed, Phases, BoardsMatch, GathersMatch, MailMatch, ExchangeBoard
  PROVE  BoardsMatch' /\ GathersMatch' /\ MailMatch'
<1>1. KeepsEnd
  BY SharerKeepsEnd, RankFacts
<1>2. /\ UNCHANGED << run, mail >>
      /\ \A r \in Ranks : sharerPc[r] = "board" /\ sharerPc'[r] = "test"
  BY DEF ExchangeBoard, network
<1>3. \A r \in Ranks : Waiting(r)' = Waiting(r) /\ Waiting(r) \in Int /\ Lag(r)' = Lag(r)
  BY <1>1, <1>2, KeepsWaiting, KeepsLag, CountTypes
<1>4. ASSUME run.board, NEW r \in Ranks
      PROVE  Waiting(r)' + Bit(sharerPc'[Root] = "test") = Bit(sharerPc'[r] \in {"test", "bcast"})
  <2>1. Waiting(r) + Bit(sharerPc[Root] = "test") = Bit(sharerPc[r] \in {"test", "bcast"})
    BY <1>4 DEF BoardsMatch
  <2> QED BY <1>2, <1>3, <2>1, RankFacts DEF Bit
<1>5. BoardsMatch'
  BY <1>2, <1>4 DEF BoardsMatch, Bit
<1> QED BY <1>2, <1>3, <1>5, LagsKept

LEMMA BcastEndPace ==
  ASSUME Typed, Phases, QueueInv, BoardsMatch, GathersMatch, MailMatch, BcastEnd
  PROVE  BoardsMatch' /\ GathersMatch' /\ MailMatch'
<1>1. /\ UNCHANGED << run, mail >> /\ Root \in Ranks /\ sharerPc[Root] = "test"
      /\ sharerPc'[Root] = AfterBcast(RootVerdict)
      /\ \A r \in Others : sharerPc'[r] = sharerPc[r]
  BY RankFacts DEF BcastEnd, Typed
<1>2. /\ \A r \in Others : Waiting(r)' = Waiting(r) + 1 /\ ~Knows(r) /\ ~Knows(r)'
      /\ ~Knows(Root) /\ (Knows(Root)' <=> RootVerdict # 0)
  BY BcastEndQueue
<1>3. /\ Waiting(Root) = 0 /\ Waiting(Root)' = 0
      /\ \A r \in Ranks : Waiting(r) \in Int /\ Lag(r) \in Int
  BY CountTypes DEF Waiting
<1>4. ASSUME run.board, NEW r \in Ranks
      PROVE  Waiting(r)' + Bit(sharerPc'[Root] = "test") = Bit(sharerPc'[r] \in {"test", "bcast"})
  <2>1. Waiting(r) + Bit(sharerPc[Root] = "test") = Bit(sharerPc[r] \in {"test", "bcast"})
    BY <1>4 DEF BoardsMatch
  <2>2. sharerPc'[Root] \in {"share", "apply"}
    BY <1>1 DEF AfterBcast
  <2>3. CASE r = Root
    BY <1>3, <2>2, <2>3 DEF Bit
  <2>4. CASE r # Root
    <3>1. Waiting(r)' = Waiting(r) + 1 /\ sharerPc'[r] = sharerPc[r]
      BY <1>1, <1>2, <2>4, RankFacts
    <3>2. Waiting(r) + 1 = Bit(sharerPc[r] \in {"test", "bcast"})
      BY <1>1, <2>1 DEF Bit
    <3> QED BY <1>3, <2>2, <3>1, <3>2 DEF Bit
  <2> QED BY <2>3, <2>4
<1>5. BoardsMatch'
  BY <1>1, <1>4 DEF BoardsMatch, Bit
<1>6. \A r \in Ranks : sharerPc'[r] = "recv" <=> sharerPc[r] = "recv"
  BY <1>1, RankFacts DEF AfterBcast
<1>7. CASE RootVerdict = 0
  <2>1. sharerPc'[Root] = "share" /\ ~ Knows(Root)'
    BY <1>1, <1>2, <1>7 DEF AfterBcast
  <2>2. Lag(Root)' = Lag(Root) + 1
    BY <1>1, <1>2, <1>3, <2>1 DEF Lag, Bit
  <2>3. ASSUME NEW r \in Others PROVE Lag(r)' = Lag(r) + 1
    BY <1>1, <1>2, <1>3, <2>1, RankFacts DEF Lag, Bit
  <2>4. \A r \in Ranks : Lag(r)' = Lag(r) + 1
    BY <2>2, <2>3, RankFacts
  <2> QED BY <1>1, <1>5, <1>6, <2>4, LagsShift
<1>8. CASE RootVerdict # 0
  <2>1. sharerPc'[Root] = "apply" /\ Knows(Root)'
    BY <1>1, <1>2, <1>8 DEF AfterBcast
  <2>2. Lag(Root)' = Lag(Root)
    BY <1>1, <1>2, <1>3, <2>1 DEF Lag, Bit
  <2>3. ASSUME NEW r \in Others PROVE Lag(r)' = Lag(r)
    BY <1>1, <1>2, <1>3, <2>1, RankFacts DEF Lag, Bit
  <2>4. \A r \in Ranks : Lag(r)' = Lag(r)
    BY <2>2, <2>3, RankFacts
  <2> QED BY <1>1, <1>5, <1>6, <2>4, LagsKept
<1> QED BY <1>7, <1>8

LEMMA TakeBcastPace ==
  ASSUME Typed, Phases, QueueInv, BoardsMatch, GathersMatch, MailMatch,
         NEW r \in Ranks, TakeBcast(r)
  PROVE  BoardsMatch' /\ GathersMatch' /\ MailMatch'
<1>1. /\ r \in Others /\ r # Root /\ Root \in Ranks
      /\ sharerPc[r] = "bcast" /\ ~Knows(r)
      /\ Waiting(r)' = Waiting(r) - 1
      /\ \A u \in Ranks : u # r => Waiting(u)' = Waiting(u) /\ sharerPc'[u] = sharerPc[u]
      /\ sharerPc'[r] = IF Knows(Root) /\ Waiting(r) = 1 THEN "apply" ELSE "share"
      /\ Knows(Root)' <=> Knows(Root)
  BY TakeBcastQueue, RankFacts
<1>2. UNCHANGED << run, mail >>
  BY DEF TakeBcast
<1>3. \A u \in Ranks : Waiting(u) \in Int /\ Lag(u) \in Int
  BY CountTypes
<1>4. ASSUME run.board, NEW u \in Ranks
      PROVE  Waiting(u)' + Bit(sharerPc'[Root] = "test") = Bit(sharerPc'[u] \in {"test", "bcast"})
  <2>1. Waiting(u) + Bit(sharerPc[Root] = "test") = Bit(sharerPc[u] \in {"test", "bcast"})
    BY <1>4 DEF BoardsMatch
  <2>2. sharerPc'[Root] = sharerPc[Root]
    BY <1>1
  <2>3. CASE u = r
    <3>1. sharerPc'[r] \notin {"test", "bcast"}
      BY <1>1
    <3>2. Waiting(r) + Bit(sharerPc[Root] = "test") = 1
      BY <1>1, <2>1, <2>3 DEF Bit
    <3>3. Bit(sharerPc'[r] \in {"test", "bcast"}) = 0 /\ Bit(sharerPc[Root] = "test") \in Int
      BY <3>1 DEF Bit
    <3>4. Bit(sharerPc'[Root] = "test") = Bit(sharerPc[Root] = "test")
      BY <2>2
    <3>5. Waiting(r)' + Bit(sharerPc'[Root] = "test") = 0
      <4>1. Waiting(r)' = Waiting(r) - 1 /\ Waiting(r) \in Int
        BY <1>1, <1>3
      <4> QED BY <4>1, <3>2, <3>3, <3>4
    <3> QED BY <2>3, <3>3, <3>5
  <2>4. CASE u # r
    BY <1>1, <2>1, <2>2, <2>4 DEF Bit
  <2> QED BY <2>3, <2>4
<1>5. BoardsMatch'
  BY <1>2, <1>4 DEF BoardsMatch, Bit
<1>6. ASSUME NEW u \in Ranks, u # r PROVE Lag(u)' = Lag(u)
  <2>1. Waiting(u)' = Waiting(u) /\ sharerPc'[u] = sharerPc[u]
    BY <1>1, <1>6
  <2>2. Knows(u)' <=> Knows(u)
    BY <2>1 DEF Knows
  <2> QED BY <1>1, <2>1, <2>2 DEF Lag, Bit
<1>7. Lag(r)' = Lag(r)
  <2>1. CASE Knows(Root) /\ Waiting(r) = 1
    <3>1. sharerPc'[r] = "apply" /\ Knows(r)' /\ Knows(Root)'
      BY <1>1, <2>1 DEF Knows
    <3> QED BY <1>1, <1>3, <2>1, <3>1 DEF Lag, Bit
  <2>2. CASE ~ (Knows(Root) /\ Waiting(r) = 1)
    <3>1. sharerPc'[r] = "share" /\ ~ Knows(r)'
      BY <1>1, <2>2 DEF Knows
    <3>2. Bit(Knows(Root)' /\ ~Knows(r)') = Bit(Knows(Root) /\ ~Knows(r))
      BY <1>1, <3>1 DEF Bit
    <3>3. Lag(r)' = Waiting(r) - 1 - Bit(Knows(Root) /\ ~Knows(r)) + 1
      BY <1>1, <3>1, <3>2 DEF Lag, Bit
    <3>4. Lag(r) = Waiting(r) - Bit(Knows(Root) /\ ~Knows(r)) + 0
      BY <1>1 DEF Lag, Bit
    <3>5. Bit(Knows(Root) /\ ~Knows(r)) \in Int
      BY DEF Bit
    <3> QED BY <1>3, <3>3, <3>4, <3>5
  <2> QED BY <2>1, <2>2
<1>8. \A u \in Ranks : sharerPc'[u] = "recv" <=> sharerPc[u] = "recv"
  BY <1>1
<1> QED BY <1>2, <1>5, <1>6, <1>7, <1>8, LagsKept

LEMMA SplitPace ==
  ASSUME Typed, Phases, BoardsMatch, GathersMatch, MailMatch, SplitAndGather
  PROVE  BoardsMatch' /\ GathersMatch' /\ MailMatch'
<1>1. KeepsEnd
  BY SharerKeepsEnd, RankFacts
<1>2. /\ UNCHANGED << run, mail >>
      /\ \A r \in Ranks : /\ sharerPc[r] = "share" /\ sharerPc'[r] \in {"board", "test"}
                          /\ run.board => sharerPc'[r] = "board"
  BY DEF SplitAndGather, AfterSplit, RoundStart, network
<1>3. \A r \in Ranks : Waiting(r)' = Waiting(r) /\ Waiting(r) \in Int
  BY <1>1, KeepsWaiting, CountTypes
<1>4. BoardsMatch'
  BY <1>2, <1>3, BoardsKept, RankFacts
<1>5. ASSUME NEW r \in Ranks PROVE Lag(r)' = Lag(r) + (-1)
  <2>1. ~ Knows(r) /\ ~ Knows(Root) /\ ~ Knows(r)' /\ ~ Knows(Root)'
    BY <1>2, RankFacts DEF Knows
  <2> QED BY <1>2, <1>3, <2>1 DEF Lag, Bit
<1>6. \A r \in Ranks : sharerPc'[r] = "recv" <=> sharerPc[r] = "recv"
  BY <1>2
<1> QED BY <1>2, <1>4, <1>5, <1>6, LagsShift

LEMMA SendClausesPace ==
  ASSUME Typed, Phases, BoardsMatch, MailMatch, NEW r \in Ranks, SendClauses(r)
  PROVE  BoardsMatch' /\ GathersMatch' /\ MailMatch'
<1>1. KeepsEnd
  BY SharerKeepsEnd
<1>2. /\ run' = run /\ run.strategy = "ring" /\ sharerPc[r] = "share" /\ sharerPc'[r] = "recv"
      /\ \A u \in Ranks : u # r => sharerPc'[u] = sharerPc[u]
      /\ \A p \in Ranks \X Ranks :
           mail'[p] = IF p[1] = r /\ p[2] \in Neighbours(r) THEN mail[p] + 1 ELSE mail[p]
  BY DEF SendClauses, Typed
<1>3. \A u \in Ranks : Waiting(u)' = Waiting(u) /\ Waiting(u) \in Int /\ Lag(u) \in Int
  BY <1>1, KeepsWaiting, CountTypes
<1>4. BoardsMatch'
  BY <1>2, <1>3, BoardsKept, RankFacts
<1>5. GathersMatch'
  BY <1>2 DEF GathersMatch
<1>6. \A u \in Ranks : u # r => Lag(u)' = Lag(u)
  BY <1>1, <1>2, KeepsLag
<1>7. Lag(r)' = Lag(r) - 1
  <2>1. ~ Knows(r) /\ ~ Knows(r)' /\ (Knows(Root)' <=> Knows(Root))
    BY <1>1, <1>2, RankFacts DEF Knows, KeepsEnd
  <2> QED BY <1>2, <1>3, <2>1 DEF Lag, Bit
<1>8. ASSUME NEW u \in Ranks, NEW s \in Ranks
      PROVE  mail'[<< s, u >>] =
               IF s \in Neighbours(u) THEN Lag(u)' - Lag(s)' + Bit(sharerPc'[u] = "recv") ELSE 0
  <2>1. mail[<< s, u >>] =
          IF s \in Neighbours(u) THEN Lag(u) - Lag(s) + Bit(sharerPc[u] = "recv") ELSE 0
    BY DEF MailMatch
  <2>2. /\ s \in Neighbours(u) <=> u \in Neighbours(s)
        /\ u \notin Neighbours(u)
    BY NeighboursFacts
  <2>3. mail'[<< s, u >>] = IF s = r /\ u \in Neighbours(r) THEN mail[<< s, u >>] + 1
                            ELSE mail[<< s, u >>]
    BY <1>2
  <2>4. CASE s \notin Neighbours(u)
    BY <2>1, <2>2, <2>3, <2>4
  <2>5. CASE s \in Neighbours(u) /\ s = r
    <3>1. u # r /\ mail'[<< s, u >>] = mail[<< s, u >>] + 1 /\ sharerPc'[u] = sharerPc[u]
      BY <1>2, <2>2, <2>3, <2>5
    <3>2. Lag(u)' = Lag(u) /\ Lag(s)' = Lag(s) - 1
      BY <1>6, <1>7, <2>5, <3>1
    <3> QED BY <1>3, <2>1, <2>5, <3>1, <3>2 DEF Bit
  <2>6. CASE s \in Neighbours(u) /\ u = r
    <3>1. s # r /\ mail'[<< s, u >>] = mail[<< s, u >>]
      BY <2>2, <2>3, <2>6
    <3>2. Lag(u)' = Lag(u) - 1 /\ Lag(s)' = Lag(s)
      BY <1>6, <1>7, <2>6, <3>1
    <3> QED BY <1>2, <1>3, <2>1, <2>6, <3>1, <3>2 DEF Bit
  <2>7. CASE s \in Neighbours(u) /\ s # r /\ u # r
    BY <1>2, <1>6, <2>1, <2>3, <2>7 DEF Bit
  <2> QED BY <2>4, <2>5, <2>6, <2>7
<1>9. MailMatch'
  BY <1>8 DEF MailMatch, Neighbours, Bit
<1> QED BY <1>4, <1>5, <1>9

LEMMA ReceiveClausesPace ==
  ASSUME Typed, Phases, BoardsMatch, MailMatch, NEW r \in Ranks, ReceiveClauses(r)
  PROVE  BoardsMatch' /\ GathersMatch' /\ MailMatch'
<1>1. KeepsEnd
  BY SharerKeepsEnd
<1>2. /\ run' = run /\ run.strategy = "ring" /\ sharerPc[r] = "recv"
      /\ sharerPc'[r] \in {"board", "test"} /\ (run.board => sharerPc'[r] = "board")
      /\ \A u \in Ranks : u # r => sharerPc'[u] = sharerPc[u]
      /\ \A p \in Ranks \X Ranks :
           mail'[p] = IF p[2] = r /\ p[1] \in Neighbours(r) THEN mail[p] - 1 ELSE mail[p]
  BY DEF ReceiveClauses, RoundStart, Typed, Phases
<1>3. \A u \in Ranks : Waiting(u)' = Waiting(u) /\ Waiting(u) \in Int /\ Lag(u) \in Int
  BY <1>1, KeepsWaiting, CountTypes
<1>4. BoardsMatch'
  BY <1>2, <1>3, BoardsKept, RankFacts
<1>5. GathersMatch'
  BY <1>2 DEF GathersMatch
<1>6. \A u \in Ranks : Lag(u)' = Lag(u)
  BY <1>1, <1>2, KeepsLag
<1>7. ASSUME NEW u \in Ranks, NEW s \in Ranks
      PROVE  mail'[<< s, u >>] =
               IF s \in Neighbours(u) THEN Lag(u)' - Lag(s)' + Bit(sharerPc'[u] = "recv") ELSE 0
  <2>1. mail[<< s, u >>] =
          IF s \in Neighbours(u) THEN Lag(u) - Lag(s) + Bit(sharerPc[u] = "recv") ELSE 0
    BY DEF MailMatch
  <2>2. mail'[<< s, u >>] = IF u = r /\ s \in Neighbours(r) THEN mail[<< s, u >>] - 1
                            ELSE mail[<< s, u >>]
    BY <1>2
  <2>3. CASE s \notin Neighbours(u)
    BY <2>1, <2>2, <2>3
  <2>4. CASE s \in Neighbours(u) /\ u = r
    BY <1>2, <1>3, <1>6, <2>1, <2>2, <2>4 DEF Bit
  <2>5. CASE s \in Neighbours(u) /\ u # r
    BY <1>2, <1>6, <2>1, <2>2, <2>5 DEF Bit
  <2> QED BY <2>3, <2>4, <2>5
<1>8. MailMatch'
  BY <1>7 DEF MailMatch, Neighbours, Bit
<1> QED BY <1>4, <1>5, <1>8

LEMMA PaceStep ==
  Typed /\ Phases /\ PaceInv /\ AnswerInv /\ [Next]_vars => PaceInv'
<1> SUFFICES ASSUME Typed, Phases, PaceInv, AnswerInv, [Next]_vars PROVE PaceInv'
  OBVIOUS
<1> USE DEF PaceInv
<1>1. ASSUME NEW r \in Ranks,
             \/ StartWorkers(r) \/ LaunchSharers(r)
             \/ WorkerWins(r) \/ WorkerStores(r) \/ MainStep(r) \/ (r \in Others /\ Deliver(r))
             \/ SendEnd(r) \/ ApplyEnd(r) \/ JoinProcess(r)
      PROVE  PaceInv'
  <2>1. KeepsEnd
    BY <1>1, LocalKeepsEnd, SharerKeepsEnd
  <2> QED BY <1>1, <2>1, KeepsQueue, LocalPace
<1>2. ASSUME NEW r \in Ranks, Announce \/ TakeFormula(r) PROVE PaceInv'
  BY <1>2, AnnounceQueue, TakeFormulaQueue, FormulaPace
<1>3. ASSUME NEW r \in Ranks, SendClauses(r) \/ ReceiveClauses(r) PROVE PaceInv'
  <2>1. KeepsEnd
    BY <1>3, SharerKeepsEnd
  <2> QED BY <1>3, <2>1, KeepsQueue, SendClausesPace, ReceiveClausesPace
<1>4. ASSUME NEW r \in Ranks, TakeBcast(r) PROVE PaceInv'
  BY <1>4, TakeBcastQueue, TakeBcastPace
<1>5. CASE BcastEnd
  BY <1>5, BcastEndQueue, BcastEndPace
<1>6. CASE ExchangeBoard \/ SplitAndGather
  <2>1. KeepsEnd
    BY <1>6, SharerKeepsEnd, RankFacts
  <2> QED BY <1>6, <2>1, KeepsQueue, ExchangeBoardPace, SplitPace
<1>7. CASE UNCHANGED vars
  <2>1. KeepsEnd /\ UNCHANGED << run, mail, sharerPc >>
    BY <1>7 DEF vars, pcs, ends, network, KeepsEnd, Knows, EndOf
  <2>2. \A r \in Ranks : Waiting(r)' = Waiting(r) /\ Lag(r)' = Lag(r)
    BY <2>1, KeepsWaiting, KeepsLag
  <2> QED BY <2>1, <2>2, KeepsQueue, BoardsKept, LagsKept
<1> QED BY <1>1, <1>2, <1>3, <1>4, <1>5, <1>6, <1>7, RankFacts
        DEF Next, Collective, SolveStep, SharerStep, Finished
-----------------------------------------------------------------------------
(* The end messages. *)

LEMMA ResultIsSome == \A res \in Results : res # Nothing
BY DEF Results, UNKNOWN, COMPLETE, TIMEOUT, Nothing

LEMMA MessageStep ==
  Typed /\ Phases /\ PaceInv /\ AnswerInv /\ MessageInv /\ [Next]_vars => MessageInv'
<1> SUFFICES ASSUME Typed, Phases, PaceInv, AnswerInv, MessageInv, [Next]_vars PROVE MessageInv'
  OBVIOUS
<1> USE RankFacts
<1> DEFINE MessageOf(r) ==
             /\ ~Knows(Root) => message[r] \in {Nothing, Live, Delivered}
             /\ sharerPc[r] = "off" => message[r] = Nothing
             /\ sharerPc[r] = "stopped" => message[r] = Delivered
             /\ requestsSent[r] <=> message[r] # Nothing
             /\ received[r] # Nothing => message[r] = Delivered
           Heard == sharerPc[Root] = "stopped" => \A r \in Others : received[r] # Nothing
<1>1. \A r \in Others : MessageOf(r)
  BY DEF MessageInv
<1>2. Heard
  BY DEF MessageInv
<1>3. ASSUME \A r \in Others : MessageOf(r)', Heard' PROVE MessageInv'
  BY <1>3 DEF MessageInv, Knows
<1>4. ASSUME UNCHANGED << message, requestsSent, received >>,
             Knows(Root) => Knows(Root)',
             \A r \in Ranks : /\ sharerPc'[r] = "off" => sharerPc[r] = "off"
                              /\ sharerPc'[r] = "stopped" => sharerPc[r] = "stopped"
      PROVE  MessageInv'
  <2>1. ASSUME NEW r \in Others PROVE MessageOf(r)'
    BY <1>1, <1>4, <2>1 DEF Knows
  <2>2. Heard'
    BY <1>2, <1>4
  <2> QED BY <1>3, <2>1, <2>2
<1>5. ASSUME NEW r \in Ranks, SendEnd(r) PROVE MessageInv'
  <2>1. /\ r \in Others /\ received' = received /\ sharerPc[r] = "test" /\ sharerPc'[r] = "bcast"
        /\ \A u \in Ranks : u # r => sharerPc'[u] = sharerPc[u]
        /\ \A u \in Others : u # r => message'[u] = message[u] /\ requestsSent'[u] = requestsSent[u]
    BY <1>5 DEF SendEnd, Typed
  <2>2. \/ /\ message'[r] = Live /\ requestsSent'[r] = TRUE /\ ~ requestsSent[r]
        \/ /\ message'[r] = message[r] /\ requestsSent'[r] = requestsSent[r]
    BY <1>5, <2>1 DEF SendEnd, Typed
  <2>3. Knows(Root)' <=> Knows(Root)
    BY <2>1 DEF Knows
  <2>4. MessageOf(r)'
    <3>1. MessageOf(r)
      BY <1>1, <2>1
    <3> QED BY <2>1, <2>2, <2>3, <3>1 DEF Live, Nothing, Delivered, Knows
  <2>5. ASSUME NEW u \in Others, u # r PROVE MessageOf(u)'
    BY <1>1, <2>1, <2>3, <2>5 DEF Knows
  <2>6. Heard'
    BY <1>2, <2>1
  <2> QED BY <1>3, <2>4, <2>5, <2>6
<1>6. ASSUME NEW r \in Others, Deliver(r) PROVE MessageInv'
  <2>1. /\ r \in Ranks /\ UNCHANGED << sharerPc, requestsSent >> /\ message[r] \notin {Nothing, Delivered}
        /\ message'[r] = Delivered
        /\ received'[r] = IF message[r] = Live THEN finalResult[r] ELSE message[r]
        /\ \A u \in Others : u # r => message'[u] = message[u] /\ received'[u] = received[u]
    BY <1>6 DEF Deliver, pcs, Typed
  <2>2. received'[r] # Nothing
    <3>1. finalResult[r] \in Results /\ (message[r] # Live => message[r] \in Results)
      BY <2>1 DEF Typed
    <3> QED BY <2>1, <3>1, ResultIsSome
  <2>3. MessageOf(r)'
    <3>1. MessageOf(r)
      BY <1>1
    <3> QED BY <2>1, <3>1 DEF Delivered, Nothing, Knows
  <2>4. ASSUME NEW u \in Others, u # r PROVE MessageOf(u)'
    BY <1>1, <2>1, <2>4 DEF Knows
  <2>5. Heard'
    BY <1>2, <2>1, <2>2
  <2> QED BY <1>3, <2>3, <2>4, <2>5
<1>7. ASSUME NEW r \in Ranks, ApplyEnd(r) PROVE MessageInv'
  <2>1. /\ received' = received /\ sharerPc[r] = "apply" /\ sharerPc'[r] = "join"
        /\ \A u \in Ranks : u # r => sharerPc'[u] = sharerPc[u]
    BY <1>7 DEF ApplyEnd, Typed
  <2>2. /\ \A u \in Others : u # r => message'[u] = message[u] /\ requestsSent'[u] = requestsSent[u]
        /\ r \in Others => \/ /\ message'[r] = ResultOf(value[r]) /\ requestsSent'[r] = TRUE
                              /\ ~ requestsSent[r]
                           \/ /\ message'[r] = message[r] /\ requestsSent'[r] = requestsSent[r]
    BY <1>7 DEF ApplyEnd, LastMessage, Typed
  <2>3. Knows(Root) /\ Knows(Root)'
    BY <2>1 DEF PaceInv, QueueInv, EndReaches, Knows
  <2>4. ASSUME r \in Others PROVE MessageOf(r)'
    <3>1. MessageOf(r)
      BY <1>1, <2>4
    <3>2. ResultOf(value[r]) # Nothing
      BY PackedFacts, ResultIsSome DEF Typed
    <3> QED BY <2>1, <2>2, <2>3, <2>4, <3>1, <3>2 DEF Delivered, Nothing
  <2>5. ASSUME NEW u \in Others, u # r PROVE MessageOf(u)'
    BY <1>1, <2>1, <2>2, <2>3, <2>5
  <2>6. Heard'
    BY <1>2, <2>1
  <2> QED BY <1>3, <2>4, <2>5, <2>6
<1>8. ASSUME NEW r \in Ranks, JoinProcess(r) PROVE MessageInv'
  <2>1. /\ UNCHANGED << message, requestsSent, received >>
        /\ sharerPc[r] = "join" /\ sharerPc'[r] = "stopped" /\ RequestsDone(r)
        /\ \A u \in Ranks : u # r => sharerPc'[u] = sharerPc[u]
    BY <1>8 DEF JoinProcess, network, Typed
  <2>2. Knows(Root) /\ Knows(Root)'
    BY <2>1 DEF PaceInv, QueueInv, EndReaches, Knows
  <2>3. ASSUME NEW u \in Others PROVE MessageOf(u)'
    <3>1. CASE u = r
      BY <1>1, <2>1, <2>2, <3>1 DEF RequestsDone
    <3>2. CASE u # r
      BY <1>1, <2>1, <2>2, <3>2
    <3> QED BY <3>1, <3>2
  <2>4. Heard'
    <3>1. CASE r = Root
      BY <2>1, <3>1 DEF RequestsDone
    <3>2. CASE r # Root
      BY <1>2, <2>1, <3>2
    <3> QED BY <3>1, <3>2
  <2> QED BY <1>3, <2>3, <2>4
<1>9. ASSUME NEW r \in Ranks, TakeBcast(r) PROVE MessageInv'
  <2>1. /\ UNCHANGED << message, requestsSent, received >> /\ r # Root
        /\ sharerPc'[r] \in {"share", "apply"}
        /\ \A u \in Ranks : u # r => sharerPc'[u] = sharerPc[u]
    BY <1>9 DEF TakeBcast, AfterBcast, Typed
  <2> QED BY <1>4, <2>1 DEF Knows
<1>10. CASE BcastEnd
  <2>1. /\ UNCHANGED << message, requestsSent, received >> /\ sharerPc[Root] = "test"
        /\ sharerPc'[Root] \in {"share", "apply"}
        /\ \A u \in Ranks : u # Root => sharerPc'[u] = sharerPc[u]
    BY <1>10 DEF BcastEnd, AfterBcast, Typed
  <2> QED BY <1>4, <2>1 DEF Knows
<1>11. ASSUME NEW r \in Ranks, SendClauses(r) \/ ReceiveClauses(r) PROVE MessageInv'
  <2>1. /\ UNCHANGED << message, requestsSent, received >> /\ sharerPc[r] \in {"share", "recv"}
        /\ sharerPc'[r] \in {"recv", "board", "test"}
        /\ \A u \in Ranks : u # r => sharerPc'[u] = sharerPc[u]
    BY <1>11 DEF SendClauses, ReceiveClauses, RoundStart, Typed
  <2> QED BY <1>4, <2>1 DEF Knows
<1>12. CASE ExchangeBoard \/ SplitAndGather
  <2>1. /\ UNCHANGED << message, requestsSent, received >>
        /\ \A u \in Ranks : sharerPc[u] \in {"board", "share"} /\ sharerPc'[u] \in {"board", "test"}
    BY <1>12 DEF ExchangeBoard, SplitAndGather, AfterSplit, RoundStart, network
  <2> QED BY <1>4, <2>1 DEF Knows
<1>13. ASSUME NEW r \in Ranks, LaunchSharers(r) PROVE MessageInv'
  <2>1. /\ UNCHANGED << message, requestsSent, received >>
        /\ sharerPc[r] = "off" /\ sharerPc'[r] \in {"board", "test"}
        /\ \A u \in Ranks : u # r => sharerPc'[u] = sharerPc[u]
    BY <1>13 DEF LaunchSharers, RoundStart, network, Typed, Phases
  <2> QED BY <1>4, <2>1 DEF Knows
<1>14. CASE UNCHANGED << message, requestsSent, received, sharerPc >>
  BY <1>4, <1>14 DEF Knows
<1>15. ASSUME NEW r \in Ranks,
              \/ TakeFormula(r) \/ StartWorkers(r) \/ MainStep(r) \/ WorkerWins(r) \/ WorkerStores(r)
       PROVE  UNCHANGED << message, requestsSent, received, sharerPc >>
  BY <1>15 DEF TakeFormula, StartWorkers, MainStep, Leave, Expire, JoinThreads, PrintResult,
               WorkerWins, WorkerStores, network
<1>16. Announce \/ UNCHANGED vars => UNCHANGED << message, requestsSent, received, sharerPc >>
  BY DEF Announce, vars, pcs, network
<1> QED
  BY <1>5, <1>6, <1>7, <1>8, <1>9, <1>10, <1>11, <1>12, <1>13, <1>14, <1>15, <1>16
  DEF Next, Collective, SolveStep, SharerStep, Finished
-----------------------------------------------------------------------------
(* Who answered. *)

LEMMA WroteKept ==
  ASSUME Typed, Phases, [Next]_vars, NEW r \in Ranks, Wrote(r)
  PROVE  Wrote(r)'
<1>1. workerPc[r] \in {"wrote", "done"} /\ solvePc[r] # "build"
  BY DEF Wrote, Phases
<1>2. ASSUME NEW u \in Ranks, StartWorkers(u) PROVE Wrote(r)'
  BY <1>1, <1>2 DEF StartWorkers, Wrote, Typed
<1>3. ASSUME NEW u \in Ranks, WorkerWins(u) \/ WorkerStores(u) PROVE Wrote(r)'
  BY <1>1, <1>3 DEF WorkerWins, WorkerStores, Wrote, Typed
<1>4. CASE workerPc' = workerPc
  BY <1>1, <1>4 DEF Wrote
<1>5. ASSUME NEW u \in Ranks, TakeFormula(u) \/ LaunchSharers(u) \/ MainStep(u) \/ SharerStep(u)
      PROVE  workerPc' = workerPc
  BY <1>5 DEF TakeFormula, LaunchSharers, MainStep, Leave, Expire, JoinThreads, PrintResult,
              SharerStep, SendEnd, TakeBcast, ApplyEnd, JoinProcess, SendClauses, ReceiveClauses
<1>6. Collective \/ (\E u \in Others : Deliver(u)) \/ UNCHANGED vars => workerPc' = workerPc
  BY DEF Collective, Announce, ExchangeBoard, BcastEnd, SplitAndGather, Deliver, vars, pcs
<1> QED BY <1>2, <1>3, <1>4, <1>5, <1>6 DEF Next, SolveStep, Finished

LEMMA StartNotComplete ==
  ASSUME Typed, Phases, QueueInv, AnswerInv, NEW r \in Ranks, Announce \/ TakeFormula(r),
         NEW u \in Ranks, finalResult'[u] = COMPLETE
  PROVE  finalResult[u] = COMPLETE
<1>1. PICK w \in Ranks, res \in {UNKNOWN, TIMEOUT} : AfterFirstBcast(w, res)
  <2>1. CASE Announce
    <3>1. solvePc[Root] = "start" /\ sharerPc[Root] = "off" /\ workerPc[Root] = "off"
      BY <2>1, RankFacts DEF Announce, Phases
    <3>2. finalResult[Root] \in {UNKNOWN, TIMEOUT}
      BY <3>1, RankFacts DEF AnswerInv, Answered, Typed, Wrote, Results
    <3> QED BY <2>1, <3>2, RankFacts DEF Announce
  <2>2. CASE TakeFormula(r)
    <3>1. r \in Others /\ bcast[r] \in Seq(Packed) /\ bcast[r] # << >> /\ solvePc[r] = "start"
      BY <2>2, RankFacts DEF TakeFormula, Typed
    <3>2. Head(bcast[r]) \in {UNKNOWN, TIMEOUT}
      BY <3>1, TailFacts DEF QueueInv, AnnouncedTo
    <3> QED BY <2>2, <3>2 DEF TakeFormula
  <2> QED BY <2>1, <2>2
<1>2. TIMEOUT # COMPLETE /\ UNKNOWN # COMPLETE
  BY DEF UNKNOWN, COMPLETE, TIMEOUT
<1> QED BY <1>1, <1>2 DEF AfterFirstBcast, EndAtStart, ends, Typed

LEMMA FinalResultStep ==
  ASSUME Typed, Phases, PaceInv, AnswerInv, [Next]_vars, NEW r \in Ranks,
         finalResult'[r] = COMPLETE
  PROVE  Answered(r)'
<1> USE RankFacts
<1>1. finalResult[r] = COMPLETE => Answered(r)
  BY DEF AnswerInv, Answered
<1>2. Wrote(r) => Wrote(r)'
  BY WroteKept
<1>3. CASE /\ finalResult[r] = COMPLETE
           /\ sharerPc[r] \in {"join", "stopped"} =>
                sharerPc'[r] \in {"join", "stopped"} /\ value'[r] = value[r]
  BY <1>1, <1>2, <1>3 DEF Answered, Wrote
<1>4. ASSUME NEW u \in Ranks, ApplyEnd(u) PROVE Answered(r)'
  <2>1. CASE u = r
    BY <1>4, <2>1 DEF ApplyEnd, Answered, Typed
  <2>2. CASE u # r
    BY <1>3, <1>4, <2>2 DEF ApplyEnd, Typed
  <2> QED BY <2>1, <2>2
<1>5. ASSUME NEW u \in Ranks, JoinProcess(u) PROVE Answered(r)'
  <2>1. CASE u = r
    BY <1>5, <2>1 DEF JoinProcess, Answered, Typed
  <2>2. CASE u # r
    BY <1>3, <1>5, <2>2 DEF JoinProcess, Typed
  <2> QED BY <2>1, <2>2
<1>6. ASSUME NEW u \in Ranks, WorkerStores(u) PROVE Answered(r)'
  <2>1. CASE u = r
    <3>1. workerPc'[r] \in {"wrote", "done"}
      BY <1>6, <2>1 DEF WorkerStores, Typed
    <3> QED BY <3>1 DEF Answered, Wrote
  <2>2. CASE u # r
    BY <1>3, <1>6, <2>2 DEF WorkerStores, Typed
  <2> QED BY <2>1, <2>2
<1>7. ASSUME NEW u \in Ranks, Expire(u) PROVE Answered(r)'
  <2>1. /\ UNCHANGED << sharerPc, value >>
        /\ finalResult[r] = COMPLETE
    BY <1>7 DEF Expire, ends, Typed, COMPLETE, TIMEOUT
  <2> QED BY <1>3, <2>1
<1>8. ASSUME NEW u \in Ranks, Announce \/ TakeFormula(u) PROVE Answered(r)'
  <2>1. finalResult[r] = COMPLETE
    BY <1>8, StartNotComplete DEF PaceInv
  <2>2. UNCHANGED << sharerPc, value >>
    BY <1>8 DEF Announce, TakeFormula
  <2> QED BY <1>3, <2>1, <2>2
<1>9. ASSUME NEW u \in Ranks,
             SendEnd(u) \/ SendClauses(u) \/ ReceiveClauses(u) \/ LaunchSharers(u)
      PROVE  Answered(r)'
  <2>1. /\ UNCHANGED << finalResult, value >> /\ sharerPc[u] \notin {"join", "stopped"}
        /\ \A s \in Ranks : s # u => sharerPc'[s] = sharerPc[s]
    BY <1>9 DEF SendEnd, SendClauses, ReceiveClauses, LaunchSharers, ends, Typed, Phases
  <2> QED BY <1>3, <2>1
<1>10. ASSUME NEW u \in Ranks, TakeBcast(u) PROVE Answered(r)'
  <2>1. /\ finalResult' = finalResult /\ sharerPc[u] = "bcast"
        /\ \A s \in Ranks : s # u => sharerPc'[s] = sharerPc[s] /\ value'[s] = value[s]
    BY <1>10 DEF TakeBcast, ends, Typed
  <2> QED BY <1>3, <2>1
<1>11. CASE BcastEnd
  <2>1. /\ finalResult' = finalResult /\ sharerPc[Root] = "test"
        /\ \A s \in Ranks : s # Root => sharerPc'[s] = sharerPc[s] /\ value'[s] = value[s]
    BY <1>11 DEF BcastEnd, ends, Typed
  <2> QED BY <1>3, <2>1
<1>12. CASE ExchangeBoard \/ SplitAndGather
  <2>1. finalResult' = finalResult /\ sharerPc[r] \in {"board", "share"}
    BY <1>12 DEF ExchangeBoard, SplitAndGather, ends
  <2> QED BY <1>3, <2>1
<1>13. CASE UNCHANGED << finalResult, sharerPc, value >>
  BY <1>3, <1>13
<1>14. ASSUME NEW u \in Ranks,
              \/ StartWorkers(u) \/ Leave(u) \/ JoinThreads(u) \/ PrintResult(u) \/ WorkerWins(u)
              \/ (u \in Others /\ Deliver(u))
       PROVE  UNCHANGED << finalResult, sharerPc, value >>
  BY <1>14 DEF StartWorkers, Leave, JoinThreads, PrintResult, WorkerWins, Deliver, pcs, ends
<1>15. UNCHANGED vars => UNCHANGED << finalResult, sharerPc, value >>
  BY DEF vars, pcs, ends
<1> QED
  BY <1>4, <1>5, <1>6, <1>7, <1>8, <1>9, <1>10, <1>11, <1>12, <1>13, <1>14, <1>15
  DEF Next, Collective, SolveStep, SharerStep, MainStep, Finished

(* What the root read from a message is what the worker of the rank wrote. *)
LEMMA ReceivedStep ==
  ASSUME Typed, Phases, PaceInv, AnswerInv, MessageInv, [Next]_vars, ~Knows(Root),
         NEW r \in Others, received'[r] = COMPLETE
  PROVE  Wrote(r)'
<1> USE RankFacts
<1>1. Wrote(r) => Wrote(r)'
  BY WroteKept
<1>2. received[r] = COMPLETE => Wrote(r)
  BY DEF AnswerInv, Answered
<1>3. ASSUME Deliver(r) PROVE Wrote(r)
  <2>1. message[r] = Live
    BY <1>3 DEF Deliver, MessageInv
  <2>2. finalResult[r] = COMPLETE
    BY <1>3, <2>1 DEF Deliver, Typed
  <2>3. ~ Knows(r)
    BY DEF PaceInv, QueueInv, EndReaches
  <2> QED BY <2>2, <2>3 DEF AnswerInv, Answered, Knows
<1>4. ASSUME NEW u \in Others, u # r, Deliver(u) PROVE received'[r] = received[r]
  BY <1>4 DEF Deliver, Typed
<1>5. ASSUME NEW u \in Ranks,
             MainStep(u) \/ SolveStep(u) \/ SharerStep(u) \/ WorkerWins(u) \/ WorkerStores(u)
      PROVE  received' = received
  BY <1>5 DEF MainStep, Leave, Expire, JoinThreads, PrintResult, SolveStep, TakeFormula,
     StartWorkers, LaunchSharers, SharerStep, SendEnd, TakeBcast, ApplyEnd, JoinProcess,
     SendClauses, ReceiveClauses, WorkerWins, WorkerStores, network
<1>6. Collective \/ UNCHANGED vars => received' = received
  BY DEF Collective, Announce, ExchangeBoard, BcastEnd, SplitAndGather, vars, network
<1> QED BY <1>1, <1>2, <1>3, <1>4, <1>5, <1>6 DEF Next, Finished

(* The end that the root decides on names a winner that has an answer.     *)
LEMMA VerdictAnswered ==
  ASSUME Typed, AnswerInv, sharerPc[Root] = "test", EndIn(RootVerdict)[2] = COMPLETE
  PROVE  Wrote(EndIn(RootVerdict)[1])
<1> USE RankFacts
<1>1. ~ Knows(Root)
  BY DEF Knows
<1>2. CASE globalEnding[Root]
  <2>1. RootVerdict = Pack(Root, finalResult[Root]) /\ finalResult[Root] \in Results
    BY <1>2 DEF RootVerdict, Typed
  <2>2. EndIn(RootVerdict) = << Root, finalResult[Root] >>
    BY <2>1, UnpackPacked DEF EndIn
  <2>3. Wrote(Root)
    BY <2>2 DEF AnswerInv, Answered
  <2> QED BY <2>2, <2>3
<1>3. CASE ~ globalEnding[Root]
  <2> DEFINE got == {r \in Others : received[r] # Nothing}
             answers == {r \in got : received[r] # TIMEOUT}
  <2>1. CASE got = {}
    <3>1. RootVerdict = 0
      BY <1>3, <2>1 DEF RootVerdict, Verdict
    <3>2. RootVerdict = Pack(Root, UNKNOWN) /\ UNKNOWN \in Results
      BY <3>1, ResultPacked DEF Results, UNKNOWN
    <3>3. EndIn(RootVerdict) = << Root, UNKNOWN >>
      BY <3>2, UnpackPacked DEF EndIn
    <3> QED BY <3>3 DEF UNKNOWN, COMPLETE
  <2>2. CASE got # {}
    <3>1. /\ Last(got) \in got /\ \A s \in got : s <= Last(got)
          /\ answers # {} => Last(answers) \in answers /\ \A s \in answers : s <= Last(answers)
      BY <2>2, LastFacts
    <3>2. received[Last(got)] \in Results
      BY <3>1 DEF Typed
    <3>3. (IF answers = {} THEN Root ELSE Last(answers)) \in Ranks
      BY <3>1
    <3>4. RootVerdict =
            Pack(IF answers = {} THEN Root ELSE Last(answers), received[Last(got)])
      BY <1>3, <2>2 DEF RootVerdict, Verdict
    <3>5. EndIn(RootVerdict) =
            << IF answers = {} THEN Root ELSE Last(answers), received[Last(got)] >>
      BY <3>2, <3>3, <3>4, UnpackPacked DEF EndIn
    <3>6. received[Last(got)] = COMPLETE
      BY <3>5
    <3>7. Last(got) \in answers
      BY <3>1, <3>6 DEF COMPLETE, TIMEOUT
    <3>8. Last(answers) <= Last(got) /\ Last(got) <= Last(answers)
      BY <3>1, <3>7
    <3>9. Last(answers) \in Int /\ Last(got) \in Int
      BY <3>1, <3>7
    <3>10. Last(answers) = Last(got)
      BY <3>8, <3>9
    <3>11. EndIn(RootVerdict)[1] = Last(got)
      BY <3>5, <3>7, <3>10
    <3> QED BY <1>1, <3>1, <3>6, <3>11 DEF AnswerInv, Answered
  <2> QED BY <2>1, <2>2
<1> QED BY <1>2, <1>3

(* What the root knows of the end it never forgets or changes.             *)
LEMMA RootEndStep ==
  ASSUME Typed, Phases, PaceInv, AnswerInv, [Next]_vars
  PROVE  /\ Knows(Root) => Knows(Root)' /\ EndOf(Root)' = EndOf(Root)
         /\ ~Knows(Root) /\ Knows(Root)' =>
              BcastEnd /\ RootVerdict # 0 /\ EndOf(Root)' = EndIn(RootVerdict)
<1> USE RankFacts
<1>1. KeepsEnd /\ Knows(Root) => Knows(Root)' /\ EndOf(Root)' = EndOf(Root)
  BY DEF KeepsEnd
<1>2. KeepsEnd => (Knows(Root)' <=> Knows(Root))
  BY DEF KeepsEnd
<1>3. CASE KeepsEnd
  BY <1>1, <1>2, <1>3
<1>4. ASSUME NEW r \in Ranks, TakeBcast(r)
      PROVE  (Knows(Root)' <=> Knows(Root)) /\ EndOf(Root)' = EndOf(Root)
  BY <1>4, TakeBcastQueue DEF PaceInv
<1>5. ASSUME BcastEnd
      PROVE  /\ ~Knows(Root)
             /\ Knows(Root)' => RootVerdict # 0 /\ EndOf(Root)' = EndIn(RootVerdict)
  BY <1>5, BcastEndQueue DEF PaceInv
<1>6. ASSUME NEW r \in Ranks, Announce \/ TakeFormula(r)
      PROVE  ~Knows(Root)' \/ ((Knows(Root)' <=> Knows(Root)) /\ EndOf(Root)' = EndOf(Root))
  <2>1. CASE Announce
    BY <2>1 DEF Announce, Phases, Knows
  <2>2. CASE TakeFormula(r)
    <3>1. UNCHANGED << sharerPc, value >> /\ mpiWinner'[Root] = mpiWinner[Root]
      BY <2>2 DEF TakeFormula, AfterFirstBcast, EndAtStart, ends, Typed
    <3> QED BY <3>1 DEF Knows, EndOf
  <2> QED BY <1>6, <2>1, <2>2
<1>7. ASSUME NEW r \in Ranks, Announce \/ TakeFormula(r) PROVE Knows(Root)' <=> Knows(Root)
  BY <1>7 DEF Announce, TakeFormula, Knows
<1>8. UNCHANGED vars => KeepsEnd
  BY DEF vars, pcs, ends, network, KeepsEnd, Knows, EndOf
<1> QED
  BY <1>3, <1>4, <1>5, <1>6, <1>7, <1>8, LocalKeepsEnd, SharerKeepsEnd
  DEF Next, Collective, SolveStep, SharerStep, Finished

LEMMA AnswerStep ==
  Typed /\ Phases /\ PaceInv /\ AnswerInv /\ MessageInv /\ [Next]_vars => AnswerInv'
<1> SUFFICES ASSUME Typed, Phases, PaceInv, AnswerInv, MessageInv, [Next]_vars PROVE AnswerInv'
  OBVIOUS
<1>1. \A r \in Ranks : finalResult'[r] = COMPLETE => Answered(r)'
  BY FinalResultStep
<1>2. ASSUME ~Knows(Root)', NEW r \in Others, received'[r] = COMPLETE PROVE Wrote(r)'
  BY <1>2, ReceivedStep, RootEndStep
<1>3. ASSUME Knows(Root)', EndOf(Root)'[2] = COMPLETE PROVE Wrote(EndOf(Root)[1])'
  <2>1. CASE Knows(Root)
    <3>1. EndOf(Root)' = EndOf(Root) /\ EndOf(Root)[2] = COMPLETE
      BY <1>3, <2>1, RootEndStep
    <3>2. Wrote(EndOf(Root)[1])
      BY <2>1, <3>1 DEF AnswerInv, Answered
    <3>3. EndOf(Root)[1] \in Ranks
      BY <2>1, PackedFacts, RankFacts DEF EndOf, EndIn, Knows, Phases, Typed
    <3>4. workerPc'[EndOf(Root)[1]] \in {"wrote", "done"}
      BY <3>2, <3>3, WroteKept DEF Wrote
    <3> QED BY <3>1, <3>4 DEF Wrote
  <2>2. CASE ~ Knows(Root)
    <3>1. sharerPc[Root] = "test" /\ EndOf(Root)' = EndIn(RootVerdict)
      BY <1>3, <2>2, RootEndStep DEF BcastEnd
    <3>2. Wrote(EndIn(RootVerdict)[1])
      BY <1>3, <3>1, VerdictAnswered
    <3>3. EndIn(RootVerdict)[1] \in Ranks
      BY VerdictType, PackedFacts DEF EndIn
    <3>4. workerPc'[EndIn(RootVerdict)[1]] \in {"wrote", "done"}
      BY <3>2, <3>3, WroteKept DEF Wrote
    <3> QED BY <3>1, <3>4 DEF Wrote
  <2> QED BY <2>1, <2>2
<1> QED BY <1>1, <1>2, <1>3 DEF AnswerInv, Answered
-----------------------------------------------------------------------------
(* Who prints. *)

LEMMA PrintingStep ==
  ASSUME Typed, Phases, [Next]_vars, NEW r \in Ranks
  PROVE  \/ PrintResult(r)
         \/ /\ printed'[r] = printed[r]
            /\ mainPc'[r] = "exit" <=> mainPc[r] = "exit"
            /\ mainPc[r] = "exit" => mpiWinner'[r] = mpiWinner[r]
<1> USE RankFacts
<1> DEFINE Same == /\ printed'[r] = printed[r]
                   /\ mainPc'[r] = "exit" <=> mainPc[r] = "exit"
                   /\ mainPc[r] = "exit" => mpiWinner'[r] = mpiWinner[r]
<1>1. mainPc[r] = "exit" => /\ solvePc[r] \in {"launched", "returned"}
                            /\ sharerPc[r] \in {"off", "stopped"}
  BY DEF Phases
<1>2. CASE UNCHANGED << printed, mainPc, mpiWinner >>
  BY <1>2
<1>3. ASSUME NEW u \in Ranks, PrintResult(u), u # r PROVE Same
  BY <1>3 DEF PrintResult, ends, Typed
<1>4. ASSUME NEW u \in Ranks, Leave(u) \/ Expire(u) \/ JoinThreads(u) PROVE Same
  BY <1>4 DEF Leave, Expire, JoinThreads, ends, Typed
<1>5. ASSUME NEW u \in Ranks, ApplyEnd(u) PROVE Same
  BY <1>1, <1>5 DEF ApplyEnd, Typed
<1>6. ASSUME NEW u \in Ranks, TakeFormula(u) PROVE Same
  BY <1>1, <1>6 DEF TakeFormula, AfterFirstBcast, EndAtStart, ends, Typed
<1>7. CASE Announce
  BY <1>1, <1>7 DEF Announce, AfterFirstBcast, EndAtStart, ends, Typed
<1>8. ASSUME NEW u \in Ranks,
             \/ StartWorkers(u) \/ LaunchSharers(u) \/ WorkerWins(u) \/ WorkerStores(u)
             \/ SendEnd(u) \/ TakeBcast(u) \/ JoinProcess(u) \/ SendClauses(u) \/ ReceiveClauses(u)
             \/ (u \in Others /\ Deliver(u))
      PROVE  UNCHANGED << printed, mainPc, mpiWinner >>
  BY <1>8 DEF StartWorkers, LaunchSharers, WorkerWins, WorkerStores, SendEnd, TakeBcast,
              JoinProcess, SendClauses, ReceiveClauses, Deliver, pcs, ends
<1>9. ExchangeBoard \/ BcastEnd \/ SplitAndGather \/ UNCHANGED vars
        => UNCHANGED << printed, mainPc, mpiWinner >>
  BY DEF ExchangeBoard, BcastEnd, SplitAndGather, vars, pcs, ends
<1> QED
  BY <1>2, <1>3, <1>4, <1>5, <1>6, <1>7, <1>8, <1>9
  DEF Next, Collective, MainStep, SolveStep, SharerStep, Finished

LEMMA PrintStep == Typed /\ Phases /\ PrintInv /\ [Next]_vars => PrintInv'
<1> SUFFICES ASSUME Typed, Phases, PrintInv, [Next]_vars, NEW r \in Ranks
             PROVE  /\ printed'[r] # Nothing => mainPc'[r] = "exit"
                    /\ mainPc'[r] = "exit" => (printed'[r] # Nothing <=> mpiWinner'[r] = r)
  BY DEF PrintInv
<1>1. CASE PrintResult(r)
  <2>1. /\ mainPc'[r] = "exit" /\ mpiWinner' = mpiWinner
        /\ printed'[r] = IF mpiWinner[r] # r THEN Nothing
                         ELSE IF finalResult[r] = COMPLETE THEN COMPLETE ELSE UNKNOWN
    BY <1>1 DEF PrintResult, ends, Typed
  <2>2. COMPLETE # Nothing /\ UNKNOWN # Nothing
    BY ResultIsSome DEF Results
  <2> QED BY <2>1, <2>2
<1>2. CASE ~ PrintResult(r)
  BY <1>2, PrintingStep DEF PrintInv
<1> QED BY <1>1, <1>2

(* A rank prints COMPLETE for its own worker, or for an end that names it. *)
LEMMA OwnAnswerStep ==
  Typed /\ Phases /\ PaceInv /\ AnswerInv /\ PrintsOwnAnswer /\ [Next]_vars => PrintsOwnAnswer'
<1> SUFFICES ASSUME Typed, Phases, PaceInv, AnswerInv, PrintsOwnAnswer, [Next]_vars,
                    NEW r \in Ranks, printed'[r] = COMPLETE
             PROVE  Wrote(r)'
  BY DEF PrintsOwnAnswer, Wrote
<1> SUFFICES Wrote(r)
  BY WroteKept
<1>1. CASE PrintResult(r)
  <2>1. mpiWinner[r] = r /\ finalResult[r] = COMPLETE
    BY <1>1 DEF PrintResult, Typed, Nothing, UNKNOWN, COMPLETE
  <2>2. CASE sharerPc[r] \in {"join", "stopped"} /\ value[r] = COMPLETE
    <3>1. Knows(r) /\ EndOf(r) = << r, COMPLETE >>
      BY <2>1, <2>2 DEF Knows, EndOf
    <3>2. Knows(Root) /\ EndOf(Root) = << r, COMPLETE >>
      BY <3>1, RankFacts DEF PaceInv, QueueInv, EndReaches
    <3> QED BY <3>2 DEF AnswerInv, Answered
  <2> QED BY <2>1, <2>2 DEF AnswerInv, Answered
<1>2. CASE ~ PrintResult(r)
  <2>1. printed[r] = COMPLETE
    BY <1>2, PrintingStep
  <2> QED BY <2>1 DEF PrintsOwnAnswer, Wrote
<1> QED BY <1>1, <1>2
-----------------------------------------------------------------------------
(* The end at the start, and the end after it. *)

LEMMA ParsingStep ==
  ASSUME Typed, Phases, QueueInv, run.deadline = "parsing", ParsingInv, [Next]_vars
  PROVE  ParsingInv'
<1> USE RankFacts
<1>1. \A r \in Ranks : solvePc[r] \in {"start", "returned"} /\ sharerPc[r] = "off"
  BY DEF ParsingInv, Phases
<1>2. ASSUME NEW w \in Ranks, EndAtStart(w, TIMEOUT),
             \A r \in Ranks : r # Root /\ bcast'[r] # << >> => bcast'[r][1] = TIMEOUT
      PROVE  ParsingInv'
  BY <1>2 DEF ParsingInv, EndAtStart, Typed
<1>3. CASE Announce
  <2>1. EndAtStart(Root, TIMEOUT) /\ TIMEOUT \in Packed
    BY <1>3, ResultPacked DEF Announce, AfterFirstBcast, UNKNOWN, TIMEOUT, Results
  <2>2. ASSUME NEW r \in Others PROVE bcast'[r][1] = TIMEOUT
    <3>1. bcast[r] = << >> /\ finalResult[Root] = TIMEOUT
      BY <1>3 DEF Announce, QueueInv, AnnouncedTo
    <3>2. bcast'[r] = Append(<< >>, TIMEOUT)
      BY <1>3, <3>1 DEF Announce
    <3> QED BY <2>1, <3>2
  <2> QED BY <1>2, <2>1, <2>2
<1>4. ASSUME NEW r \in Ranks, TakeFormula(r) PROVE ParsingInv'
  <2>1. r \in Others /\ bcast[r] # << >> /\ bcast[r] \in Seq(Packed) /\ solvePc[r] = "start"
    BY <1>4 DEF TakeFormula, Typed
  <2>2. Head(bcast[r]) = TIMEOUT
    BY <2>1, TailFacts DEF ParsingInv
  <2>3. EndAtStart(r, TIMEOUT)
    BY <1>4, <2>2 DEF TakeFormula, AfterFirstBcast, UNKNOWN, TIMEOUT
  <2>4. bcast'[r] = << >>
    <3>1. Waiting(r) = 0
      BY <1>1, <2>1 DEF QueueInv, EndReaches
    <3>2. Len(bcast[r]) - 1 = 0 /\ Len(bcast[r]) \in Nat
      BY <2>1, <3>1, UntakenFacts, EmptyFacts DEF Waiting
    <3>3. bcast'[r] = Tail(bcast[r]) /\ Len(Tail(bcast[r])) = Len(bcast[r]) - 1
          /\ Tail(bcast[r]) \in Seq(Packed)
      BY <1>4, <2>1, TailFacts DEF TakeFormula, Typed
    <3> QED BY <3>2, <3>3, EmptyFacts
  <2>5. \A u \in Ranks : u # Root /\ u # r => bcast'[u] = bcast[u]
    BY <1>4 DEF TakeFormula, Typed
  <2> QED BY <1>2, <2>3, <2>4, <2>5 DEF ParsingInv
<1>5. ~ ExchangeBoard /\ ~ BcastEnd /\ ~ SplitAndGather
  BY <1>1 DEF ExchangeBoard, BcastEnd, SplitAndGather
<1>6. ASSUME NEW r \in Ranks PROVE ~ SharerStep(r) /\ ~ StartWorkers(r) /\ ~ LaunchSharers(r)
  BY <1>1 DEF SharerStep, SendEnd, TakeBcast, ApplyEnd, JoinProcess, SendClauses,
              ReceiveClauses, StartWorkers, LaunchSharers
<1>7. CASE UNCHANGED << solvePc, mpiWinner, bcast >>
  BY <1>7 DEF ParsingInv
<1>8. ASSUME NEW r \in Ranks,
             WorkerWins(r) \/ WorkerStores(r) \/ MainStep(r) \/ (r \in Others /\ Deliver(r))
      PROVE  UNCHANGED << solvePc, mpiWinner, bcast >>
  BY <1>8 DEF WorkerWins, WorkerStores, MainStep, Leave, Expire, JoinThreads, PrintResult,
              Deliver, pcs, ends, network
<1>9. UNCHANGED vars => UNCHANGED << solvePc, mpiWinner, bcast >>
  BY DEF vars, pcs, ends, network
<1> QED BY <1>3, <1>4, <1>5, <1>6, <1>7, <1>8, <1>9 DEF Next, Collective, SolveStep, Finished

LEMMA LateEndStep ==
  ASSUME Typed, Phases, QueueInv, run.deadline \in {"never", "solving"},
         \A u \in Ranks : LateEnd(u), [Next]_vars, NEW r \in Ranks
  PROVE  LateEnd(r)'
<1> USE RankFacts
<1>1. LateEnd(r)
  OBVIOUS
<1>2. CASE /\ solvePc'[r] = solvePc[r] /\ mainPc'[r] = mainPc[r]
           /\ globalEnding'[r] = globalEnding[r] /\ finalResult'[r] = finalResult[r]
           /\ r # Root => bcast'[r] = bcast[r]
  BY <1>1, <1>2 DEF LateEnd
<1>3. CASE Announce
  <2>1. finalResult[Root] = UNKNOWN /\ solvePc[Root] = "start"
    BY <1>3 DEF Announce, LateEnd
  <2>2. /\ solvePc' = [solvePc EXCEPT ![Root] = "build"]
        /\ UNCHANGED << globalEnding, finalResult, mainPc >>
    BY <1>3, <2>1 DEF Announce, AfterFirstBcast, ends
  <2>3. ASSUME r # Root PROVE bcast'[r][1] = UNKNOWN
    <3>1. bcast[r] = << >>
      BY <2>1, <2>3 DEF QueueInv, AnnouncedTo
    <3>2. bcast'[r] = Append(<< >>, UNKNOWN) /\ UNKNOWN \in Packed
      BY <1>3, <2>1, <2>3, <3>1, ZeroPacked DEF Announce
    <3> QED BY <3>2
  <2> QED BY <1>1, <2>1, <2>2, <2>3 DEF LateEnd, Typed
<1>4. ASSUME NEW u \in Ranks, TakeFormula(u) PROVE LateEnd(r)'
  <2>1. u \in Others /\ bcast[u] # << >> /\ bcast[u] \in Seq(Packed) /\ solvePc[u] = "start"
    BY <1>4 DEF TakeFormula, Typed
  <2>2. Head(bcast[u]) = UNKNOWN
    BY <2>1, TailFacts DEF LateEnd
  <2>3. /\ solvePc' = [solvePc EXCEPT ![u] = "build"]
        /\ UNCHANGED << globalEnding, finalResult, mainPc >>
        /\ \A s \in Others : s # u => bcast'[s] = bcast[s]
    BY <1>4, <2>2 DEF TakeFormula, AfterFirstBcast, ends, Typed
  <2> QED BY <1>1, <2>1, <2>3 DEF LateEnd, Typed
<1>5. ASSUME NEW u \in Ranks, StartWorkers(u) PROVE LateEnd(r)'
  <2>1. /\ solvePc[u] = "build" /\ ~ globalEnding[u]
        /\ UNCHANGED << globalEnding, finalResult, mainPc, bcast >>
    BY <1>5 DEF StartWorkers, ends, network, LateEnd
  <2>2. solvePc' = [solvePc EXCEPT ![u] = "workers"]
    BY <1>5, <2>1 DEF StartWorkers
  <2> QED BY <1>1, <2>1, <2>2 DEF LateEnd, Typed
<1>6. ASSUME NEW u \in Ranks, LaunchSharers(u) PROVE LateEnd(r)'
  <2>1. /\ solvePc[u] = "workers" /\ solvePc' = [solvePc EXCEPT ![u] = "launched"]
        /\ UNCHANGED << globalEnding, finalResult, mainPc, bcast >>
    BY <1>6 DEF LaunchSharers, ends, network
  <2> QED BY <1>1, <2>1 DEF LateEnd, Typed
<1>7. ASSUME NEW u \in Ranks, WorkerStores(u) PROVE LateEnd(r)'
  <2>1. /\ solvePc[u] \notin {"start", "build"} /\ UNCHANGED << solvePc, mainPc, bcast >>
        /\ \A s \in Ranks : s # u =>
             globalEnding'[s] = globalEnding[s] /\ finalResult'[s] = finalResult[s]
    BY <1>7 DEF WorkerStores, network, Typed, Phases
  <2> QED BY <1>1, <2>1 DEF LateEnd
<1>8. ASSUME NEW u \in Ranks, Expire(u) PROVE LateEnd(r)'
  <2>1. solvePc[u] = "launched" /\ UNCHANGED << solvePc, bcast >>
    <3>1. mainPc[u] = "wait" => \A s \in Ranks : solvePc[s] = "launched"
      BY <1>8 DEF Expire, MayExpire
    <3>2. mainPc[u] \in {"expire", "expired"} => solvePc[u] = "launched"
      BY DEF LateEnd
    <3> QED BY <1>8, <3>1, <3>2 DEF Expire, network
  <2>2. \A s \in Ranks : s # u => /\ mainPc'[s] = mainPc[s] /\ globalEnding'[s] = globalEnding[s]
                                  /\ finalResult'[s] = finalResult[s]
    BY <1>8 DEF Expire, ends, Typed
  <2> QED BY <1>1, <2>1, <2>2 DEF LateEnd
<1>9. ASSUME NEW u \in Ranks, Leave(u) \/ JoinThreads(u) \/ PrintResult(u) PROVE LateEnd(r)'
  <2>1. /\ UNCHANGED << solvePc, globalEnding, finalResult, bcast >>
        /\ mainPc'[r] \in {"expire", "expired"} => mainPc'[r] = mainPc[r]
    BY <1>9 DEF Leave, JoinThreads, PrintResult, ends, network, Typed
  <2> QED BY <1>1, <2>1 DEF LateEnd
<1>10. ASSUME NEW u \in Ranks, ApplyEnd(u) \/ JoinProcess(u) PROVE LateEnd(r)'
  <2>1. /\ solvePc[u] = "launched" /\ UNCHANGED << solvePc, mainPc, bcast >>
        /\ \A s \in Ranks : s # u =>
             globalEnding'[s] = globalEnding[s] /\ finalResult'[s] = finalResult[s]
    BY <1>10 DEF ApplyEnd, JoinProcess, network, Typed, Phases
  <2> QED BY <1>1, <2>1 DEF LateEnd
<1>11. CASE BcastEnd
  <2>1. UNCHANGED << solvePc, mainPc, globalEnding, finalResult >>
    BY <1>11 DEF BcastEnd, ends
  <2>2. ASSUME r # Root, solvePc[r] = "start" PROVE bcast'[r][1] = UNKNOWN
    <3>1. r \in Others /\ bcast[r] # << >> /\ bcast[r] \in Seq(Packed) /\ bcast[r][1] = UNKNOWN
      BY <1>1, <1>11, <2>2 DEF BcastEnd, QueueInv, AnnouncedTo, LateEnd, Typed, Phases
    <3>2. 1 \in 1 .. Len(bcast[r])
      BY <3>1, EmptyFacts
    <3>3. bcast'[r] = Append(bcast[r], RootVerdict) /\ RootVerdict \in Packed
      BY <1>11, <3>1, VerdictType DEF BcastEnd
    <3> QED BY <3>1, <3>2, <3>3, AppendFacts
  <2> QED BY <1>1, <2>1, <2>2 DEF LateEnd
<1>12. ASSUME NEW u \in Ranks, TakeBcast(u) PROVE LateEnd(r)'
  <2>1. /\ solvePc[u] = "launched" /\ u # Root
        /\ UNCHANGED << solvePc, mainPc, globalEnding, finalResult >>
        /\ \A s \in Others : s # u => bcast'[s] = bcast[s]
    BY <1>12 DEF TakeBcast, ends, Typed, Phases
  <2> QED BY <1>1, <2>1 DEF LateEnd
<1>13. ASSUME NEW u \in Ranks,
              \/ WorkerWins(u) \/ SendEnd(u) \/ SendClauses(u) \/ ReceiveClauses(u)
              \/ (u \in Others /\ Deliver(u))
       PROVE  UNCHANGED << solvePc, mainPc, globalEnding, finalResult, bcast >>
  BY <1>13 DEF WorkerWins, SendEnd, SendClauses, ReceiveClauses, Deliver, pcs, ends, network
<1>14. ExchangeBoard \/ SplitAndGather \/ UNCHANGED vars
         => UNCHANGED << solvePc, mainPc, globalEnding, finalResult, bcast >>
  BY DEF ExchangeBoard, SplitAndGather, vars, pcs, ends, network
<1> QED
  BY <1>2, <1>3, <1>4, <1>5, <1>6, <1>7, <1>8, <1>9, <1>10, <1>11, <1>12, <1>13, <1>14
  DEF Next, Collective, MainStep, SolveStep, SharerStep, Finished

LEMMA RunKept == [Next]_vars => run' = run
BY DEF Next, Collective, Announce, ExchangeBoard, BcastEnd, SplitAndGather, MainStep, Leave,
   Expire, JoinThreads, PrintResult, SolveStep, TakeFormula, StartWorkers, LaunchSharers,
   SharerStep, SendEnd, TakeBcast, ApplyEnd, JoinProcess, SendClauses, ReceiveClauses,
   WorkerWins, WorkerStores, Deliver, Finished, vars

LEMMA OrderlyStep ==
  Typed /\ Phases /\ QueueInv /\ OrderlyInv /\ [Next]_vars => OrderlyInv'
<1> SUFFICES ASSUME Typed, Phases, QueueInv, OrderlyInv, [Next]_vars PROVE OrderlyInv'
  OBVIOUS
<1>1. ASSUME run.deadline = "parsing" PROVE ParsingInv'
  BY <1>1, ParsingStep DEF OrderlyInv
<1>2. ASSUME run.deadline \in {"never", "solving"}, NEW r \in Ranks PROVE LateEnd(r)'
  BY <1>2, LateEndStep DEF OrderlyInv
<1> QED BY <1>1, <1>2, RunKept DEF OrderlyInv
-----------------------------------------------------------------------------
(* A run without a deadline. *)

LEMMA NeverEnds ==
  ASSUME Typed, Phases, PaceInv, NeverInv, run.deadline = "never", NEW r \in Ranks
  PROVE  /\ ApplyEnd(r) => ResultOf(value[r]) = COMPLETE
         /\ JoinProcess(r) => value[r] = COMPLETE
<1>1. Knows(r) => EndOf(r)[2] = COMPLETE
  BY RankFacts DEF PaceInv, QueueInv, EndReaches, NeverInv
<1> QED BY <1>1 DEF ApplyEnd, JoinProcess, Knows, EndOf, EndIn

LEMMA NeverStarts ==
  ASSUME Typed, QueueInv, OrderlyInv, run.deadline = "never", NEW r \in Ranks
  PROVE  Announce \/ TakeFormula(r) => UNCHANGED ends
<1>1. \A u \in Ranks : LateEnd(u)
  BY DEF OrderlyInv
<1>2. Announce => UNCHANGED ends
  BY <1>1, RankFacts DEF LateEnd, Announce, AfterFirstBcast
<1>3. ASSUME TakeFormula(r) PROVE UNCHANGED ends
  <2>1. r \in Others /\ bcast[r] # << >> /\ bcast[r] \in Seq(Packed) /\ solvePc[r] = "start"
    BY <1>3, RankFacts DEF TakeFormula, Typed
  <2>2. Head(bcast[r]) = UNKNOWN
    BY <1>1, <2>1, TailFacts, RankFacts DEF LateEnd
  <2> QED BY <1>3, <2>2 DEF TakeFormula, AfterFirstBcast
<1> QED BY <1>2, <1>3

(* The result of a rank becomes COMPLETE and stays so.                     *)
LEMMA OnlyAnswersEndStep ==
  ASSUME Typed, Phases, PaceInv, OrderlyInv, NeverInv, run.deadline = "never", [Next]_vars,
         NEW r \in Ranks
  PROVE  OnlyAnswersEnd(r)' /\ (finalResult[r] = COMPLETE => finalResult'[r] = COMPLETE)
<1> USE RankFacts
<1> DEFINE Goal == OnlyAnswersEnd(r)' /\ (finalResult[r] = COMPLETE => finalResult'[r] = COMPLETE)
<1>1. OnlyAnswersEnd(r)
  BY DEF NeverInv
<1>2. CASE /\ UNCHANGED << mainPc, globalEnding, finalResult, printed >>
           /\ workerPc'[r] = "wrote" => workerPc[r] = "wrote"
  BY <1>1, <1>2 DEF OnlyAnswersEnd
<1>3. ASSUME NEW u \in Ranks, ApplyEnd(u) PROVE Goal
  <2>1. /\ UNCHANGED << mainPc, globalEnding, workerPc, printed >>
        /\ finalResult' = [finalResult EXCEPT ![u] = COMPLETE]
    BY <1>3, NeverEnds DEF ApplyEnd
  <2> QED BY <1>1, <2>1 DEF OnlyAnswersEnd, Typed
<1>4. ASSUME NEW u \in Ranks, JoinProcess(u) PROVE Goal
  <2>1. /\ UNCHANGED << mainPc, workerPc, printed >>
        /\ globalEnding' = [globalEnding EXCEPT ![u] = TRUE]
        /\ finalResult' = [finalResult EXCEPT ![u] = COMPLETE]
    BY <1>4, NeverEnds DEF JoinProcess
  <2> QED BY <1>1, <2>1 DEF OnlyAnswersEnd, Typed
<1>5. ASSUME NEW u \in Ranks, WorkerStores(u) PROVE Goal
  <2>1. /\ UNCHANGED << mainPc, printed >>
        /\ \A s \in Ranks : s # u => /\ workerPc'[s] = workerPc[s]
                                     /\ globalEnding'[s] = globalEnding[s]
                                     /\ finalResult'[s] = finalResult[s]
    BY <1>5 DEF WorkerStores, Typed
  <2>2. finalResult'[u] = COMPLETE
    <3>1. workerPc[u] = "wrote" => finalResult[u] = COMPLETE
      BY DEF NeverInv, OnlyAnswersEnd
    <3> QED BY <1>5, <3>1 DEF WorkerStores, Typed
  <2> QED BY <1>1, <2>1, <2>2 DEF OnlyAnswersEnd
<1>6. ASSUME NEW u \in Ranks, Leave(u) PROVE Goal
  <2>1. finalResult[u] = COMPLETE
    BY <1>6 DEF Leave, MayExpire, NeverInv, OnlyAnswersEnd
  <2>2. /\ UNCHANGED << globalEnding, finalResult, printed, workerPc >>
        /\ mainPc' = [mainPc EXCEPT ![u] = "join"]
    BY <1>6 DEF Leave, ends
  <2> QED BY <1>1, <2>1, <2>2 DEF OnlyAnswersEnd, Typed
<1>7. ASSUME NEW u \in Ranks PROVE ~ Expire(u)
  BY DEF Expire, MayExpire, NeverInv, OnlyAnswersEnd
<1>8. ASSUME NEW u \in Ranks, JoinThreads(u) PROVE Goal
  <2>1. /\ UNCHANGED << globalEnding, finalResult, printed, workerPc >>
        /\ mainPc[u] = "join" /\ mainPc' = [mainPc EXCEPT ![u] = "finalize"]
    BY <1>8 DEF JoinThreads, ends
  <2> QED BY <1>1, <2>1 DEF OnlyAnswersEnd, Typed
<1>9. ASSUME NEW u \in Ranks, PrintResult(u) PROVE Goal
  <2>1. mainPc[u] = "finalize" /\ finalResult[u] = COMPLETE
    BY <1>9 DEF PrintResult, NeverInv, OnlyAnswersEnd
  <2>2. /\ UNCHANGED << globalEnding, finalResult, workerPc >>
        /\ mainPc' = [mainPc EXCEPT ![u] = "exit"]
        /\ printed' = [printed EXCEPT ![u] = IF mpiWinner[u] # u THEN Nothing ELSE COMPLETE]
    BY <1>9, <2>1 DEF PrintResult, ends
  <2> QED BY <1>1, <2>1, <2>2 DEF OnlyAnswersEnd, Typed
<1>10. ASSUME NEW u \in Ranks, Announce \/ TakeFormula(u)
       PROVE  UNCHANGED << mainPc, globalEnding, finalResult, printed, workerPc >>
  BY <1>10, NeverStarts DEF Announce, TakeFormula, ends, PaceInv
<1>11. ASSUME NEW u \in Ranks, StartWorkers(u) \/ WorkerWins(u)
       PROVE  /\ UNCHANGED << mainPc, globalEnding, finalResult, printed >>
              /\ workerPc'[r] = "wrote" => workerPc[r] = "wrote"
  BY <1>11 DEF StartWorkers, WorkerWins, ends, Typed
<1>12. ASSUME NEW u \in Ranks,
              \/ LaunchSharers(u) \/ SendEnd(u) \/ TakeBcast(u) \/ SendClauses(u)
              \/ ReceiveClauses(u) \/ (u \in Others /\ Deliver(u))
       PROVE  UNCHANGED << mainPc, globalEnding, finalResult, printed, workerPc >>
  BY <1>12 DEF LaunchSharers, SendEnd, TakeBcast, SendClauses, ReceiveClauses, Deliver, pcs, ends
<1>13. ExchangeBoard \/ BcastEnd \/ SplitAndGather \/ UNCHANGED vars
         => UNCHANGED << mainPc, globalEnding, finalResult, printed, workerPc >>
  BY DEF ExchangeBoard, BcastEnd, SplitAndGather, vars, pcs, ends
<1> QED
  BY <1>2, <1>3, <1>4, <1>5, <1>6, <1>7, <1>8, <1>9, <1>10, <1>11, <1>12, <1>13
  DEF Next, Collective, MainStep, SolveStep, SharerStep, Finished

LEMMA OnlyAnswersSentStep ==
  ASSUME Typed, Phases, PaceInv, OrderlyInv, NeverInv, run.deadline = "never", [Next]_vars,
         NEW r \in Others
  PROVE  OnlyAnswersSent(r)'
<1> USE RankFacts
<1>1. OnlyAnswersSent(r) /\ \A u \in Ranks : OnlyAnswersEnd(u)
  BY DEF NeverInv
<1>2. finalResult[r] = COMPLETE => finalResult'[r] = COMPLETE
  BY OnlyAnswersEndStep
<1>3. CASE received'[r] = received[r] /\ message'[r] = message[r]
  BY <1>1, <1>2, <1>3 DEF OnlyAnswersSent
<1>4. ASSUME NEW u \in Ranks, SendEnd(u) PROVE OnlyAnswersSent(r)'
  <2>1. CASE u = r /\ globalEnding[r] /\ ~requestsSent[r]
    <3>1. finalResult[r] = COMPLETE /\ received' = received /\ message'[r] = Live
      BY <1>1, <1>4, <2>1 DEF SendEnd, OnlyAnswersEnd, Typed
    <3> QED BY <1>1, <1>2, <3>1 DEF OnlyAnswersSent
  <2>2. CASE ~ (u = r /\ globalEnding[r] /\ ~requestsSent[r])
    BY <1>3, <1>4, <2>2 DEF SendEnd, Typed
  <2> QED BY <2>1, <2>2
<1>5. ASSUME NEW u \in Others, Deliver(u) PROVE OnlyAnswersSent(r)'
  <2>1. CASE u = r
    <3>1. /\ message'[r] = Delivered
          /\ received'[r] = IF message[r] = Live THEN finalResult[r] ELSE message[r]
          /\ message[r] \notin {Nothing, Delivered}
      BY <1>5, <2>1 DEF Deliver, Typed
    <3>2. received'[r] = COMPLETE
      BY <1>1, <3>1 DEF OnlyAnswersSent
    <3> QED BY <3>1, <3>2 DEF OnlyAnswersSent, Delivered, Live
  <2>2. CASE u # r
    BY <1>3, <1>5, <2>2 DEF Deliver, Typed
  <2> QED BY <2>1, <2>2
<1>6. ASSUME NEW u \in Ranks, ApplyEnd(u) PROVE OnlyAnswersSent(r)'
  <2>1. CASE u = r /\ ~requestsSent[r]
    <3>1. message'[r] = COMPLETE /\ received' = received
      BY <1>6, <2>1, NeverEnds DEF ApplyEnd, LastMessage, Typed
    <3> QED BY <1>1, <3>1 DEF OnlyAnswersSent, COMPLETE, Live
  <2>2. CASE ~ (u = r /\ ~requestsSent[r])
    BY <1>3, <1>6, <2>2 DEF ApplyEnd, LastMessage, Typed
  <2> QED BY <2>1, <2>2
<1>7. ASSUME NEW u \in Ranks,
             \/ MainStep(u) \/ SolveStep(u) \/ WorkerWins(u) \/ WorkerStores(u)
             \/ TakeBcast(u) \/ JoinProcess(u) \/ SendClauses(u) \/ ReceiveClauses(u)
      PROVE  UNCHANGED << received, message >>
  BY <1>7 DEF MainStep, Leave, Expire, JoinThreads, PrintResult, SolveStep, TakeFormula,
     StartWorkers, LaunchSharers, WorkerWins, WorkerStores, TakeBcast, JoinProcess, SendClauses,
     ReceiveClauses, network
<1>8. Collective \/ UNCHANGED vars => UNCHANGED << received, message >>
  BY DEF Collective, Announce, ExchangeBoard, BcastEnd, SplitAndGather, vars, network
<1> QED BY <1>3, <1>4, <1>5, <1>6, <1>7, <1>8 DEF Next, SharerStep, Finished

(* What the root decides on is an answer.                                  *)
LEMMA NeverVerdict ==
  ASSUME Typed, NeverInv, run.deadline = "never", RootVerdict # 0
  PROVE  EndIn(RootVerdict)[2] = COMPLETE
<1> USE RankFacts
<1>1. COMPLETE \in Results
  BY DEF Results
<1>2. CASE globalEnding[Root]
  <2>1. RootVerdict = Pack(Root, COMPLETE)
    BY <1>2 DEF RootVerdict, NeverInv, OnlyAnswersEnd
  <2> QED BY <1>1, <2>1, UnpackPacked DEF EndIn
<1>3. CASE ~ globalEnding[Root]
  <2> DEFINE got == {r \in Others : received[r] # Nothing}
             answers == {r \in got : received[r] # TIMEOUT}
  <2>1. got # {}
    BY <1>3 DEF RootVerdict, Verdict
  <2>2. Last(got) \in got /\ (answers # {} => Last(answers) \in answers)
    BY <2>1, LastFacts
  <2>3. received[Last(got)] = COMPLETE
    BY <2>2 DEF NeverInv, OnlyAnswersSent
  <2>4. (IF answers = {} THEN Root ELSE Last(answers)) \in Ranks
    BY <2>2
  <2>5. RootVerdict = Pack(IF answers = {} THEN Root ELSE Last(answers), COMPLETE)
    BY <1>3, <2>1, <2>3 DEF RootVerdict, Verdict
  <2> QED BY <1>1, <2>4, <2>5, UnpackPacked DEF EndIn
<1> QED BY <1>2, <1>3

LEMMA NeverStep ==
  Typed /\ Phases /\ PaceInv /\ AnswerInv /\ (Orderly => OrderlyInv) /\ NeverInv /\ [Next]_vars
    => NeverInv'
<1> SUFFICES ASSUME Typed, Phases, PaceInv, AnswerInv, Orderly => OrderlyInv, NeverInv,
                    [Next]_vars, run.deadline = "never"
             PROVE  /\ \A r \in Ranks : OnlyAnswersEnd(r)'
                    /\ \A r \in Others : OnlyAnswersSent(r)'
                    /\ Knows(Root)' => EndOf(Root)'[2] = COMPLETE
  BY RunKept DEF NeverInv
<1>1. OrderlyInv
  BY DEF Orderly
<1>2. \A r \in Ranks : OnlyAnswersEnd(r)'
  BY <1>1, OnlyAnswersEndStep
<1>3. \A r \in Others : OnlyAnswersSent(r)'
  BY <1>1, OnlyAnswersSentStep
<1>4. ASSUME Knows(Root)' PROVE EndOf(Root)'[2] = COMPLETE
  <2>1. CASE Knows(Root)
    BY <2>1, RootEndStep DEF NeverInv
  <2>2. CASE ~ Knows(Root)
    <3>1. RootVerdict # 0 /\ EndOf(Root)' = EndIn(RootVerdict)
      BY <1>4, <2>2, RootEndStep
    <3> QED BY <3>1, NeverVerdict
  <2> QED BY <2>1, <2>2
<1> QED BY <1>2, <1>3, <1>4
-----------------------------------------------------------------------------
(* The invariant. *)

LEMMA InitEnd == Init => EndInv
<1> SUFFICES ASSUME Init PROVE EndInv
  OBVIOUS
<1> USE RankFacts
<1>1. /\ run \in Runs
      /\ \A r \in Ranks : /\ mainPc[r] = "wait" /\ solvePc[r] = "start" /\ workerPc[r] = "off"
                          /\ sharerPc[r] = "off" /\ globalEnding[r] = FALSE
                          /\ finalResult[r] = UNKNOWN /\ mpiWinner[r] = NoRank /\ value[r] = 0
                          /\ requestsSent[r] = FALSE /\ printed[r] = Nothing
      /\ \A r \in Others : message[r] = Nothing /\ received[r] = Nothing /\ bcast[r] = << >>
      /\ \A p \in Ranks \X Ranks : mail[p] = 0
  BY DEF Init
<1>2. \A r \in Ranks : ~ Knows(r)
  BY <1>1 DEF Knows
<1>3. ASSUME NEW r \in Ranks PROVE Waiting(r) = 0
  <2>1. << >> \in Seq(Packed)
    OBVIOUS
  <2>2. r # Root => bcast[r] = << >>
    BY <1>1
  <2> QED BY <2>1, <2>2, UntakenFacts DEF Waiting
<1>4. \A r \in Ranks : Lag(r) = 0
  BY <1>1, <1>2, <1>3 DEF Lag, Bit
<1>5. Typed
  <2>1. UNKNOWN \in Results
    BY DEF Results
  <2>2. /\ bcast \in [Others -> Seq(Packed)]
        /\ \A r \in Others : Len(bcast[r]) <= MaxAhead
    <3>1. \A r \in Others : bcast[r] \in Seq(Packed) /\ Len(bcast[r]) = 0
      <4>1. << >> \in Seq(Packed) /\ Len(<< >>) = 0
        OBVIOUS
      <4> QED BY <1>1, <4>1
    <3> QED BY <3>1, DistributedAssumption DEF Init
  <2> QED BY <2>1, <2>2, ZeroPacked DEF Init, Typed, MainPc, SolvePc, WorkerPc, SharerPc
<1>6. Phases
  BY <1>1 DEF Phases
<1>7. QueueInv
  <2>1. ASSUME NEW r \in Others PROVE AnnouncedTo(r) /\ RoundsOf(r) /\ EndReaches(r)
    <3>1. Len(bcast[r]) = 0
      BY <1>1
    <3> QED BY <1>1, <1>2, <1>3, <3>1 DEF AnnouncedTo, RoundsOf, EndReaches
  <2> QED BY <2>1 DEF QueueInv
<1>8. BoardsMatch /\ GathersMatch
  BY <1>1, <1>3, <1>4 DEF BoardsMatch, GathersMatch, Bit
<1>9. MailMatch
  BY <1>1, <1>4 DEF MailMatch, Bit
<1>10. MessageInv
  BY <1>1, <1>2 DEF MessageInv
<1>11. AnswerInv /\ PrintsOwnAnswer
  BY <1>1, <1>2 DEF AnswerInv, PrintsOwnAnswer, UNKNOWN, COMPLETE, Nothing
<1>12. PrintInv
  BY <1>1 DEF PrintInv
<1>13. OrderlyInv
  BY <1>1 DEF OrderlyInv, ParsingInv, LateEnd
<1>14. NeverInv
  BY <1>1, <1>2 DEF NeverInv, OnlyAnswersEnd, OnlyAnswersSent, Nothing, Live
<1> QED
  BY <1>5, <1>6, <1>7, <1>8, <1>9, <1>10, <1>11, <1>12, <1>13, <1>14 DEF EndInv, PaceInv

LEMMA EndStep == EndInv /\ [Next]_vars => EndInv'
<1> SUFFICES ASSUME EndInv, [Next]_vars PROVE EndInv'
  OBVIOUS
<1>1. /\ Typed /\ Phases /\ PaceInv /\ MessageInv /\ AnswerInv /\ PrintInv /\ PrintsOwnAnswer
      /\ Orderly => OrderlyInv
      /\ NeverInv /\ QueueInv
  BY DEF EndInv, PaceInv
<1>2. Typed' /\ Phases' /\ PaceInv' /\ MessageInv' /\ AnswerInv'
  BY <1>1, TypedStep, PhasesStep, PaceStep, MessageStep, AnswerStep
<1>3. PrintInv' /\ PrintsOwnAnswer'
  BY <1>1, PrintStep, OwnAnswerStep
<1>4. (Orderly => OrderlyInv)'
  BY <1>1, OrderlyStep, RunKept DEF Orderly
<1>5. NeverInv'
  BY <1>1, NeverStep
<1> QED BY <1>2, <1>3, <1>4, <1>5 DEF EndInv

(* In every run over MPI the broadcasts, the exchanges and the end         *)
(* messages of the ranks fit together (GlobalSharingStrategy.cpp,          *)
(* AllGatherSharing.cpp, GenericGlobalSharing.cpp).                        *)
THEOREM EndCorrect == Spec => []EndInv
<1> QED BY InitEnd, EndStep, PTL DEF Spec

-----------------------------------------------------------------------------
(* What follows. *)

(* What MailMatch says of both directions bounds each of them.             *)
LEMMA EndTypes == EndInv => TypeOK
<1> SUFFICES ASSUME EndInv PROVE TypeOK
  OBVIOUS
<1>1. Typed /\ MailMatch
  BY DEF EndInv, PaceInv
<1>2. ASSUME NEW r \in Ranks, NEW s \in Ranks PROVE mail[<< s, r >>] <= 2
  <2>1. mail[<< s, r >>] \in Nat /\ mail[<< r, s >>] \in Nat /\ Lag(r) \in Int /\ Lag(s) \in Int
    BY <1>1, CountTypes DEF Typed
  <2>2. CASE s \notin Neighbours(r)
    BY <1>1, <2>2 DEF MailMatch
  <2>3. CASE s \in Neighbours(r)
    <3>1. r \in Neighbours(s)
      BY <2>3, NeighboursFacts
    <3>2. /\ mail[<< s, r >>] = Lag(r) - Lag(s) + Bit(sharerPc[r] = "recv")
          /\ mail[<< r, s >>] = Lag(s) - Lag(r) + Bit(sharerPc[s] = "recv")
      BY <1>1, <2>3, <3>1 DEF MailMatch
    <3>3. Bit(sharerPc[r] = "recv") \in {0, 1} /\ Bit(sharerPc[s] = "recv") \in {0, 1}
      BY DEF Bit
    <3> QED BY <2>1, <3>2, <3>3
  <2> QED BY <2>2, <2>3
<1>3. mail \in [Ranks \X Ranks -> 0 .. 2]
  <2>1. ASSUME NEW p \in Ranks \X Ranks PROVE mail[p] \in 0 .. 2
    <3>1. p = << p[1], p[2] >> /\ p[1] \in Ranks /\ p[2] \in Ranks /\ mail[p] \in Nat
      BY <1>1 DEF Typed
    <3>2. mail[p] <= 2
      BY <1>2, <3>1
    <3> QED BY <3>1, <3>2
  <2> QED BY <1>1, <2>1 DEF Typed
<1> QED BY <1>1, <1>3 DEF Typed, TypeOK

(* Types; between two ranks no more than two messages of clauses are on    *)
(* their way in the ring, so that buffered sends cannot pile up.           *)
THEOREM EndTypeCorrect == Spec => []TypeOK
<1> QED BY EndCorrect, EndTypes, PTL

(* A rank prints the backbone only when its own worker answered            *)
(* (painless.cpp, the winner of the end that the root broadcast).          *)
THEOREM PrintsOwnAnswerCorrect == Spec => []PrintsOwnAnswer
<1>1. EndInv => PrintsOwnAnswer
  BY DEF EndInv
<1> QED BY <1>1, EndCorrect, PTL

(* A rank whose main has joined its threads is done with its sharer.       *)
LEMMA JoinedFacts ==
  ASSUME EndInv, NEW r \in Ranks, mainPc[r] \in {"finalize", "exit"}
  PROVE  /\ solvePc[r] = "launched" => sharerPc[r] = "stopped"
         /\ solvePc[r] = "returned" => sharerPc[r] = "off"
         /\ solvePc[r] \in {"launched", "returned"}
BY DEF EndInv, Phases

(* Ranks that know the end know the same one.                              *)
LEMMA SameEnd ==
  ASSUME EndInv, NEW r \in Ranks, Knows(r)
  PROVE  Knows(Root) /\ EndOf(r) = EndOf(Root) /\ Waiting(r) = 0
<1>1. CASE r = Root
  BY <1>1 DEF Waiting
<1>2. CASE r # Root
  <2>1. r \in Others /\ bcast[r] = << >> /\ Knows(Root) /\ EndOf(r) = EndOf(Root)
    BY <1>2, RankFacts DEF EndInv, PaceInv, QueueInv, EndReaches
  <2>2. bcast[r] \in Seq(Packed)
    BY <2>1 DEF EndInv, Typed
  <2> QED BY <1>2, <2>1, <2>2, UntakenFacts DEF Waiting
<1> QED BY <1>1, <1>2

LEMMA NothingIsPending == EndInv => NothingPending
<1> SUFFICES ASSUME EndInv PROVE NothingPending
  OBVIOUS
<1> USE RankFacts
<1>1. ASSUME NEW r \in Others, mainPc[r] \in {"finalize", "exit"}
      PROVE  message[r] \in {Nothing, Delivered}
  <2>1. sharerPc[r] \in {"off", "stopped"}
    BY <1>1, JoinedFacts
  <2> QED BY <2>1 DEF EndInv, MessageInv
<1>2. ASSUME mainPc[Root] \in {"finalize", "exit"}, solvePc[Root] = "launched"
      PROVE  \A r \in Others : received[r] # Nothing
  BY <1>2, JoinedFacts DEF EndInv, MessageInv
<1>3. ASSUME AllDone, NEW p \in Ranks \X Ranks PROVE mail[p] = 0
  <2>1. PICK s \in Ranks, r \in Ranks : p = << s, r >>
    OBVIOUS
  <2>2. sharerPc[r] # "recv" /\ sharerPc[s] # "recv"
    BY <1>3, JoinedFacts DEF AllDone
  <2>3. mail[<< s, r >>] \in Nat /\ mail[<< r, s >>] \in Nat /\ Lag(r) \in Int /\ Lag(s) \in Int
    BY CountTypes DEF EndInv, Typed
  <2>4. CASE s \in Neighbours(r)
    <3>1. r \in Neighbours(s)
      BY <2>4, NeighboursFacts
    <3>2. /\ mail[<< s, r >>] = Lag(r) - Lag(s) + 0
          /\ mail[<< r, s >>] = Lag(s) - Lag(r) + 0
      BY <2>2, <2>4, <3>1 DEF EndInv, PaceInv, MailMatch, Bit
    <3> QED BY <2>1, <2>3, <3>2
  <2>5. CASE s \notin Neighbours(r)
    BY <2>1, <2>5 DEF EndInv, PaceInv, MailMatch
  <2> QED BY <2>4, <2>5
<1> QED BY <1>1, <1>2, <1>3 DEF NothingPending

(* Nothing is on its way when MPI_Finalize is called: every end message    *)
(* was received and so were the clauses (joinProcess waits for them).      *)
THEOREM NothingPendingCorrect == Spec => []NothingPending
<1> QED BY EndCorrect, NothingIsPending, PTL

LEMMA AnswerIsPrinted == EndInv => AnswerSurvives
<1> SUFFICES ASSUME EndInv, AllDone, run.deadline = "never"
             PROVE  \E r \in Ranks : printed[r] = COMPLETE
  BY DEF AnswerSurvives
<1>1. ASSUME NEW r \in Ranks PROVE sharerPc[r] = "stopped"
  <2>1. solvePc[r] # "returned"
    BY DEF EndInv, Orderly, OrderlyInv, LateEnd
  <2> QED BY <2>1, JoinedFacts DEF AllDone
<1>2. ASSUME NEW r \in Ranks PROVE Knows(r) /\ EndOf(r) = << mpiWinner[r], value[r] >>
  BY <1>1 DEF Knows, EndOf
<1>3. mpiWinner[Root] \in Ranks
  BY <1>1, RankFacts DEF EndInv, Phases
<1>4. mpiWinner[mpiWinner[Root]] = mpiWinner[Root]
  <2>1. EndOf(mpiWinner[Root]) = EndOf(Root)
    BY <1>2, <1>3, SameEnd
  <2> QED BY <1>2, <1>3, <2>1, RankFacts
<1>5. printed[mpiWinner[Root]] # Nothing
  BY <1>3, <1>4 DEF EndInv, PrintInv, AllDone
<1>6. printed[mpiWinner[Root]] = COMPLETE
  BY <1>3, <1>5 DEF EndInv, NeverInv, OnlyAnswersEnd
<1> QED BY <1>3, <1>6

(* Without -t the run ends only because a rank answered, and the end that  *)
(* the root announces names one that did: this rank prints the backbone.   *)
THEOREM AnswerSurvivesCorrect == Spec => []AnswerSurvives
<1> QED BY EndCorrect, AnswerIsPrinted, PTL

LEMMA CallsMatch == EndInv /\ Orderly => NobodyLeftWaiting
<1> SUFFICES ASSUME EndInv, Orderly, NEW r \in Ranks, NEW s \in Ranks, WaitsFor(r, s)
             PROVE  sharerPc[s] # "stopped" /\ solvePc[s] # "returned"
  BY DEF NobodyLeftWaiting
<1> USE RankFacts
<1>1. sharerPc[r] \in {"board", "share", "bcast", "recv"} /\ ~ Knows(r)
  BY DEF WaitsFor, Knows
<1>2. solvePc[s] # "returned"
  <2>1. solvePc[r] = "launched"
    BY <1>1 DEF EndInv, Phases
  <2>2. run.deadline # "parsing"
    BY <2>1 DEF EndInv, OrderlyInv, ParsingInv
  <2>3. run.deadline \in {"never", "solving"}
    BY <2>2, DistributedAssumption DEF Orderly, EndInv, Typed, RunType
  <2> QED BY <2>3 DEF EndInv, OrderlyInv, LateEnd
<1>3. ASSUME sharerPc[s] = "stopped" PROVE FALSE
  <2>1. Knows(s) /\ Knows(Root) /\ Waiting(s) = 0 /\ r # Root
    BY <1>1, <1>3, SameEnd DEF Knows
  <2>2. Waiting(r) > 0 /\ Waiting(r) \in Int
    BY <1>1, <2>1, CountTypes DEF EndInv, PaceInv, QueueInv, EndReaches
  <2>3. sharerPc[Root] \notin {"test", "share"}
    BY <2>1 DEF Knows
  <2>4. CASE sharerPc[r] = "board"
    <3>1. run.board
      BY <2>4 DEF EndInv, Phases
    <3>2. Waiting(r) + 0 = 0
      BY <2>3, <2>4, <3>1 DEF EndInv, PaceInv, BoardsMatch, Bit
    <3> QED BY <2>2, <3>2
  <2>5. CASE sharerPc[r] = "share" /\ run.strategy = "allgather"
    <3>1. Lag(r) = Lag(Root)
      BY <2>5 DEF EndInv, PaceInv, GathersMatch
    <3>2. Lag(Root) = 0
      BY <2>1, <2>3 DEF Lag, Waiting, Bit
    <3>3. Lag(r) = Waiting(r) - 1 + 1
      BY <1>1, <2>1, <2>5 DEF Lag, Bit
    <3> QED BY <2>2, <3>1, <3>2, <3>3
  <2>6. CASE s = Root /\ sharerPc[r] = "bcast" /\ bcast[r] = << >>
    <3>1. bcast[r] \in Seq(Packed)
      BY <2>1 DEF EndInv, Typed
    <3>2. Waiting(r) = 0
      BY <2>1, <2>6, <3>1, UntakenFacts DEF Waiting
    <3> QED BY <2>2, <3>2
  <2>7. CASE sharerPc[r] = "recv" /\ s \in Neighbours(r) /\ mail[<< s, r >>] = 0
    <3>1. 0 = Lag(r) - Lag(s) + 1
      BY <2>7 DEF EndInv, PaceInv, MailMatch, Bit
    <3>2. Lag(s) = 0
      <4>1. Bit(Knows(Root) /\ ~Knows(s)) = 0 /\ Bit(sharerPc[s] = "share") = 0
        BY <1>3, <2>1 DEF Bit
      <4> QED BY <2>1, <4>1 DEF Lag
    <3>3. Lag(r) = Waiting(r) - 1 + 0
      BY <1>1, <2>1, <2>7 DEF Lag, Bit
    <3> QED BY <2>2, <3>1, <3>2, <3>3
  <2> QED BY <2>4, <2>5, <2>6, <2>7 DEF WaitsFor
<1> QED BY <1>2, <1>3

(* Unless the deadline may strike between the broadcast of the formula and *)
(* the start of the sharers, the collective calls match: no rank waits for *)
(* one that has stopped or never started (GlobalSharingStrategy.cpp:138).  *)
THEOREM NobodyLeftWaitingCorrect == Spec => [](Orderly => NobodyLeftWaiting)
<1>1. EndInv => (Orderly => NobodyLeftWaiting)
  BY CallsMatch
<1> QED BY <1>1, EndCorrect, PTL

LEMMA OnePrints == EndInv /\ Orderly => OneWinner
<1> SUFFICES ASSUME EndInv, Orderly PROVE OneWinner
  OBVIOUS
<1> USE RankFacts
<1>1. ASSUME NEW r \in Ranks, NEW s \in Ranks, sharerPc[r] = "stopped", sharerPc[s] = "stopped"
      PROVE  mpiWinner[r] = mpiWinner[s] /\ value[r] = value[s]
  <2>1. Knows(r) /\ Knows(s) /\ EndOf(r) = << mpiWinner[r], value[r] >>
        /\ EndOf(s) = << mpiWinner[s], value[s] >>
    BY <1>1 DEF Knows, EndOf
  <2>2. EndOf(r) = EndOf(s)
    BY <2>1, SameEnd
  <2> QED BY <2>1, <2>2
<1>2. ASSUME AllDone PROVE Cardinality({r \in Ranks : printed[r] # Nothing}) = 1
  <2>1. \A r \in Ranks : printed[r] # Nothing <=> mpiWinner[r] = r
    BY <1>2 DEF AllDone, EndInv, PrintInv
  <2>2. \E w \in Ranks : \A r \in Ranks : mpiWinner[r] = w
    <3>1. CASE run.deadline = "parsing"
      <4>1. \A r \in Ranks : solvePc[r] = "returned"
        BY <1>2, <3>1, JoinedFacts DEF AllDone, EndInv, OrderlyInv, ParsingInv
      <4> QED BY <3>1, <4>1 DEF EndInv, OrderlyInv, ParsingInv
    <3>2. CASE run.deadline # "parsing"
      <4>1. run.deadline \in {"never", "solving"}
        BY <3>2, DistributedAssumption DEF Orderly, EndInv, Typed, RunType
      <4>2. \A r \in Ranks : solvePc[r] # "returned"
        BY <4>1 DEF EndInv, OrderlyInv, LateEnd
      <4>3. \A r \in Ranks : sharerPc[r] = "stopped"
        BY <1>2, <4>2, JoinedFacts DEF AllDone
      <4>4. mpiWinner[Root] \in Ranks
        BY <4>3 DEF EndInv, Phases
      <4> QED BY <1>1, <4>3, <4>4
    <3> QED BY <3>1, <3>2
  <2>3. PICK w \in Ranks : \A r \in Ranks : mpiWinner[r] = w
    BY <2>2
  <2>4. {r \in Ranks : printed[r] # Nothing} = {w}
    BY <2>1, <2>3
  <2> QED BY <2>4, FS_Singleton
<1> QED BY <1>1, <1>2 DEF OneWinner

(* Unless the deadline may strike there, the ranks agree on the winner and *)
(* the result, and exactly one rank prints (painless.cpp, mpi_winner).   *)
THEOREM OneWinnerCorrect == Spec => [](Orderly => OneWinner)
<1>1. EndInv => (Orderly => OneWinner)
  BY OnePrints
<1> QED BY <1>1, EndCorrect, PTL
=============================================================================
