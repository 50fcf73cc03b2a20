-------------------------- MODULE CadiBackPartition --------------------------
(***************************************************************************)
(* The workers that choose their chunks by blocks of candidates:           *)
(* CadiBackSqrt (consecutive blocks), and CadiBackPartition, whose workers *)
(* split the variables into parts and either walk through all of them, or  *)
(* claim the blocks they check in a table shared with the board and wait   *)
(* for the answers of the others (steal mode).  The rest of the search is  *)
(* CadiBack's.                                                             *)
(*                                                                         *)
(* One step is one access to the table.  The table may be exchanged with   *)
(* other ranks: what their workers do is an environment that claims blocks *)
(* and publishes what is true.                                             *)
(***************************************************************************)
EXTENDS CadiBack, FiniteSetsExt

CONSTANTS Mode,        \* [Workers -> {"prefix", "sqrt", "walk", "steal"}]
          PartIndex,   \* [Workers -> 0 .. PartCount - 1], m_partIndex
          PartCount,   \* m_partCount, the number of d workers of all ranks
          Rank,        \* [Vars -> Nat], the rank by occurrences, one to one
          BlockVars,   \* B, the variables of a block
          OtherRanks   \* the indices of the d workers of the other ranks

ASSUME PartitionAssumption ==
  /\ Mode \in [Workers -> {"prefix", "sqrt", "walk", "steal"}]
  /\ PartCount \in Nat \ {0}
  /\ PartIndex \in [Workers -> 0 .. PartCount - 1]
  /\ \A u, w \in Workers :
       Mode[u] \in {"walk", "steal"} /\ Mode[w] \in {"walk", "steal"} /\ u # w =>
         PartIndex[u] # PartIndex[w]
  /\ IsFiniteSet(Vars) /\ Rank \in [Vars -> 0 .. Cardinality(Vars) - 1]
  /\ \A u, v \in Vars : u # v => Rank[u] # Rank[v]
  /\ BlockVars \in Nat \ {0}
  /\ OtherRanks \subseteq 0 .. PartCount - 1
  /\ \A w \in Workers : Mode[w] \in {"walk", "steal"} => PartIndex[w] \notin OtherRanks

CeilDiv(a, b) == (a + b - 1) \div b

(* The parts and the blocks, the same on every worker of every rank. *)
PartOf(v) == Rank[v] % PartCount

BlocksPerPart == CeilDiv(CeilDiv(Cardinality(Vars), PartCount), BlockVars)

BlockOfVar(v) == PartOf(v) * BlocksPerPart + (Rank[v] \div PartCount) \div BlockVars

Blocks == 0 .. PartCount * BlocksPerPart - 1

BlocksOf(part) == part * BlocksPerPart .. (part + 1) * BlocksPerPart - 1

NoBlock == -1

RelativePart(w, v) == (PartOf(v) + PartCount - PartIndex[w]) % PartCount

(* Steal mode needs the board both ways and complete, else the worker walks. *)
Stealing(w) ==
  Mode[w] = "steal" /\ w \in Consumers /\ Publishes[w] = {"backbone", "free"}

(* Order is the order of the candidates once initCandidates sorted them:   *)
(* by part and, in steal mode, by block.                                   *)
ASSUME SortedAssumption ==
  \A w \in Workers : Mode[w] \in {"walk", "steal"} =>
    \A u, v \in Vars :
      (\/ RelativePart(w, u) < RelativePart(w, v)
       \/ /\ Stealing(w) /\ RelativePart(w, u) = RelativePart(w, v)
          /\ BlockOfVar(u) < BlockOfVar(v)) => Order[w][u] < Order[w][v]

(* PartClaims::code: the lower the index, the higher the code; PartCount    *)
(* stands for MAX_WORKERS, and 0 is a free block.                          *)
Code(index) == PartCount - index
Free == 0
Me(w) == Code(PartIndex[w])

VARIABLES
  owner,    \* PartClaims::m_owner
  current,  \* m_current of a stealing worker, m_currentBlock of the others
  blockOf,  \* m_blockOf, the blocks of the workers that do not steal
  ownNext,  \* m_ownNext
  hunt,     \* where a worker is in claimNextBlock
  unread,   \* the blocks whose owner the scan of claimNextBlock did not read yet
  free      \* the blocks that the scan has seen free

localVars == << current, blockOf, ownNext, hunt, unread, free >>
partVars == << owner, localVars >>

PartTypeOK ==
  /\ TypeOK
  /\ owner \in [Blocks -> 0 .. PartCount]
  /\ current \in [Workers -> Int]
  /\ blockOf \in [Workers -> [Vars -> Int]]
  /\ ownNext \in [Workers -> 0 .. BlocksPerPart]
  /\ hunt \in [Workers -> {"none", "own", "scan"}]
  /\ unread \in [Workers -> SUBSET Blocks]
  /\ free \in [Workers -> SUBSET Blocks]

PartInit ==
  /\ Init
  /\ owner = [b \in Blocks |-> Free]
  /\ current = [w \in Workers |-> NoBlock]
  /\ blockOf = [w \in Workers |-> [v \in Vars |-> NoBlock]]
  /\ ownNext = [w \in Workers |-> 0]
  /\ hunt = [w \in Workers |-> "none"]
  /\ unread = [w \in Workers |-> {}]
  /\ free = [w \in Workers |-> {}]
-----------------------------------------------------------------------------
(* initCandidates, after the first model: the blocks of each worker.       *)

CeilSqrt(n) == Min({s \in 0 .. n : s * s >= n})

(* The position of the candidate of v among the initial candidates. *)
Position(w, v) ==
  Cardinality({l \in cand[w] : Order[w][VarOf(l)] < Order[w][v]})

InitialBlock(w, v) ==
  IF \A l \in cand[w] : VarOf(l) # v THEN NoBlock
  ELSE IF Mode[w] = "sqrt"
       THEN Position(w, v) \div Max({1, CeilSqrt(Cardinality(cand[w]))})
       ELSE RelativePart(w, v)

InitCandidates(w) ==
  /\ FilterDone(w) /\ chunk[w] = {}
  /\ blockOf' = [blockOf EXCEPT ![w] = [v \in Vars |-> InitialBlock(w, v)]]
  /\ UNCHANGED << owner, current, ownNext, hunt, unread, free >>
-----------------------------------------------------------------------------
(* CadiBackSqrt::selectChunk: candidates of the block of the first one.    *)

FirstBlock(w) ==
  blockOf[w][CHOOSE v \in Vars :
               /\ \E l \in cand[w] : VarOf(l) = v
               /\ \A l \in cand[w] : Order[w][v] <= Order[w][VarOf(l)]]

(* The first n candidates, up to the first one of another block. *)
PrefixOfBlock(w, b, n) ==
  {l \in Prefix(w, cand[w], n) :
     \A k \in cand[w] : Order[w][VarOf(k)] <= Order[w][VarOf(l)] => blockOf[w][VarOf(k)] = b}

SelectBlock(w, b) ==
  /\ pc[w] = "select" /\ ~ Stealing(w) /\ Mode[w] # "prefix"
  /\ LET size == IF b # current[w] THEN StartSize(w) ELSE chunkSize[w]
     IN /\ chunkSize' = [chunkSize EXCEPT ![w] = size]
        /\ ConstrainWith(w, PrefixOfBlock(w, b, size))
  /\ current' = [current EXCEPT ![w] = b]
  /\ UNCHANGED << owner, blockOf, ownNext, hunt, unread, free >>

(* Mutant: the block is only looked for again after a refutation. *)
SelectStaleBlock(w) ==
  SelectBlock(w, IF current[w] = NoBlock \/ chunk[w] \subseteq backbone[w]
                 THEN FirstBlock(w) ELSE current[w])

SelectInBlock(w) == SelectBlock(w, FirstBlock(w))
-----------------------------------------------------------------------------
(* CadiBackPartition::selectChunk in steal mode.                           *)

(* gatherChunk: the first candidates of a block. *)
Gather(w, b, n) == Prefix(w, {l \in cand[w] : BlockOfVar(VarOf(l)) = b}, n)

Hunt(w, h) == hunt' = [hunt EXCEPT ![w] = h]

(* Mutant: the owner of the current block is not read again. *)
KeepLostBlock(w) ==
  /\ pc[w] = "select" /\ Stealing(w) /\ hunt[w] = "none"
  /\ LET c == Gather(w, current[w], chunkSize[w])
     IN IF c # {}
        THEN ConstrainWith(w, c) /\ UNCHANGED << chunkSize, current, hunt >>
        ELSE /\ current' = [current EXCEPT ![w] = NoBlock]
             /\ Hunt(w, "own")
             /\ UNCHANGED vars
  /\ UNCHANGED << owner, blockOf, ownNext, unread, free >>

(* The current block, if no other rank took it over and it is not done; or *)
(* else the start of claimNextBlock.                                       *)
KeepBlock(w) ==
  /\ pc[w] = "select" /\ Stealing(w) /\ hunt[w] = "none"
  /\ LET mine == current[w] # NoBlock /\ owner[current[w]] = Me(w)
         c == Gather(w, current[w], chunkSize[w])
     IN IF mine /\ c # {}
        THEN ConstrainWith(w, c) /\ UNCHANGED << chunkSize, current, hunt >>
        ELSE /\ current' = [current EXCEPT ![w] = NoBlock]
             /\ Hunt(w, "own")
             /\ UNCHANGED vars
  /\ UNCHANGED << owner, blockOf, ownNext, unread, free >>

(* Mutant: every block is taken for one that holds candidates. *)
EveryBlock(w) == Blocks

(* The blocks that hold candidates of the worker (m_present). *)
Present(w) == {BlockOfVar(VarOf(l)) : l \in cand[w]}

(* Mutant: a claim is a store, whoever owns the block. *)
MayAlwaysClaim(w, b) == TRUE

(* tryClaim succeeds: a compare-and-swap from 0, or the owner already. *)
MayClaim(w, b) == owner[b] \in {Free, Me(w)}

(* A successful claim, and the first chunk of the block. *)
TakeBlock(w, b) ==
  /\ MayClaim(w, b)
  /\ owner' = [owner EXCEPT ![b] = Me(w)]
  /\ current' = [current EXCEPT ![w] = b]
  /\ Hunt(w, "none")
  /\ chunkSize' = [chunkSize EXCEPT ![w] = StartSize(w)]
  /\ ConstrainWith(w, Gather(w, b, StartSize(w)))

(* One block of the own part, from the front. *)
ClaimOwn(w) ==
  /\ hunt[w] = "own" /\ ownNext[w] < BlocksPerPart
  /\ ownNext' = [ownNext EXCEPT ![w] = @ + 1]
  /\ LET b == PartIndex[w] * BlocksPerPart + ownNext[w]
     IN \/ b \in Present(w) /\ TakeBlock(w, b)
        \/ /\ b \notin Present(w) \/ ~ MayClaim(w, b)
           /\ UNCHANGED << vars, owner, current, hunt >>
  /\ UNCHANGED << blockOf, unread, free >>

(* Mutant: the scan of a part misses its first block. *)
ScanBlocksButFirst(w) ==
  UNION {BlocksOf(p) \ {Min(BlocksOf(p))} : p \in 0 .. PartCount - 1} \ BlocksOf(PartIndex[w])

(* The blocks whose owner the scan reads: those of the other parts. *)
ScanBlocks(w) == Blocks \ BlocksOf(PartIndex[w])

StartScan(w) ==
  /\ Hunt(w, "scan")
  /\ unread' = [unread EXCEPT ![w] = ScanBlocks(w) \intersect Present(w)]
  /\ free' = [free EXCEPT ![w] = {}]

OwnDone(w) ==
  /\ hunt[w] = "own" /\ ownNext[w] = BlocksPerPart
  /\ StartScan(w)
  /\ UNCHANGED << vars, owner, current, blockOf, ownNext >>

ReadOwner(w) ==
  /\ hunt[w] = "scan" /\ unread[w] # {}
  /\ LET b == Min(unread[w])
     IN /\ unread' = [unread EXCEPT ![w] = @ \ {b}]
        /\ free' = [free EXCEPT ![w] = IF MayClaim(w, b) THEN @ \union {b} ELSE @]
  /\ UNCHANGED << vars, owner, current, blockOf, ownNext, hunt >>

(* The last free block of the first part that has the most of them. *)
Best(w) ==
  LET Count(p) == Cardinality(free[w] \intersect BlocksOf(p))
      most == Max({Count(p) : p \in 0 .. PartCount - 1})
      part == Min({p \in 0 .. PartCount - 1 : Count(p) = most})
  IN Max(free[w] \intersect BlocksOf(part))

(* Every block left is claimed: an empty chunk, and the loop goes on. *)
Wait(w) ==
  /\ hunt[w] = "scan" /\ unread[w] = {} /\ free[w] = {}
  /\ Hunt(w, "none")
  /\ ConstrainWith(w, {})
  /\ UNCHANGED << chunkSize, owner, current, blockOf, ownNext, unread, free >>

(* The block may have been claimed since it was read: look again. *)
Steal(w) ==
  /\ hunt[w] = "scan" /\ unread[w] = {} /\ free[w] # {}
  /\ \/ TakeBlock(w, Best(w)) /\ UNCHANGED << unread, free >>
     \/ ~ MayClaim(w, Best(w)) /\ StartScan(w) /\ UNCHANGED << vars, owner, current >>
  /\ UNCHANGED << blockOf, ownNext >>
-----------------------------------------------------------------------------
(* The other ranks (external): their d workers claim blocks and publish    *)
(* the truth; mergeMax and merge bring both here, one atomic access each.  *)

MergeClaim(b) ==
  /\ \E i \in OtherRanks :
       Code(i) > owner[b] /\ owner' = [owner EXCEPT ![b] = Code(i)]
  /\ UNCHANGED << vars, localVars >>

MergeStatus(v) ==
  /\ OtherRanks # {} /\ phi # {}
  /\ board[v] = "unknown"
  /\ \E s \in Status \ {"unknown"} :
       StatusTrue(phi, v, s) /\ board' = Publish(board, v, s)
  /\ UNCHANGED << phi, pc, searchVars, solverVars, exported, stop, result, partVars >>
-----------------------------------------------------------------------------
(* The steps of CadiBack that are left as they are. *)
InheritedStep(w) ==
  /\ CommonStep(w) \/ (Mode[w] = "prefix" /\ SelectChunk(w))
  /\ ~ (pc[w] = "filter" /\ todo[w] = {} /\ chunk[w] = {})
  /\ UNCHANGED partVars

StealStep(w) ==
  KeepBlock(w) \/ ClaimOwn(w) \/ OwnDone(w) \/ ReadOwner(w) \/ Wait(w) \/ Steal(w)

PartStep(w) ==
  InheritedStep(w) \/ InitCandidates(w) \/ SelectInBlock(w) \/ StealStep(w)

PartNext ==
  \/ \E w \in Workers :
       \/ PartStep(w)
       \/ (SolverStep(w) \/ Interrupt(w)) /\ UNCHANGED partVars
  \/ \E b \in Blocks : MergeClaim(b)
  \/ \E v \in Vars : MergeStatus(v)

partAllVars == << vars, partVars >>

PartSpec == PartInit /\ [][PartNext]_partAllVars

(* Threads run and CaDiCaL answers.  PortfolioSimple interrupts all its    *)
(* slaves or none.  Another rank decides the variables of its blocks.      *)
OthersOwn(v) == \E i \in OtherRanks : owner[BlockOfVar(v)] = Code(i)

InterruptAll(w) == (\E u \in Workers : stop[u]) /\ Interrupt(w) /\ UNCHANGED partVars

FairPartSpec ==
  /\ PartSpec
  /\ \A w \in Workers : WF_partAllVars(PartStep(w)) /\ WF_partAllVars(InterruptAll(w))
  /\ \A v \in Vars : WF_partAllVars(OthersOwn(v) /\ MergeStatus(v))
-----------------------------------------------------------------------------
(* Properties.                                                             *)

(* PartClaims.hpp:13, no candidate is checked by two workers of a process: *)
(* the constraint only holds candidates of a block that the worker owns,   *)
(* and no two workers work on one block (claims that race in a scan, the   *)
(* steal of a block whose owner did not come to it yet).                   *)
OwnChunks ==
  \A w \in Workers : Stealing(w) =>
    /\ pc[w] \in {"solve", "unsat"} =>
         \A l \in chunk[w] : owner[BlockOfVar(VarOf(l))] = Me(w)
    /\ \A u \in Workers \ {w} : Stealing(u) =>
         current[u] = NoBlock \/ current[u] # current[w]

(* PartClaims.hpp:18: a worker whose block was claimed by a lower index of *)
(* another rank gives it up at its next chunk.                             *)
GivesUpAtNextChunk ==
  [][\A w \in Workers : Stealing(w) /\ pc[w] = "select" /\ pc'[w] = "solve" =>
       \A l \in chunk'[w] : owner'[BlockOfVar(VarOf(l))] = Me(w)]_partAllVars

(* A worker only waits when every candidate left is in a block of another, *)
(* although the table changed while it was read.                           *)
WaitsForOthers ==
  \A w \in Workers :
    hunt[w] = "scan" /\ unread[w] = {} /\ free[w] = {} =>
      \A l \in cand[w] : owner[BlockOfVar(VarOf(l))] \notin {Free, Me(w)}

(* CadiBackPartition.hpp:43, waiting on a block of another d worker is     *)
(* safe: a variable that the board does not know is still a candidate of   *)
(* every stealing worker that has a model, whatever it was told before.    *)
HeldOrPublished ==
  \A w \in Workers : Stealing(w) /\ HasModel(w) =>
    \A v \in Vars : board[v] = "unknown" => \E l \in cand[w] : VarOf(l) = v

(* The assertions at CadiBackSqrt.cpp:62 and CadiBackPartition.cpp:270: a   *)
(* chunk is only empty when a stealing worker waits, never because others   *)
(* decided the candidates of the block that was chosen or claimed.          *)
EmptyOnlyToWait ==
  [][\A w \in Workers :
       pc[w] = "select" /\ pc'[w] = "loop" =>
         Stealing(w) /\ hunt[w] = "scan" /\ current'[w] = NoBlock]_partAllVars
=============================================================================
