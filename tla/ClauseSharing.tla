---------------------------- MODULE ClauseSharing ----------------------------
(***************************************************************************)
(* The circulation of the learnt clauses in a distributed run              *)
(* (sharing/LocalStrategies/HordeSatSharing, sharing/GlobalStrategies/     *)
(* AllGatherSharing) with the default databases: ClauseDatabasePerSize of  *)
(* the local strategy, ClauseDatabaseMallob of the global one.  On each    *)
(* rank the solvers export to the local strategy, whose sharer sends a     *)
(* selection to the other solvers and to the global strategy; the sharer   *)
(* of the latter serializes what it got, exchanges it with the other ranks *)
(* and gives what is new to the local strategy.  A call of addClause or of *)
(* getOneClause is one step: its accesses are in ClauseDatabaseMallob,     *)
(* whose shrinking no strategy modelled here calls.  The end               *)
(* detection, which opens a round of the global sharer, is in              *)
(* DistributedEnd: here a rank may stop sharing between two rounds.        *)
(***************************************************************************)
EXTENDS Integers, FiniteSets, Sequences, FiniteSetsExt, Functions

CONSTANTS
  WorldSize,      \* mpi_world_size
  Solvers,
  RankOf,         \* the rank of each solver
  Global,         \* the sharing id of the global strategies
  Clauses,
  Size,           \* the number of literals of each clause
  Lbd,            \* its lbd
  Derivable,      \* bound: the clauses each solver may learn, each once
  LocalLiterals,  \* literalPerRound * m_producers.size()
  TotalSize       \* totalSize of AllGatherSharing, -gshr-lit

Ranks == 0..WorldSize - 1

ASSUME SharingAssumption ==
  /\ WorldSize \in Nat \ {0, 1}
  /\ RankOf \in [Solvers -> Ranks] /\ Global \notin Solvers
  /\ Size \in [Clauses -> Nat \ {0}] /\ Lbd \in [Clauses -> Nat \ {0, 1}]
  /\ Derivable \in [Solvers -> SUBSET Clauses]
  /\ LocalLiterals \in Nat /\ TotalSize \in Nat
  /\ \A c \in Clauses : Size[c] + 2 <= TotalSize

VARIABLES
  derived,     \* the clauses each solver has learnt
  imported,    \* the clauses in the import database of each solver, ever
  localDB,     \* the clauses of each local strategy, with their origin (from)
  selection,   \* selection of the local sharer
  globalDB,    \* the clauses of each global strategy, which releases second copies
  worst,       \* its m_currentWorstIndex
  accepted,    \* history: the clauses that the global strategy ever imported
  filter,      \* b_filter
  willing,     \* not requests_sent
  members,     \* the ranks of yes_comm, while a round needs it
  buffer,      \* clausesToSendSerialized, without the padding
  received,    \* receivedClauses
  pc           \* where the global sharer of each rank is

local == << localDB, selection >>
global == << globalDB, worst, accepted, filter >>
comm == << willing, members, buffer, received, pc >>
vars == << derived, imported, local, global, comm >>

Init ==
  /\ derived = [s \in Solvers |-> {}] /\ imported = [s \in Solvers |-> {}]
  /\ localDB = [r \in Ranks |-> {}] /\ selection = [r \in Ranks |-> {}]
  /\ globalDB = [r \in Ranks |-> {}] /\ worst = [r \in Ranks |-> 1]
  /\ accepted = [r \in Ranks |-> {}] /\ filter = [r \in Ranks |-> {}]
  /\ willing = [r \in Ranks |-> TRUE] /\ members = {}
  /\ buffer = [r \in Ranks |-> << >>] /\ received = [r \in Ranks |-> << >>]
  /\ pc = [r \in Ranks |-> "idle"]

-----------------------------------------------------------------------------
(* The solvers and the local sharer.                                       *)

(* A solver exports a learnt clause.  One that the limit of lbd of the     *)
(* local strategy filters goes nowhere: it is as if it was never learnt.   *)
Learn(s) ==
  \E c \in Derivable[s] \ derived[s] :
    /\ derived' = [derived EXCEPT ![s] = @ \union {c}]
    /\ localDB' = [localDB EXCEPT ![RankOf[s]] = @ \union {<< c, s >>}]
    /\ UNCHANGED << imported, selection, global, comm >>

Lits(sel) == MapThenSumSet(LAMBDA x : Size[x[1]], sel)

(* giveSelection: the short clauses first, while the budget lasts; the     *)
(* clause whose pop shows that it is spent is dropped.                     *)
Selections(r) ==
  {sel \in SUBSET localDB[r] :
     /\ Lits(sel) <= LocalLiterals
     /\ \A x \in sel, y \in localDB[r] \ sel :
          Size[x[1]] <= Size[y[1]] /\ Lits(sel) + Size[y[1]] > LocalLiterals
     /\ sel = {} => \A y \in localDB[r] : Size[y[1]] > LocalLiterals}

SpentBy(r, sel) ==
  {y \in localDB[r] \ sel : \E x \in sel : Size[x[1]] = Size[y[1]]}

Dropped(r, sel) == IF SpentBy(r, sel) = {} THEN {{}} ELSE {{y} : y \in SpentBy(r, sel)}

Select(r) ==
  /\ selection[r] = {} /\ localDB[r] # {}
  /\ \E sel \in Selections(r) : \E lost \in Dropped(r, sel) :
       /\ selection' = [selection EXCEPT ![r] = sel]
       /\ localDB' = [localDB EXCEPT ![r] = @ \ (sel \union lost)]
  /\ UNCHANGED << derived, imported, global, comm >>

(* Mutant: the test of SharingEntity, which knows no origin.               *)
AlwaysExport(from, client) == TRUE

(* exportClauseToClient: not to the entity the clause comes from.          *)
MayExport(from, client) == from # client

(* getIndex, with two partitions of lbd.                                   *)
getIndex(size, lbd) == (size - 1) * 2 + (IF lbd = 2 THEN 0 ELSE 1)

(* The bucket of a clause; the first one is that of the units.             *)
Bucket(c) == IF Size[c] = 1 THEN 0 ELSE getIndex(Size[c], Lbd[c])

(* addClause refuses a long clause that is not better than the worst when  *)
(* the capacity is reached; whether it is, is left open.                   *)
MayRefuse(r, c) == Size[c] > 1 /\ Bucket(c) >= worst[r]

(* The worst index after clauses were added.                               *)
Raised(w, cs) == Max({w} \union {Bucket(c) : c \in cs})

Export(r) ==
  /\ selection[r] # {}
  /\ imported' = [s \in Solvers |->
                    IF RankOf[s] # r THEN imported[s]
                    ELSE imported[s] \union {x[1] : x \in {y \in selection[r] : MayExport(y[2], s)}}]
  /\ LET given == {x[1] : x \in {y \in selection[r] : MayExport(y[2], Global)}} IN
     \E added \in SUBSET given :
       /\ \A c \in given \ added : MayRefuse(r, c)
       /\ globalDB' = [globalDB EXCEPT ![r] = @ \union added]
       /\ worst' = [worst EXCEPT ![r] = Raised(@, added)]
       /\ accepted' = [accepted EXCEPT ![r] = @ \union added]
  /\ selection' = [selection EXCEPT ![r] = {}]
  /\ UNCHANGED << derived, localDB, filter, comm >>

-----------------------------------------------------------------------------
(* A round of the global sharer.                                           *)

Goto(r, l) == pc' = [pc EXCEPT ![r] = l]

(* The rank has sent its end: it joins the rounds, but shares no more.     *)
StopSharing(r) ==
  /\ pc[r] = "idle" /\ willing[r]
  /\ willing' = [willing EXCEPT ![r] = FALSE]
  /\ UNCHANGED << derived, imported, local, global, members, buffer, received, pc >>

(* Mutant: a rank that is not willing returns before the collective call.  *)
SplitOfTheWilling ==
  /\ \A r \in Ranks : pc[r] = "idle" /\ willing[r]
  /\ members' = Ranks
  /\ pc' = [r \in Ranks |-> "serialize"]
  /\ UNCHANGED << derived, imported, local, global, willing, buffer, received >>

(* MPI_Comm_split, which all the ranks enter: yes_comm is made of those    *)
(* that are willing; a rank that is not in it, or is alone in it, has      *)
(* finished its round.                                                     *)
Split ==
  /\ \A r \in Ranks : pc[r] = "idle"
  /\ LET yes == {r \in Ranks : willing[r]} IN
       members' = IF Cardinality(yes) < 2 THEN {} ELSE yes
  /\ pc' = [r \in Ranks |-> IF r \in members' THEN "serialize" ELSE "idle"]
  /\ UNCHANGED << derived, imported, local, global, willing, buffer, received >>

(* getOneClause: the first clause of the buckets below the worst index,    *)
(* which does not reach the worst clause itself.                           *)
Best(r) ==
  {c \in globalDB[r] : /\ Bucket(c) < worst[r]
                       /\ \A d \in globalDB[r] : Bucket(c) <= Bucket(d)}

(* The words of a clause: its size, its lbd and its literals.              *)
Write(words, c) == words \o << Size[c], Lbd[c] >> \o [n \in 1..Size[c] |-> c]

MayTake(r) == pc[r] = "serialize" /\ Len(buffer[r]) < TotalSize

(* Mutant: only the clauses that are received enter the filter.            *)
SerializeUnfiltered(r) ==
  /\ MayTake(r)
  /\ \E c \in Best(r) \ filter[r] :
       /\ Len(buffer[r]) + 2 + Size[c] <= TotalSize
       /\ globalDB' = [globalDB EXCEPT ![r] = @ \ {c}]
       /\ buffer' = [buffer EXCEPT ![r] = Write(@, c)]
  /\ UNCHANGED << derived, imported, local, worst, accepted, filter, willing, members,
                  received, pc >>

(* The clause is new: it is written in the buffer.                         *)
SerializeNew(r) ==
  /\ MayTake(r)
  /\ \E c \in Best(r) \ filter[r] :
       /\ Len(buffer[r]) + 2 + Size[c] <= TotalSize
       /\ globalDB' = [globalDB EXCEPT ![r] = @ \ {c}]
       /\ buffer' = [buffer EXCEPT ![r] = Write(@, c)]
       /\ filter' = [filter EXCEPT ![r] = @ \union {c}]
  /\ UNCHANGED << derived, imported, local, worst, accepted, willing, members, received, pc >>

(* It was sent or received before: it is released.                         *)
SerializeKnown(r) ==
  /\ MayTake(r)
  /\ \E c \in Best(r) \intersect filter[r] :
       /\ Len(buffer[r]) + 2 + Size[c] <= TotalSize
       /\ globalDB' = [globalDB EXCEPT ![r] = @ \ {c}]
  /\ UNCHANGED << derived, imported, local, worst, accepted, filter, comm >>

(* Mutant: the clause that does not fit is released.                       *)
Release(db, c) == db

(* importClause: it comes from a bucket below the worst index, so that     *)
(* addClause neither refuses it nor raises the index.                      *)
PutBack(db, c) == db \union {c}

(* It does not fit: it is put back, and the buffer is closed.              *)
SerializeOverflow(r) ==
  /\ MayTake(r)
  /\ \E c \in Best(r) :
       /\ Len(buffer[r]) + 2 + Size[c] > TotalSize
       /\ globalDB' = [globalDB EXCEPT ![r] = PutBack(@ \ {c}, c)]
  /\ Goto(r, "gather")
  /\ UNCHANGED << derived, imported, local, worst, accepted, filter, willing, members,
                  buffer, received >>

SerializeDone(r) ==
  /\ pc[r] = "serialize" /\ (Best(r) = {} \/ ~MayTake(r))
  /\ Goto(r, "gather")
  /\ UNCHANGED << derived, imported, local, global, willing, members, buffer, received >>

(* Zeros fill a buffer up to TotalSize.                                    *)
Padded(words) == words \o [n \in 1..TotalSize - Len(words) |-> 0]

(* The member that has rank k in yes_comm.                                 *)
Member(k) == CHOOSE r \in members : Cardinality({q \in members : q < r}) = k

(* receivedClauses: the buffers of the members, in the order of the ranks. *)
Gathered ==
  [n \in 1..Cardinality(members) * TotalSize |->
     Padded(buffer[Member((n - 1) \div TotalSize)])[((n - 1) % TotalSize) + 1]]

(* MPI_Allgather: each member gets the buffers of all of them.             *)
AllGather ==
  /\ members # {} /\ \A r \in members : pc[r] = "gather"
  /\ received' = [r \in Ranks |-> IF r \in members THEN Gathered ELSE received[r]]
  /\ buffer' = [r \in Ranks |-> << >>]
  /\ pc' = [r \in Ranks |-> IF r \in members THEN "deserialize" ELSE pc[r]]
  /\ members' = {}
  /\ UNCHANGED << derived, imported, local, global, willing >>

(* The word that follows the padding that begins at i.                     *)
NextBuffer(i) == ((i \div TotalSize) + 1) * TotalSize

(* Mutant: a zero ends the clauses, not the buffer.                        *)
AfterUpToZero(words) ==
  [i \in 0..Len(words) |->
     IF i = Len(words) THEN i
     ELSE IF words[i + 1] = 0 THEN Len(words)
     ELSE i + 2 + words[i + 1]]

(* Where the loop is after a round: past the padding, or past the clause.  *)
After(words) ==
  [i \in 0..Len(words) |->
     IF i = Len(words) THEN i
     ELSE IF words[i + 1] = 0 THEN NextBuffer(i)
     ELSE i + 2 + words[i + 1]]

(* Where it is after n rounds.                                             *)
At(words) ==
  LET at[n \in 0..Len(words)] == IF n = 0 THEN 0 ELSE After(words)[at[n - 1]]
  IN  at

(* The clauses it meets: it is over after at most Len(words) rounds.       *)
Decode(words) ==
  {words[i + 3] : i \in {j \in Range(At(words)) : j < Len(words) /\ words[j + 1] # 0}}

(* What is new goes to the local strategy, whose limit may filter it.      *)
Deserialize(r) ==
  /\ pc[r] = "deserialize"
  /\ \E new \in {Decode(received[r]) \ filter[r]} :
       /\ filter' = [filter EXCEPT ![r] = @ \union new]
       /\ \E kept \in SUBSET new :
            localDB' = [localDB EXCEPT ![r] = @ \union {<< c, Global >> : c \in kept}]
  /\ received' = [received EXCEPT ![r] = << >>]
  /\ Goto(r, "idle")
  /\ UNCHANGED << derived, imported, selection, globalDB, worst, accepted, willing, members,
                  buffer >>

-----------------------------------------------------------------------------
LocalStep(r) == Select(r) \/ Export(r)

GlobalStep(r) ==
  \/ SerializeNew(r) \/ SerializeKnown(r) \/ SerializeOverflow(r) \/ SerializeDone(r)
  \/ Deserialize(r)

Next ==
  \/ \E s \in Solvers : Learn(s)
  \/ \E r \in Ranks : LocalStep(r) \/ GlobalStep(r) \/ StopSharing(r)
  \/ Split \/ AllGather

Spec == Init /\ [][Next]_vars

(* The global sharers run until the end of the program, and a collective   *)
(* call returns when every rank has entered it.                            *)
FairSpec ==
  /\ Spec
  /\ \A r \in Ranks : WF_vars(GlobalStep(r))
  /\ WF_vars(Split \/ AllGather)

-----------------------------------------------------------------------------
(* A solver only imports clauses that another solver has learnt: neither   *)
(* the local strategy nor the network brings it its own clauses back.      *)
ImportsAreForeign ==
  \A s \in Solvers : \A c \in imported[s] : \E t \in Solvers \ {s} : c \in derived[t]

(* A rank only gives to the network what its own solvers have learnt.      *)
SendsOwnClauses ==
  \A r \in Ranks : \A c \in accepted[r] : \E s \in Solvers : RankOf[s] = r /\ c \in derived[s]

(* Between two rounds, the ranks that still share have the same filter:    *)
(* each clause that one of them sent has been decoded by all of them.      *)
FiltersAgree ==
  (\A r \in Ranks : pc[r] = "idle") =>
    \A q, r \in Ranks : willing[q] /\ willing[r] => filter[q] = filter[r]

(* A clause that the global strategy has taken from the solvers is not     *)
(* lost: it waits in the database or was sent, by this rank or another.    *)
KeptOrShared == \A r \in Ranks : accepted[r] \subseteq globalDB[r] \union filter[r]

(* What the global strategy of a rank took from its solvers has reached    *)
(* every rank that shares, but for the clauses no better than the worst.   *)
Delivered(r) ==
  \A c \in accepted[r] : Bucket(c) < worst[r] => \A q \in Ranks : willing[q] => c \in filter[q]

(* A clause that is better than the worst one its database has ever had (a *)
(* unit always is) reaches every rank that still shares, unless its own    *)
(* rank stops, or is alone.  The others wait for a worse one, for ever if  *)
(* none comes, because getOneClause stops before the worst bucket.  As the *)
(* clauses are finitely many and stay delivered, this is to find all of    *)
(* them delivered again and again.                                         *)
EventuallyShared ==
  []<>(\A r \in Ranks :
         Delivered(r) \/ ~willing[r] \/ Cardinality({q \in Ranks : willing[q]}) < 2)

(* The inductive invariant behind the four.                                *)

(* A clause on its way through the local strategy carries the solver of    *)
(* the rank that learnt it, or the mark of the global strategy, which is   *)
(* never sent to it, and was learnt on another rank.                       *)
LearntOn(r, c) == \E t \in Solvers : RankOf[t] = r /\ c \in derived[t]
LearntElsewhere(r, c) == \E q \in Ranks \ {r} : LearntOn(q, c)

OriginsTrue ==
  \A r \in Ranks : \A x \in localDB[r] \union selection[r] :
    IF x[2] = Global THEN LearntElsewhere(r, x[1])
    ELSE x[2] \in Solvers /\ RankOf[x[2]] = r /\ x[1] \in derived[x[2]]

(* A buffer is full clauses: a set of places, from each of which the size  *)
(* of a clause leads to the next one.                                      *)
Places(words, P) ==
  /\ P \subseteq 0..Len(words) /\ {0, Len(words)} \subseteq P
  /\ \A i \in P \ {Len(words)} : \E c \in Clauses :
       /\ words[i + 1] = Size[c] /\ i + 2 + Size[c] \in P
       /\ \A j \in P : j <= i \/ j >= i + 2 + Size[c]

BuffersTrue ==
  \A r \in Ranks :
    /\ \E P \in SUBSET (0..Len(buffer[r])) : Places(buffer[r], P)
    /\ Len(buffer[r]) <= TotalSize
    /\ Decode(buffer[r]) \subseteq filter[r] \intersect accepted[r]
    /\ globalDB[r] \subseteq accepted[r]

(* What a rank decodes is its own, and known to it, or another rank's.     *)
ReceivedTrue ==
  \A r \in Ranks : \A c \in Decode(received[r]) : c \in filter[r] \/ LearntElsewhere(r, c)

(* Who is where in a round, and which buffers are in use.                  *)
RoundShape ==
  /\ \A r \in Ranks : pc[r] \notin {"serialize", "gather"} => buffer[r] = << >>
  /\ \A r \in Ranks : pc[r] # "deserialize" => received[r] = << >>
  /\ members # {} =>
       /\ members = {r \in Ranks : willing[r]}
       /\ \A r \in Ranks : pc[r] \in IF r \in members THEN {"serialize", "gather"} ELSE {"idle"}
  /\ members = {} => \A r \in Ranks : pc[r] \in {"idle", "deserialize"}

(* The filter of a rank without what it is about to send, and with what it *)
(* is about to receive, is that of every other rank that shares.           *)
Shared(r) == (filter[r] \ Decode(buffer[r])) \union Decode(received[r])

SharedAgree == \A q, r \in Ranks : willing[q] /\ willing[r] => Shared(q) = Shared(r)

SharingInv ==
  /\ OriginsTrue /\ SendsOwnClauses /\ KeptOrShared /\ ImportsAreForeign
  /\ BuffersTrue /\ ReceivedTrue /\ RoundShape /\ SharedAgree
==============================================================================
