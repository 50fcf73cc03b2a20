------------------------- MODULE ClauseDatabaseMallob -------------------------
(***************************************************************************)
(* The clause database of Mallob's kind (containers/ClauseDatabases/       *)
(* ClauseDatabaseMallob, containers/ClauseBuffer): the default database of *)
(* the global strategies, and the import database of a solver with         *)
(* -importDB=m.  Several threads add clauses, one thread takes them one by *)
(* one and shrinks the database; the shared lock is held by the operations *)
(* on the buckets and the unique lock by the shrinking, and a thread that  *)
(* adds while the database shrinks puts its clause in a buffer of missed   *)
(* additions.  One action is one access to an atomic or to a queue.  A     *)
(* clause is the index of its bucket, which decides its size.              *)
(***************************************************************************)
EXTENDS Integers, FiniteSets, FiniteSetsExt

CONSTANTS
  Adders,        \* the threads that only add clauses
  Consumer,      \* the thread that takes the clauses and shrinks
  Buckets,       \* the buckets that the clauses of the instance fall into
  MaxPartitioningLbd,
  Capacity,      \* m_totalLiteralCapacity
  MaxAdds        \* bound: the clauses that the adders add

ASSUME DatabaseAssumption ==
  /\ Consumer \notin Adders /\ IsFiniteSet(Adders)
  /\ IsFiniteSet(Buckets)
  /\ Buckets \subseteq Nat /\ 0 \in Buckets
  /\ MaxPartitioningLbd \in Nat \ {0} /\ Capacity \in Nat /\ MaxAdds \in Nat

Threads == Adders \union {Consumer}
Long == Buckets \ {0}                   \* every bucket but that of the units

getSizeFromIndex(i) == IF i = 0 THEN 1 ELSE i \div MaxPartitioningLbd + 1

VARIABLES
  items,         \* the clauses in the queue of each bucket
  size,          \* m_size of each bucket
  literals,      \* m_currentLiteralSize
  worst,         \* m_currentWorstIndex
  missed,        \* the queue of m_missedAdditionsBfr, by bucket
  missedSize,    \* its m_size
  readers,       \* the threads that hold m_shrinkMutex shared
  writer,        \* the consumer holds it alone
  pc,            \* the next access of each thread
  arg,           \* the clause a thread adds, or the bucket the consumer scans
  newSize,       \* newSize of addClause
  currentWorst,  \* currentWorst of addClause
  seen,          \* history: the buckets with a clause when getOneClause began,
                 \* if no addClause was running then
  adds           \* the clauses the adders have begun to add

buckets == << items, size, literals, worst >>
misses == << missed, missedSize >>
locks == << readers, writer >>
locals == << arg, newSize, currentWorst >>
vars == << buckets, misses, locks, pc, locals, seen, adds >>

Init ==
  /\ items = [i \in Buckets |-> 0] /\ size = [i \in Buckets |-> 0]
  /\ literals = 0 /\ worst = 1
  /\ missed = [i \in Buckets |-> 0] /\ missedSize = 0
  /\ readers = {} /\ writer = FALSE
  /\ pc = [t \in Threads |-> "idle"]
  /\ arg = [t \in Threads |-> 0]
  /\ newSize = [t \in Threads |-> 0]
  /\ currentWorst = [t \in Threads |-> 1]
  /\ seen = {}
  /\ adds = 0

Goto(t, l) == pc' = [pc EXCEPT ![t] = l]

Forget(t) ==
  /\ arg' = [arg EXCEPT ![t] = 0]
  /\ newSize' = [newSize EXCEPT ![t] = 0]
  /\ currentWorst' = [currentWorst EXCEPT ![t] = 1]

(* addClause returns and lets the lock go; the consumer only adds what was *)
(* missed, in the loop of shrinkDatabase.                                  *)
Return(t) ==
  /\ Goto(t, IF t = Consumer THEN "missed" ELSE "idle")
  /\ readers' = readers \ {t} /\ UNCHANGED writer
  /\ Forget(t)

-----------------------------------------------------------------------------
(* addClause.                                                              *)

CallAdd(t) ==
  /\ t \in Adders /\ pc[t] = "idle" /\ adds < MaxAdds
  /\ \E i \in Buckets : arg' = [arg EXCEPT ![t] = i]
  /\ adds' = adds + 1
  /\ Goto(t, "tryLock")
  /\ UNCHANGED << buckets, misses, locks, newSize, currentWorst, seen >>

TryLock(t) ==
  /\ pc[t] = "tryLock" /\ ~writer
  /\ readers' = readers \union {t}
  /\ Goto(t, IF arg[t] = 0 THEN "push" ELSE "loadSize")
  /\ UNCHANGED << buckets, misses, writer, locals, seen, adds >>

(* The database is being shrunk: the clause waits for the next shrinking.  *)
MissedPush(t) ==
  /\ pc[t] = "tryLock" /\ writer
  /\ missed' = [missed EXCEPT ![arg[t]] = @ + 1]
  /\ Goto(t, "missedCount")
  /\ UNCHANGED << buckets, missedSize, locks, locals, seen, adds >>

MissedCount(t) ==
  /\ pc[t] = "missedCount"
  /\ missedSize' = missedSize + 1
  /\ Goto(t, "idle") /\ Forget(t)
  /\ UNCHANGED << buckets, missed, locks, seen, adds >>

LoadSize(t) ==
  /\ pc[t] = "loadSize"
  /\ newSize' = [newSize EXCEPT ![t] = literals + getSizeFromIndex(arg[t])]
  /\ Goto(t, "loadWorst")
  /\ UNCHANGED << buckets, misses, locks, arg, currentWorst, seen, adds >>

LoadWorst(t) ==
  /\ pc[t] = "loadWorst"
  /\ currentWorst' = [currentWorst EXCEPT ![t] = worst]
  /\ Goto(t, "test")
  /\ UNCHANGED << buckets, misses, locks, arg, newSize, seen, adds >>

(* A sum that is negative for a while is a large size_t.                   *)
HasRoom(t) == newSize[t] \in 0..Capacity \/ arg[t] < currentWorst[t]

Reject(t) ==
  /\ pc[t] = "test" /\ ~HasRoom(t)
  /\ Return(t)
  /\ UNCHANGED << buckets, misses, seen, adds >>

Push(t) ==
  /\ \/ pc[t] = "push"
     \/ pc[t] = "test" /\ HasRoom(t)
  /\ items' = [items EXCEPT ![arg[t]] = @ + 1]
  /\ Goto(t, "count")
  /\ UNCHANGED << size, literals, worst, misses, locks, locals, seen, adds >>

Count(t) ==
  /\ pc[t] = "count"
  /\ size' = [size EXCEPT ![arg[t]] = @ + 1]
  /\ Goto(t, "addLiterals")
  /\ UNCHANGED << items, literals, worst, misses, locks, locals, seen, adds >>

(* A unit, or a clause that is not worse than the worst, ends the call.    *)
EndsCall(t) == arg[t] = 0 \/ arg[t] <= currentWorst[t]

AddLiterals(t) ==
  /\ pc[t] = "addLiterals"
  /\ literals' = literals + getSizeFromIndex(arg[t])
  /\ IF EndsCall(t) THEN Return(t) ELSE Goto(t, "exchange") /\ UNCHANGED << locks, locals >>
  /\ UNCHANGED << items, size, worst, misses, seen, adds >>

(* Mutant: a store in the place of the compare and exchange.                       *)
StoreWorst(t) ==
  /\ pc[t] = "exchange"
  /\ worst' = arg[t]
  /\ Return(t)
  /\ UNCHANGED << items, size, literals, misses, seen, adds >>

(* compare_exchange_weak: done, or currentWorst is the value it found.     *)
Exchange(t) ==
  /\ pc[t] = "exchange" /\ worst = currentWorst[t]
  /\ worst' = arg[t]
  /\ Return(t)
  /\ UNCHANGED << items, size, literals, misses, seen, adds >>

ExchangeFails(t) ==
  /\ pc[t] = "exchange" /\ worst # currentWorst[t]
  /\ IF arg[t] > worst
       THEN /\ currentWorst' = [currentWorst EXCEPT ![t] = worst]
            /\ UNCHANGED << pc, locks, arg, newSize >>
       ELSE Return(t)
  /\ UNCHANGED << buckets, misses, seen, adds >>

AddClause(t) ==
  \/ TryLock(t) \/ MissedPush(t) \/ MissedCount(t)
  \/ LoadSize(t) \/ LoadWorst(t) \/ Reject(t)
  \/ Push(t) \/ Count(t) \/ AddLiterals(t)
  \/ Exchange(t) \/ ExchangeFails(t)

-----------------------------------------------------------------------------
(* getOneClause, called until it returns false and shrinkDatabase after.   *)

CallGetOne ==
  /\ pc[Consumer] = "idle" /\ ~writer
  /\ readers' = readers \union {Consumer}
  /\ arg' = [arg EXCEPT ![Consumer] = 0]
  /\ seen' = IF readers = {} THEN {i \in Buckets : items[i] > 0} ELSE {}
  /\ Goto(Consumer, "scan")
  /\ UNCHANGED << buckets, misses, writer, newSize, currentWorst, adds >>

InScan(i) == i < worst

(* The buckets that no clause falls into are passed over.                  *)
NextBucket(i) ==
  LET above == {j \in Buckets : j > i} IN
    IF above = {} THEN i + 1 ELSE CHOOSE j \in above : \A k \in above : j <= k

Scan ==
  /\ pc[Consumer] = "scan" /\ InScan(arg[Consumer])
  /\ IF arg[Consumer] \in Buckets /\ items[arg[Consumer]] > 0
       THEN /\ items' = [items EXCEPT ![arg[Consumer]] = @ - 1]
            /\ Goto(Consumer, "uncount")
            /\ UNCHANGED arg
       ELSE /\ arg' = [arg EXCEPT ![Consumer] = NextBucket(@)]
            /\ UNCHANGED << items, pc >>
  /\ UNCHANGED << size, literals, worst, misses, locks, newSize, currentWorst, seen, adds >>

Uncount ==
  /\ pc[Consumer] = "uncount"
  /\ size' = [size EXCEPT ![arg[Consumer]] = @ - 1]
  /\ Goto(Consumer, "subLiterals")
  /\ UNCHANGED << items, literals, worst, misses, locks, locals, seen, adds >>

EndGetOne(l) ==
  /\ Goto(Consumer, l)
  /\ readers' = readers \ {Consumer} /\ UNCHANGED writer
  /\ Forget(Consumer)
  /\ seen' = {}

(* Mutant: the literals of a unit are not given back when it is taken.             *)
SubLongLiterals ==
  /\ pc[Consumer] = "subLiterals"
  /\ literals' = literals - (IF arg[Consumer] = 0 THEN 0 ELSE getSizeFromIndex(arg[Consumer]))
  /\ EndGetOne("idle")
  /\ UNCHANGED << items, size, worst, misses, adds >>

SubLiterals ==
  /\ pc[Consumer] = "subLiterals"
  /\ literals' = literals - getSizeFromIndex(arg[Consumer])
  /\ EndGetOne("idle")
  /\ UNCHANGED << items, size, worst, misses, adds >>

GetNone ==
  /\ pc[Consumer] = "scan" /\ ~InScan(arg[Consumer])
  /\ EndGetOne("testMissed")
  /\ UNCHANGED << buckets, misses, adds >>

-----------------------------------------------------------------------------
(* shrinkDatabase: what was missed is added, then the lock is taken alone. *)

(* Mutant: a single missed clause is not worth a pass.                             *)
TestSeveralMissed ==
  /\ pc[Consumer] = "testMissed"
  /\ Goto(Consumer, IF missedSize > 1 THEN "missed" ELSE "lock")
  /\ UNCHANGED << buckets, misses, locks, locals, seen, adds >>

TestMissed ==
  /\ pc[Consumer] = "testMissed"
  /\ Goto(Consumer, IF missedSize > 0 THEN "missed" ELSE "lock")
  /\ UNCHANGED << buckets, misses, locks, locals, seen, adds >>

(* The queue of the missed is read as a bag: in any order.                 *)
PopMissed ==
  /\ pc[Consumer] = "missed"
  /\ \E i \in Buckets :
       /\ missed[i] > 0
       /\ missed' = [missed EXCEPT ![i] = @ - 1]
       /\ arg' = [arg EXCEPT ![Consumer] = i]
  /\ Goto(Consumer, "uncountMissed")
  /\ UNCHANGED << buckets, missedSize, locks, newSize, currentWorst, seen, adds >>

UncountMissed ==
  /\ pc[Consumer] = "uncountMissed"
  /\ missedSize' = missedSize - 1
  /\ Goto(Consumer, "tryLock")
  /\ UNCHANGED << buckets, missed, locks, locals, seen, adds >>

NoneMissed ==
  /\ pc[Consumer] = "missed" /\ \A i \in Buckets : missed[i] = 0
  /\ Goto(Consumer, "lock")
  /\ UNCHANGED << buckets, misses, locks, locals, seen, adds >>

LockAlone ==
  /\ pc[Consumer] = "lock" /\ readers = {}
  /\ writer' = TRUE
  /\ Goto(Consumer, "shrink")
  /\ UNCHANGED << buckets, misses, readers, locals, seen, adds >>

LiteralsOf(count, bs) == MapThenSumSet(LAMBDA i : count[i] * getSizeFromIndex(i), bs)

(* Mutant: the literals of the bucket itself are taken off before the test.        *)
EmptiedButLast ==
  {i \in Long : size[i] # 0 /\ literals - LiteralsOf(size, {j \in Long : j >= i}) > Capacity}

(* The loop goes down from the worst bucket and empties each while the     *)
(* literals left exceed the capacity: the loop that should stop once they  *)
(* do not, in the last one, never updates the sum it tests.                *)
Emptied ==
  {i \in Long : size[i] # 0 /\ literals - LiteralsOf(size, {j \in Long : j > i}) > Capacity}

Shrink ==
  /\ pc[Consumer] = "shrink"
  /\ items' = [i \in Buckets |-> IF i \in Emptied THEN 0 ELSE items[i]]
  /\ size' = [i \in Buckets |-> IF i \in Emptied THEN 0 ELSE size[i]]
  /\ literals' = literals - LiteralsOf(size, Emptied)
  /\ \E w \in {1} \union ({i \in Long : size[i] # 0} \ Emptied) :
       /\ \A i \in Long \ Emptied : size[i] # 0 => i <= w
       /\ worst' = w
  /\ writer' = FALSE
  /\ Goto(Consumer, "idle")
  /\ UNCHANGED << misses, readers, locals, seen, adds >>

-----------------------------------------------------------------------------
Consume ==
  \/ CallGetOne \/ Scan \/ Uncount \/ SubLiterals \/ GetNone
  \/ TestMissed \/ PopMissed \/ UncountMissed \/ NoneMissed
  \/ LockAlone \/ Shrink

Next ==
  \/ \E t \in Adders : CallAdd(t)
  \/ \E t \in Threads : AddClause(t)
  \/ Consume

Spec == Init /\ [][Next]_vars

(* A call that has begun goes on, and a solver or a sharer asks for        *)
(* clauses as long as it runs.                                             *)
FairSpec ==
  /\ Spec
  /\ \A t \in Adders : WF_vars(AddClause(t))
  /\ WF_vars(Consume \/ AddClause(Consumer))
-----------------------------------------------------------------------------
PC == {"idle", "tryLock", "missedCount", "loadSize", "loadWorst", "test", "push", "count",
       "addLiterals", "exchange", "scan", "uncount", "subLiterals", "testMissed", "missed",
       "uncountMissed", "lock", "shrink"}

(* Types: a counter of a bucket may be one short while a clause is taken   *)
(* between the push and the count of another (SIZE_MAX in the code).       *)
TypeOK ==
  /\ items \in [Buckets -> Nat] /\ missed \in [Buckets -> Nat]
  /\ size \in [Buckets -> Int] /\ missedSize \in Int /\ literals \in Int
  /\ worst \in {1} \union Long
  /\ readers \subseteq Threads /\ writer \in BOOLEAN
  /\ writer => readers = {}
  /\ pc \in [Threads -> PC]
  /\ arg \in [Threads -> Nat]
  /\ newSize \in [Threads -> Int]
  /\ currentWorst \in [Threads -> {1} \union Long]
  /\ seen \subseteq Buckets
  /\ adds \in 0..MaxAdds

(* When no thread works on the buckets, every counter of a bucket and the  *)
(* literal count tell the truth, which the shrinking relies on: no clause  *)
(* is counted twice, or in a bucket that was emptied meanwhile.            *)
CountersAgree ==
  readers = {} => size = items /\ literals = LiteralsOf(items, Buckets)

(* The lock-free update of the worst index: whatever the order of the      *)
(* threads that add, no bucket above it holds a clause once they are done. *)
WorstCovers ==
  readers = {} => \A i \in Long : items[i] > 0 => i <= worst

(* A shrinking leaves no more literals than the capacity, unless only      *)
(* units are left, and never empties a bucket that is better than one it   *)
(* keeps.                                                                  *)
ShrinksFromTheWorst ==
  [][pc[Consumer] = "shrink" /\ pc'[Consumer] = "idle" =>
       /\ literals' <= Capacity \/ \A i \in Long : items'[i] = 0
       /\ \A i, j \in Long : i < j /\ items'[i] < items[i] => items'[j] = 0]_vars

(* A clause that was missed while the database shrank is added later.      *)
MissedAdded == \A i \in Buckets : missed[i] > 0 ~> missed[i] = 0

(* ClauseDatabaseMallob.hpp:91: "true if a clause was found, false if the  *)
(* database is empty".  Only the consumer takes clauses, and those that    *)
(* count here were added by calls that had returned.                       *)
FalseWhenEmpty ==
  [][pc[Consumer] = "scan" /\ pc'[Consumer] = "testMissed" => seen = {}]_vars

(* The inductive invariant behind CountersAgree, WorstCovers and           *)
(* ShrinksFromTheWorst.                                                    *)
Adding == {"loadSize", "loadWorst", "test", "push", "count", "addLiterals", "exchange"}
Taking == {"scan", "uncount", "subLiterals"}

(* Who works on the buckets holds the lock shared, and the shrinking alone. *)
LocksHeld ==
  /\ \A t \in Threads : pc[t] \in Adding => t \in readers /\ arg[t] \in Buckets
  /\ \A t \in Threads : pc[t] \in {"tryLock", "uncountMissed"} => arg[t] \in Buckets
  /\ pc[Consumer] \in Taking => Consumer \in readers
  /\ pc[Consumer] \in {"uncount", "subLiterals"} => arg[Consumer] \in Buckets
  /\ \A t \in Adders : pc[t] \in Adding \union {"idle", "tryLock", "missedCount"}
  /\ pc[Consumer] = "shrink" => writer
  /\ writer => readers = {}

(* A counter differs from its queue by the clauses of the calls that are   *)
(* between the queue and the counter.                                      *)
Counting(i) == {t \in Threads : pc[t] = "count" /\ arg[t] = i}
Uncounting(i) == IF pc[Consumer] = "uncount" /\ arg[Consumer] = i THEN 1 ELSE 0

SizesTrack ==
  \A i \in Buckets : size[i] + Cardinality(Counting(i)) = items[i] + Uncounting(i)

(* A bucket above the worst one has a thread that has yet to raise it.     *)
WorstTracked ==
  /\ \A t \in Threads :
       /\ pc[t] \in {"test", "count", "addLiterals", "exchange"} =>
            arg[t] = 0 \/ currentWorst[t] <= worst
       /\ pc[t] = "push" => arg[t] = 0
       /\ pc[t] = "exchange" => arg[t] > currentWorst[t]
  /\ \A i \in Long : items[i] > 0 =>
       \/ i <= worst
       \/ \E t \in Threads : pc[t] \in {"count", "addLiterals", "exchange"} /\ arg[t] = i

(* The literal count is that of the queues but for the clauses of the      *)
(* calls that have still to add theirs or to take theirs off.              *)
Owing(i) == {t \in Threads : pc[t] \in {"count", "addLiterals"} /\ arg[t] = i}
Taken(i) == IF pc[Consumer] \in {"uncount", "subLiterals"} /\ arg[Consumer] = i THEN 1 ELSE 0
Counted == [i \in Buckets |-> items[i] - Cardinality(Owing(i)) + Taken(i)]

LiteralsTrack == literals = LiteralsOf(Counted, Buckets)

DatabaseInv == LocksHeld /\ SizesTrack /\ LiteralsTrack /\ WorstTracked
===============================================================================
