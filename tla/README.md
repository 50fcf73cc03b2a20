# A verification development of BackPainLess

BackPainLess computes the *backbone* of a CNF formula (the literals true in all
its models) with a portfolio of solvers that run in threads, share what they
decide, and may run on several MPI ranks. This directory holds TLA+ modules
translated from its source, TLC configurations that check them on small
instances, and proofs that TLAPS checks for every value of the constants.

Run in this directory: `tlc -config CadiBackPair.cfg MCCadiBack.tla` (any of the
configurations below) and `tlapm M.tla` for M one of `CadiBackProofs`,
`CadiBackPartitionProofs`, `ExplorationProofs`, `CadiBackRefinement`, `PortfolioProofs`,
`DistributedEndProofs`, `ClauseDatabaseProofs`, `ClauseSharingProofs`.
`PROJECT.json` lists the components, runs, mutants, hazards, findings and
theorems, and maps every definition to the source lines it models. Paths below
are relative to `src/src/`.

## 1. Inventory

| Component | Source | State | Operations |
|---|---|---|---|
| Backbone search (workers `b`, `c`; base of `d`, `s`, `m`) | `solvers/CDCL/cadiback/CadiBackBase.*` | candidates, `m_backbone`, chunk and its size, current model, the clauses of one CaDiCaL, `stopSolver` | `solve`, `syncWithBoard`, `extractFixed`, `filterWithModel`, `onSat`, `onUnsat`, `commitBackbone`, `learn`, import, interrupt |
| Candidate board | `containers/CandidateBoard.hpp` | one atomic status per variable | `publishBackbone`, `publishFree`, `status`; `snapshot`, `merge` with `-dist` |
| Partition and claims (worker `d`; blocks of `s`) | `CadiBackPartition.*`, `CadiBackSqrt.*`, `containers/PartClaims.hpp` | the part and the block of each variable, the current block, one atomic owner per block | `initCandidates`, `selectChunk`, `claimNextBlock`, `tryClaim`, `mergeMax` |
| MaxSAT exploration (`m`) | `MaxSatBackbone.*` | soft literals, rounds, deadlines | `explore`, `maxSatRound`, `onMaxSatModel`, `onMaxSatUnitCore`, `roundExhausted` |
| XOR phases of those workers (`-bb-xor-pre`) | `CadiBackXorPhase.cpp`, `XorSampler.*`, `XorOptions.*` | activation literals, the mask of the search tree | `xorPrePhase`, `xorRound`, `xorDfs` |
| Diverse search (`x`, on CryptoMiniSat) | `cryptominisat/DiverseBackboneSearch.*` | as the backbone search, with activation literals instead of `constrain` | `solve`, `exploreRound`, `completeBackbone` |
| Start and end of a run | `painless.cpp`, `working/*` | `globalEnding`, `finalResult`, `finalBackbone`, `strategyEnding`, and for each worker `force`, `waitJob`, `stopSolver` | `main`, `PortfolioSimple::solve`, `join`, `mainWorker`, interrupts, destructors |
| Solver factory and orders | `solvers/BackboneSolverFactory.*`, `CandidateOrder.*` | none after the start | `createSolvers`, `connectCandidateBoard`, `setPartitions`, `sortCandidates` |
| Clause containers | `containers/ClauseBuffer.hpp`, `ClauseDatabases/*`, `ClauseExchange.*` | lock-free queues with counters, budgets of literals, reference counts | `addClause`, `giveSelection`, `getClauses`, `getOneClause`, `shrinkDatabase` |
| Sharing strategies | `sharing/*` | producers and clients, filters, rounds | `doSharing` of six strategies, `Sharer` threads |
| End of a distributed run, exchange of the board | `sharing/GlobalStrategies/GlobalSharingStrategy.*` | pending end messages, the winner | `exchangeCandidateBoard`, `doSharing`, `joinProcess` |
| Parsers, parameters, logger, system, genetic phases, vectors | `utils/*`, `preprocessors/*`, rest of `containers/*` | sequential | input and output, heuristics |

Vendored solvers (`src/solvers`, `src/libs`) and `disabled/` are not part of the
program's own logic.

**Interactions.** `main` starts a thread for `PortfolioSimple::solve`, which starts
an initializer and a worker thread for each solver. Workers never call each
other: they meet in the board and the claim table (atomics), in the clause
containers (filled by callbacks of the solver, moved by sharer threads), and in
the variables that end the run (`PortfolioSimple::join` is called by the worker
that answers). Ranks meet in the collective calls of the global strategy.

**What is hard.** Scans of shared statuses that others change during the scan;
clauses that are learnt while a temporary constraint holds; a variable that two
workers decide by different means; sizes that saturate; waits on the answers of
others; and the end of a run, where winners, timeout, initializers, spurious
wakeups and (in a debug build) destructors interleave.

**What makes each part correct.** *Search*: a `COMPLETE` is exactly the backbone,
no literal is lost or invented, each is pushed once, every call makes progress,
an interrupt is the only reason for `UNKNOWN`. *Board*: a status is true and never
changes. *Partition*: inside a process a block has one owner; every block is
decided by somebody, so that waiting ends. *Explorations*: a round that is
abandoned loses work, never soundness. *End of a run*: `main` prints the truth,
or `UNKNOWN` only on a timeout, and always returns. *Containers and sharing*: a
reported clause is in the container, counters agree with contents, a clause is
lost only where the code means to. *Distributed end*: all ranks agree on the winner
and none is left in a collective call.

## 2. Modules

| Module | Models |
|---|---|
| `Formula` | literals, assignments, clauses; a formula is the set of its models |
| `CandidateBoard` | the operations of the board; each is one atomic access |
| `BackboneExtraction` | abstract: what any extractor promises |
| `CadiBack` | the search of several workers of one process, and its properties |
| `MCCadiBack` | instances of `CadiBack` |
| `CadiBackProofs` | safety theorems of `CadiBack` |
| `CadiBackRefinement` | `CadiBack` implements `BackboneExtraction` |
| `Exploration`, `MCExploration` | the search with the XOR and MaxSAT rounds that precede the chunks |
| `ExplorationProofs` | the search with explorations is as safe as without them, and visits the tree of the XORs in order, for any rounds |
| `Portfolio`, `MCPortfolio` | the start and the end of a run in one process |
| `PortfolioProofs` | what `main` prints and when a job starts, for any number of workers |
| `DistributedEnd`, `MCDistributedEnd` | the start and the end of a run on several ranks |
| `DistributedEndProofs` | the winner, the printed answer and the collective calls, for any number of ranks |
| `ClauseDatabaseMallob`, `MCClauseDatabase` | the default clause database, one access at a time |
| `ClauseDatabaseProofs` | the counters and the worst index of that database, for every instance |
| `ClauseSharing`, `MCClauseSharing` | a learnt clause from its solver to the solvers of every rank |
| `ClauseSharingProofs` | what a rank sends, what it keeps, what its solvers import, and what the ranks agree on, for every instance |
| `CadiBackPartition`, `MCPartition` | the search with blocks of candidates: the claims of the `d` workers in steal mode, the blocks of `s` and of walk mode |
| `CadiBackPartitionProofs` | the search with blocks is as safe as without, and the claims keep their promises |

### CadiBack

One behaviour is one formula (`phi`, any member of `Formulas`) and any number of
workers. `pc` is the place of a worker in `solve()`:

    first -> (retry) -> filter -> loop -> sync -> fixed -> select -> solve -> filter | unsat -> loop -> ...

`first`/`retry` are the calls of `solveFirstModel`, with and without the
assumptions of `-model`; `filter`, `sync`, `fixed` and `unsat` are the loops of
`filterWithModel`, `syncWithBoard`, `extractFixed` and `onUnsat`, and take one step
per literal (`todo` holds the literals still to visit), since each literal is one
access to the board; `solve` is the call under the chunk constraint. Every early
return and both stop tests are there. `Publishes`, `Consumers`, `UnitSharers` and
`LearntSharers` are the options that give a worker its role, `ChunkRate` is K of
`-bb-chunk`, `SizeMax` the largest `size_t`.

CaDiCaL is external. Its contract: a call under a constraint answers SAT with any
model of what the solver holds that falsifies a literal of the chunk, or UNSAT
when there is none (`Refuting`); `fixed` may at any time gain any literal that the
clauses imply; `flippable` may say yes only if the flipped assignment is still a
model (`MayFlip`; the comment at `CadiBackBase.cpp:511` explains why the option
that weakens this is off); what is learnt follows from the clauses alone,
because a constraint only makes decisions. The sharing strategies are a medium
that loses, delays, reorders and repeats clauses (`Import`).

`BackboneExtraction` keeps a view of each variable for every worker and for the
board. A view leaves "unknown" once, for the truth, and an answer is `COMPLETE`
when every variable is known, `UNSAT` when there is no model, or `UNKNOWN`. The
refinement mapping `SearchView` reads the view of a worker off its candidates
and its `m_backbone`.

`CadiBackPartition` and `Exploration` extend `CadiBack`: its steps are theirs, but for the
choice of the chunk, and some of its properties are checked again there.

### Portfolio

One step is one access to a shared variable: the assignments of
`PortfolioSimple::join` (`strategyEnding`, `finalResult`, `globalEnding`, the copy of
`finalBackbone`, the notification), those of the interrupts and of the
initializers (`force`, `stopSolver`, `waitJob`), the test, wait and timeout of
`main`, and its destructors in a debug build. `finalBackbone` is "torn" during the
copy and "raced" when two threads copied at a time. The mutex of the condition
variable is held by `main` in its loop and released while it sleeps. Of a solver
only the promise of `BackboneExtraction` remains: the truth, or `UNKNOWN` after an
interrupt.

### CadiBackPartition

Extends `CadiBack` and redefines the choice of the chunk for the workers whose
`Mode` is not "prefix". `Rank` is the rank of a variable by its occurrences, the same on
every worker; parts, blocks and the order after `initCandidates` (`SortedAssumption`)
follow from it. A worker with square-root blocks or in walk mode chooses in one
step, since it reads nothing shared. In steal mode one step is one access to the
claim table: reading the owner of the current block (`KeepBlock`), each
compare-and-swap on a block of the own part (`ClaimOwn`), each read of the scan of
the other parts (`ReadOwner`, which fills `free`), and the compare-and-swap on the best
block (`Steal`), which may fail because another worker came first; `hunt` is the place
in `claimNextBlock`. A worker that finds no block (`Wait`) goes round the loop with an
empty chunk. `tryClaim` is modelled as succeeding exactly on a free or own block.

The d workers of other ranks are an environment: `MergeClaim` raises the owner of a
block to the code of one of them, as `mergeMax` does, and `MergeStatus` publishes a true status,
as `CandidateBoard::merge` does. Their codes are `PartCount - index` instead of
32767 - index: only the order matters.

### Exploration

Extends `CadiBack` with what `explore` does before the chunk loop. `stage` is the loop
a worker is in (`xor`, `maxsat`, then `chunks`) and `round` the round in progress; the
place "round" of `pc` is the head of the loop of a round. A model found in a round
goes through the steps of `filterWithModel` that the module inherits.

*XOR*: a round draws independent rows (`drawRandomXors`; any rows), and a node of the
search is a mask and a depth: the assumptions of the first `depth` rows.
`NodeSat`, `NodeUnsat` (the failed assumptions end at a depth of its own) and
`NodeUnknown` (no answer within the budget) each move to the next node with the
arithmetic of `xorDfs`, in words of `WordBits` bits, whose carry ends the search.
*MaxSAT*: EvalMaxSAT is external; it makes calls, each of which gives a model
(`RoundModel`), a unit core (`UnitCore`), or neither (`OtherAnswer`), until it knows the
optimum (`RoundOptimum`) or `roundExhausted` abandons the round. A literal proven by a
core stays a candidate up to the end of its round. Conflicts are not counted: a call
may run out of its budget, and a XOR round of patience, at any time. That a call finds
the formula itself unsatisfiable after the first model is excluded by the contract of
the solver, and the variables that encode XORs and costs are left out.

### DistributedEnd

On each rank the threads of `main`, of `PortfolioSimple::solve`, of the worker that
answers first and of the sharer have a place (`mainPc`, `solvePc`, `workerPc`,
`sharerPc`). A collective call that needs every rank is one action
(`ExchangeBoard`, `SplitAndGather`); `MPI_Bcast` only needs its root, so that the root
runs up to `MaxAhead` broadcasts ahead (`Announce`, `BcastEnd`, and the receivers'
`TakeFormula`, `TakeBcast`). The end message of a rank is an `MPI_Isend` whose buffer
is `finalResult` itself: the message is `Live` until the library reads it (`Deliver`).
The root packs the winner and the result in one integer (`Pack`, `Verdict`). `main`
stores `globalEnding` and then TIMEOUT in two steps, and `SequentialWorker::join` the
result and then `globalEnding`. `run` chooses the strategy, whether the board is
exchanged, when the time may be over, and which ranks may answer. What the calls carry
besides the end is left out: clauses are in `ClauseSharing`, the merge of the board
and of the claims in `CadiBackPartition`.

### ClauseDatabaseMallob

One step is one access to an atomic, to a lock-free queue or to the lock. The adders
run `addClause` (`TryLock`, then `LoadSize` to `Exchange`, or `MissedPush` when the
database is being shrunk); the consumer runs `getOneClause` (`Scan`, `Uncount`,
`SubLiterals`) until it returns false, and then `shrinkDatabase` (`TestMissed` to
`Shrink`). A clause is the index of its bucket. `Shrink` is one step, under the lock
held alone. It empties whole buckets: the loop that should stop within the last of
them (`ClauseDatabaseMallob.cpp:260`) never updates the sum it tests, so that it runs
to the end of the bucket. `addClauses`, `giveSelection` and `getClauses` (loops of the
same accesses) and `clearDatabase` are not modelled.

### ClauseSharing

Two sharers on each rank, with HordeSat sharing inside the rank and AllGather sharing
between the ranks. `Learn` is the export callback; `Select` and `Export` are a round
of the local sharer (the selection of `ClauseDatabasePerSize` under the budget of
literals, with the clause that it pops and drops when the budget is spent, then the
clients that `exportClauseToClient` admits). The databases are the default ones
(`Parameters.hpp:192`): by sizes in the local strategy, Mallob's in the global one, where
`worst` is the worst index that `addClause` raises and `Best` what `getOneClause` yields, the
best clauses if they are below that index. Whether the capacity is reached is left open: any
clause that `addClause` could then refuse may be refused (`MayRefuse`). No strategy modelled
here shrinks the database, so that the index only grows, and a clause that does not fit the
buffer is always taken back: its bucket is below the index. What is claimed to be sent
(`EventuallyShared`) is about this database; with `-gshrDB d` every clause is taken in its
turn. `Split` is `MPI_Comm_split`, `Serialize*`
the loop of `serializeClauses`, one clause a step, and `AllGather` and
`Deserialize` work on the words of the buffers: `Write` and `Padded` give sizes, literals and
zeros up to the end of each buffer, `After` is a round of the loop of `deserializeClauses`. The filter of the clauses that were
sent or received is exact: the false positives of the Bloom filter lose clauses and
are left out. The adaptive limit of the local strategy may refuse any clause.

## 3. Runs

| Run | Instance | Shows |
|---|---|---|
| `pair` | 2 workers, 2 variables, opposed orders, K = 0 and K = 2, one exports clauses it learns under its constraints, the other its units | the search implements `BackboneExtraction`; nothing lost or invented; no contradiction on the board or with the formula; the clauses of the solvers follow from the formula |
| `alone` | 1 worker with square-root blocks, 3 variables, a `-model` that may be wrong, a rate that overflows, another rank that publishes, fairness | the answer is exact; every call decides a candidate; no chunk is empty; the worker returns |
| `steal` | 2 stealing workers, 3 variables, blocks of one variable, fairness | no block has two owners and no constraint a candidate of another's block; a worker that waits has nothing to claim, and what it waits for is held or published; no claimed block is empty; both return, although each waits for the answers of the other |
| `ranks` | 1 stealing worker, a rank of a lower index, blocks of two variables, fairness | a block that was taken over is given up at the next chunk |
| `explore` | 1 worker with a XOR round of 2 rows, then MaxSAT rounds, beside workers that publish on the board, fairness | proven literals survive their round; the XOR search leaves out no leaf; nothing lost, nothing pushed twice; the worker returns |
| `end` | 2 workers, timeout, release and debug builds, fairness | the printed answer is the truth, or UNKNOWN with the time up; no job before the reset is over; no wakeup is lost, and `main` returns, in a debug build after it joined every thread |
| `mpi_end` | 3 ranks, both strategies, with and without the exchange of the board, a deadline or none, fairness | one winner, the same for all; it prints the answer of its own worker; without `-t` no answer is lost; nobody is left in a collective call, no request pending; one end is the end of all |
| `database` | 2 adders, 3 clauses, buckets of 1, 2 and 3 literals, capacity 4, fairness | counters tell the truth when nobody works on the buckets; no clause above the worst index; a shrinking respects the capacity; missed clauses are added |
| `share` | 3 ranks, 2 solvers that learn, 3 clauses in 3 buckets, two of which fill the buffer, fairness | no clause returns to its solver; a rank sends only its own; the filters agree; an overflowing clause is kept; each clause below the worst index of its database reaches all who share |
| `early_print` | 1 worker, release build | **violated**: `main` prints a backbone that is not written yet |
| `mpi_early` | 2 ranks, the time is over while a rank builds its solvers | **violated**: the other rank waits for it in a collective call |
| `database_worst` | 1 adder, 1 clause | **violated**: `getOneClause` returns false and the clause of an addition that is over is there |

**Bounds.** Two variables give every kind of variable in one formula (positive,
negative, free, forced by the other); three let a chunk be a proper part of the
candidates twice and the chunk size grow, saturate and reset. Two workers are
enough for each conflict over the board, whose statuses are per variable and
change once, and for each race over the variables that end a run, which all are
between a reader and a writer, or two writers. `SizeMax` = 3 stands for 2^64-1: with
K = 4 = `SizeMax` + 1 an unchecked product wraps to 0. `pair` takes every formula over
two variables with the all-positive model and the unsatisfiable one: the rest are
renamings of signs, which the module cannot tell apart (the only clause to learn,
`UnitClause`, is positive, as a consequence of a formula with that model must be).
`alone` takes those over three variables with at most three other models, or all
seven. The formulas of `explore` are one with one model, and one whose best models
leave a free candidate behind, which one MaxSAT round does not drop; two rows in words
of two bits make the mask wrap, which 64 rows in words of 64 bits do in the code.
Three ranks are needed for two end messages to meet at the root, and for two ranks to
share while a third does not. `MaxAhead` = 2 lets a rank miss two broadcasts. Three
clauses in three buckets exceed the capacity with and without units, and two adders
race on the worst index. In `share` the unit is learnt on two ranks, so that each may know it already;
a clause of two literals can be sent once the one with the worse lbd is in the database, and
overflows a buffer that holds the unit. A finite number of clauses is a bound that
`EventuallyShared` needs, for better clauses without end could keep one waiting; it also lets
the property be one recurrence (all are delivered again and again) and not one formula for each
rank and clause. No state constraint is used; the state spaces are finite.
Termination is not a deadlock in the search, so its configurations switch the
check off; all other modules are checked for deadlock (`DistributedEnd` stutters in
`Finished`, and nowhere else).

**Fairness.** `FairPartSpec` and `FairExploreSpec`: weak fairness of the steps of a
worker, that is, its thread is scheduled and CaDiCaL answers a call. Nothing is
assumed of imports, root propagation, interrupts or what others publish.
`FairExploreSpec` adds that `solve()` of EvalMaxSAT returns (`[]<>` outside a MaxSAT
round): a round of answers that change nothing could otherwise go on for ever.
`Portfolio!FairSpec`: weak fairness of each thread; none of spurious wakeups, none of
the clock. `DistributedEnd!FairSpec`: threads run, collective calls that all ranks
entered return, messages arrive; no worker has to answer, no time has to pass.
`ClauseDatabaseMallob!FairSpec`: an `addClause` that has begun ends, and the consumer
goes on asking. `ClauseSharing!FairSpec`: the global sharers and their collective
calls; none of the solvers, of the local sharers, or of a rank that stops.

`FairPartSpec` adds two assumptions. Once a worker is interrupted
all are (`setSolverInterrupt` of `PortfolioSimple` interrupts every slave): a worker that
waits for a block of an interrupted owner would otherwise wait for ever. And a
variable in a block that another rank owns is eventually published by it
(`OthersOwn`): its owner runs the same search, and the exchange brings the answer.
Reads of the table within a scan are not assumed to be atomic.

The stealing instances use formulas of one or two models over three
variables, one or three of them backbone: scans and claims depend on which variables
are decided and by whom, and the two free ones are decided together, in blocks of
both workers or of one. Blocks of one variable (`steal`) make claims and waits
frequent; `ranks` has blocks of two, so that one can be lost half done. `TimePasses` is
not fair: in `end`, `main` must return also when the time never passes.

## 4. Findings

Shown by a run:

1. **A release build may print a backbone that is not there yet** (`early_print`).
   `join` sets `finalResult` and `globalEnding` (`PortfolioSimple.cpp:253`) before it
   copies the backbone; `main` tests `globalEnding` without waiting for the
   notification, and joins the worker threads only without `NDEBUG`. `painless.hpp:22`
   calls the backbone valid when the result is COMPLETE.
2. **A rank may wait for ever for one that never shares** (`mpi_early`). A rank whose
   time is over while it builds its solvers returns from `solve` before it launches its
   sharers (`PortfolioSimple.cpp:177`). `GlobalSharingStrategy.cpp:138` wants every call
   "on every rank and at every round, so that the collective calls match".
3. **The clauses of the worst bucket are not found** (`database_worst`). Once `addClause` has
   returned, `m_currentWorstIndex` is the index of a bucket that holds a clause, and the loops of
   `getOneClause` and `getClauses` stop before it (`ClauseDatabaseMallob.cpp:191`, `178`).
   `ClauseDatabaseMallob.hpp:91` promises false only when the database is empty. The
   clauses stay until a worse one is added or a shrinking drops them. AllGather sharing
   empties its default database by `getOneClause` alone and never shrinks it: a clause of
   several literals that is the worst so far is not sent, for ever if no worse one comes, while
   the comment at `AllGatherSharing.cpp:123` says that the loop stops when "no more
   clauses are available". `EventuallyShared` leaves these clauses out.

Met while modelling; the models follow the code, and no run is spent on them:

- Two workers can win: the test and the assignment of `strategyEnding` are two
  accesses (`PortfolioSimple.cpp:245`), and both winners copy into an unlocked vector.
- A timeout can replace a result: `main` tests `finalResult` and later stores TIMEOUT
  (`painless.cpp:205`); a result stored in between is lost, and UNKNOWN is printed. The
  answer itself stays right (`AnswerPrinted`). With several ranks a timeout can also
  win over an answer at the root, which keeps the last end message it tests
  (`GlobalSharingStrategy.cpp:164`): `AnswerSurvives` is stated for runs without `-t`.
- `-dist` on one rank prints nothing: no winner is ever set. The model asks for two.
- `shrinkDatabase` empties a bucket it means to empty in part (see above), and its
  assertion that the capacity is respected fails when the units alone exceed it.
- `giveSelection` of the Mallob database does not give back the literals of the units
  it takes; `GenericGlobalSharing.cpp:123` loses the clause it pops when the buffer is
  exactly full; `ClauseBuffer::clear` resets its counter after a loop of pops, and the
  one strategy that calls it does so while solvers push. These are not modelled.

## 5. Proofs

`CadiBackProofs` assumes what `Formula` and `CadiBack` declare: variables exist, the
options have their types, `NoModel` is no assignment and "board" no worker. The
sets of variables, workers, formulas and learnable clauses are arbitrary, and so
are orders, masks and rates.

None of the safety properties is inductive: that a committed chunk is backbone
needs the chunk to be unrefuted *in the solver's clauses*, which needs those
clauses to follow from the formula, which needs the statuses of the board to be
true, which needs the current model of each worker to be a model of the formula
and each candidate to be true in some model. `SearchInv` is the conjunction that
closes this circle: `BoardSound`, `ClausesSound`, and for each worker that its
candidates are witnessed by a model and its backbone implied, that nothing
implied is in neither (`BackboneKept`), that its model is one (`ModelIsModel`), that
root-fixed literals are implied, and three facts about where it is in the loop
(`LoopShape`, `CommitShape`, `AnswerShape`). The proof has one lemma or step for each
action and under it one for each conjunct the action disturbs. Theorems:

| Theorem | States |
|---|---|
| `TypeCorrect` | `Spec => []TypeOK` |
| `SearchCorrect` | `Spec => []SearchInv` |
| `ResultCorrect` | `ResultExact`: COMPLETE is exactly the backbone, UNSAT is right |
| `NothingLostCorrect` | `NothingLost` |
| `BoardAgreesCorrect` | `BoardAgrees`, the assertions of the code |
| `NoCandidateRefutedCorrect` | `NoCandidateRefuted` |
| `PushedOnceCorrect` | `PushedOnce` |
| `BoardSoundCorrect` | `BoardSound`: what the board says is true |
| `ClausesSoundCorrect` | `ClausesSound`: clauses of solvers and exports follow from the formula |
| `SearchRefines` | `Spec => ExtractionSpec`: each step of the search decides one variable for one worker, for the board or for both, answers, or stutters |
| `CallsDecideCorrect` | `CallsDecide`: no call is made on an empty chunk, each decides a candidate |
| `PartInvCorrect` | `PartInv`, the inductive invariant of the claims |
| `PartResultCorrect`, `PartCallsDecideCorrect` | `ResultExact` and `CallsDecide` of `PartSpec`: blocks change nothing |
| `EmptyOnlyToWaitCorrect` | `EmptyOnlyToWait` |
| `WaitsForOthersCorrect` | `WaitsForOthers`: a scan that finds nothing has missed nothing |
| `HeldOrPublishedCorrect` | `HeldOrPublished`: no variable is lost by waiting for it |
| `GivesUpAtNextChunkCorrect` | `GivesUpAtNextChunk` |
| `OwnChunksCorrect` | without other ranks, `OwnChunks` |
| `ExploreCorrect` | `ExploreInv`, the inductive invariant of the search with explorations |
| `CoresStayCorrect` | `CoresStay` |
| `ExploreNothingLost`, `ExplorePushedOnce`, `ExploreResultCorrect`, `ExploreCallsDecide` | `NothingLost`, `PushedOnce`, `ResultExact` and `CallsDecide` of `ExploreSpec` |
| `LeavesInOrderCorrect` | `LeavesInOrder` |
| `ExploreTypeCorrect` | `ExploreTypeOK` |
| `EndTypeCorrect` (Portfolio) | `TypeOK`; a winner never leaves the vector of slaves it interrupts |
| `AnswerPrintedCorrect` | `AnswerPrinted`: `main` prints the truth, or UNKNOWN with the time up |
| `JobAfterResetCorrect` | `JobAfterReset` |
| `DebugBackboneWritten` | a debug build never prints a backbone that is missing or half written |
| `EndCorrect` (DistributedEnd) | `EndInv`, the inductive invariant of the end on all ranks |
| `OneWinnerCorrect` | `OneWinner`, unless the deadline may be "any" |
| `PrintsOwnAnswerCorrect` | `PrintsOwnAnswer` |
| `AnswerSurvivesCorrect` | `AnswerSurvives` |
| `NobodyLeftWaitingCorrect` | `NobodyLeftWaiting`, unless the deadline may be "any" |
| `NothingPendingCorrect` | `NothingPending` |
| `DatabaseCorrect` | `DatabaseInv` of the Mallob database |
| `WorstCoversCorrect` | `WorstCovers` |
| `CountersAgreeCorrect` | `CountersAgree` |
| `ShrinksFromTheWorstCorrect` | `ShrinksFromTheWorst` |
| `SharingCorrect` | `SharingInv`, the inductive invariant of the circulation of clauses |
| `SendsOwnCorrect` | `SendsOwnClauses` of `ClauseSharing` |
| `KeptOrSharedCorrect` | `KeptOrShared` of `ClauseSharing` |
| `ImportsAreForeignCorrect` | `ImportsAreForeign` of `ClauseSharing` |
| `FiltersAgreeCorrect` | `FiltersAgree` of `ClauseSharing` |

*Progress* (`CallsDecide`) needs that the chunk is never empty: the first candidate in the
order is in it, whatever the order does with ties. So each call either refutes the whole
chunk or gives a model that drops one of its literals.

`CadiBackPartitionProofs` has two layers. `ChoiceInv` says that the steps of the blocks
preserve `SearchInv` and progress, since a chunk is a set of candidates whoever chose it.
`PartInv` is about the claims, for each stealing worker and whatever the other ranks do.
The owner of a block only passes from nobody to a worker of this process, and from there
to a rank with a lower index, so that what a scan saw taken stays taken although the
table is read entry by entry (`ScanSeen`). A stealing worker publishes all that it decides and
takes over all that is published, so that what the board does not know is a candidate of
everyone (`Published`). A worker that has a current block owns it, or lost it to another
rank (`CurrentHeld`), and no two workers have the same one (`Apart`). `OwnChunks` is proved
without other ranks, because one of these may take a block over in the middle of a
call: the code only promises to give it up at the next chunk, and `GivesUpAtNextChunk`,
which says so, is proved for any other ranks.

`ExplorationProofs` starts from the one clause of `SearchInv` that a round breaks: a literal
that a unit core proves is pushed at once and stays a candidate, so that candidates and
backbone meet. `CoreShape` says where: in the cores of the round, nowhere else, and only while
the round lasts. A core is implied, hence no model drops it (`CoresStay`), and the round
takes its cores off the candidates when it ends, however it ends, which gives back the
invariant of the chunk loop. When the optimum satisfies no soft literal, no model falsifies a
candidate of the round, so all that is left is committed like a refuted chunk: this
needs that the implied soft literals are still candidates (`RoundShape`) and a count over
a finite set, so these theorems assume finitely many variables. Nothing is assumed of the rows,
the masks or the answers within the budgets.

`LeavesInOrder` is about binary numbers: the subtree that is skipped is given by the first bits
of the mask, the next node by an addition that carries. `SameBits` joins the two: numbers of m bits
agree in the first d when they have the same quotient by 2^(m - d). So a subtree is a block of
leaves that holds the mask (`SubtreeIs`), the addition leads to its end, and that is the end of the
tree exactly when the code stops, also when the mask is as wide as a word and wraps to 0
(`NextNodeIs`); elsewhere the lowest one of the mask is below bit m (`TrailingZerosIs`), so the
next node is not the root. The laws of powers of two come from counting subsets, and each induction
is over a smallest number for which a law fails. `TreeInv` adds that a model is only
filtered at a node. TLC checked it on the instance of `explore`, in both modes of the search and with
a mask wider than the tree.

`PortfolioProofs` follows the two things that can end a run: a winner writes
`finalResult` before `globalEnding`, and the clock is only obeyed while the result is unknown. So
when `globalEnding` is set and `finalResult` is not an answer, the time is up. In a debug build
`main` joins every thread before it prints, and a winner that has reported has still to
copy: `BackboneComing` says that the backbone is there or a thread is on its way.

`DistributedEndProofs` rests on one idea. The broadcasts of the root reach every rank in the
same order, so all that matters is how many a rank has still to take (`Waiting`). These counts
pace the ranks: the exchanges of the board, the gathers and the messages of the ring that
a rank has begun differ from those of another one by exactly the difference of their
counts (`BoardsMatch`, `GathersMatch`, `MailMatch`), which bounds the messages on their way by two
and leaves none at the end. The first broadcast that is not 0 is the end, it is the last,
and every rank takes over the winner and the result that it holds (`QueueInv`).
`OneWinner` and `NobodyLeftWaiting` are proved for `Orderly` runs, in which the deadline does not fall
between the broadcast of the formula and the start of the sharers of a rank; the run
`mpi_early` shows that the assumption is needed. TLC checked these inductive invariants
before they were proved: `PartInv` on `steal`, `ranks` and the instance of `alone`, `ExploreInv` on `explore`, `EndInv` of
`DistributedEnd` on two ranks with every choice of the run (420,415 states) and on three ranks.

`ClauseDatabaseProofs` assumes that the adders and the buckets are finite sets and that
the consumer is no adder; the capacity and the number of clauses are arbitrary.
`WorstCovers` speaks of the moments when nobody holds the lock. In between, a clause may
well be above the worst index, and `WorstTracked` says who will mend it: for every
bucket above the index that holds a clause there is a thread between its push and its
compare-and-exchange, and no thread believes in a worst index that is higher than the
one stored, since adders only raise it. This needs `LocksHeld` (the threads at these
places hold the lock, so that no shrinking lowers the index under them), and for the
shrinking, which reads counters in the place of the queues, `SizesTrack`: a counter is
off by exactly the threads between a queue and its counter, and there are none when
the lock is held alone. `LiteralsTrack` says the same of the count of all literals: it is
the sum over the queues, without the clauses of the calls that have still to add theirs and
with the one that the consumer has yet to take off. From these two follow `CountersAgree`, and
`ShrinksFromTheWorst`, whose buckets and literals are those that the counters show. The
sum is a fold over a set of buckets: its laws (it splits over disjoint sets, depends only on
the counts, grows with the set) are proved without an induction theorem, from a minimal set among
those for which one fails. TLC checked `DatabaseInv` on the instance of `database` first.

`ClauseSharingProofs` shows what the ranks give and get for any number of ranks, solvers
and clauses, any sizes and any budget. `FiltersAgree` speaks of the moments between two
rounds. In a round the filters differ, and `SharedAgree` says by what: the filter of a rank
without the clauses in its own buffer, and with those it has received and has not decoded
yet, is the same for all that share. So a step of the serialization changes nothing that is shared,
and the collective call adds the same clauses for all, provided that decoding the gathered
words gives exactly the clauses of all buffers (`GatheredDecodes`). This is proved on the
words: the places where a clause begins or a buffer ends lead from one to the next, whatever the
sizes (`Places`, `Leads`), the loop of `deserializeClauses` visits all of them and no other
(`DecodeIs`, from the first round that would leave them), and a padding leads to the next
buffer by a division. `ImportsAreForeign` needs to know where each clause was learnt:
`OriginsTrue` for the clauses of the local strategy, and `ReceivedTrue` for the words, which
relies on the filter: what a rank decodes and did not know was sent by another rank. TLC
checked `SharingInv` on the instance of `share` (347,210 states).

Only model-checked: liveness, which is out of the reach of the prover
(`EventuallyReturns`, `MainReturns`, `EndReachesAll`, `MissedAdded`, `EventuallyShared`).
Every invariant and every action property that a passing run checks is stated by a theorem.

## 6. Plan

Done: the search, its partition and its explorations, the board, the end of a run in one
process and over MPI, the default database, the circulation of the clauses, and the
proofs above. Left, in this order:

1. `DiverseSearch`: the second implementation of `BackboneExtraction`, with activation
   literals in the place of `constrain`.
2. Simple, Mallob and Generic sharing, and the databases they use.

## 7. Not modelled

Statistics, logging and printing formats, parameter and CNF parsing, diversification
and phases (no answer depends on them), the genetic preprocessor (floating-point
heuristics), sequential vectors, `waitInterrupt` (never called), code under `disabled/`,
and the vendored solvers beyond the contracts above. The walk mode of the partition is
modelled, but no run uses it: it differs from the square-root blocks by its order
only. Of the XOR phases the encoding and the counts of conflicts are left out, of the MaxSAT
rounds the deadlines, of the sharing the lbd limits as numbers and the lifetimes in
the filters. Lifetimes of C++ objects (a worker that outlives the deleted portfolio in a
release build) and the reallocation of the vector of slaves while it is read are
undefined behaviour of the language, not steps of the program: they are listed under
the hazards without a property. So are the clause that `giveSelection` drops when the
budget is spent, which the model drops too and nothing promises to keep, and the
clearing of a shared buffer, which only Simple sharing does.
