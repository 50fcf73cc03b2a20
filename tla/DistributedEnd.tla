---------------------------- MODULE DistributedEnd ----------------------------
(***************************************************************************)
(* The start and the end of a run over MPI (-dist): on each rank main, the *)
(* thread of PortfolioSimple::solve, the worker that answers first, and    *)
(* the sharer thread, whose global strategy meets the other ranks in       *)
(* collective calls and agrees with them on the end of the run.            *)
(*                                                                         *)
(* A collective call that needs every rank is one action, enabled once     *)
(* all have entered it; MPI_Bcast needs its root only, so the root may     *)
(* run ahead of the others.  What the calls carry besides the end (clauses *)
(* and the board) is left out: CadiBackPartition merges the board.         *)
(***************************************************************************)
EXTENDS Integers, Sequences, FiniteSets

CONSTANTS NumRanks,  \* mpi_world_size
          Runs,      \* the runs to look at: parameters, deadline, answering ranks
          MaxAhead   \* bound: broadcasts of the root that a rank has not taken

Root == 0
Ranks == 0 .. NumRanks - 1
Others == Ranks \ {Root}

(* strategy: -gshr-strat.  board: -bb-share-cand, every round exchanges    *)
(* the board.  deadline: when the time of -t is over, see MayExpire.       *)
(* finders: the ranks one of whose workers can answer.                     *)
RunType == [strategy : {"allgather", "ring"}, board : BOOLEAN,
            deadline : {"never", "parsing", "solving", "any"}, finders : SUBSET Ranks]

ASSUME DistributedAssumption ==
  /\ NumRanks \in Nat /\ NumRanks >= 2 /\ NumRanks < 2^15
  /\ Runs \subseteq RunType /\ MaxAhead \in Nat \ {0}

(* BackboneResult; UNSAT would behave as COMPLETE. *)
UNKNOWN == 0
COMPLETE == 10
TIMEOUT == 30
Results == {UNKNOWN, COMPLETE, TIMEOUT}

NoRank == -1    \* mpi_winner before the end
Nothing == -1   \* no message, or nothing printed
Live == -2      \* a message whose buffer is finalResult itself
Delivered == -3 \* a message that the root received

VARIABLES
  run,                        \* the run that is looked at
  mainPc, solvePc, workerPc,  \* where the threads of each rank are
  sharerPc,
  globalEnding, finalResult, mpiWinner,
  value,         \* receivedFinalResultBcast, then the result given to joinProcess
  requestsSent,  \* the end message of a rank was posted
  message,       \* the end message of a rank
  received,      \* what the root received from each rank
  bcast,         \* the broadcasts that a rank has not taken yet
  mail,          \* clauses on their way from a rank to a neighbour, in messages
  printed        \* the result that a rank printed

pcs == << mainPc, solvePc, workerPc, sharerPc >>
ends == << globalEnding, finalResult, mpiWinner >>
network == << requestsSent, message, received, bcast, mail >>
vars == << run, pcs, ends, value, network, printed >>

MainPc == {"wait", "expire", "expired", "join", "finalize", "exit"}
SolvePc == {"start", "build", "workers", "launched", "returned"}
WorkerPc == {"off", "search", "won", "wrote", "done"}
SharerPc == {"off", "board", "test", "bcast", "apply", "share", "recv", "join", "stopped"}

(* The winner and the result in one integer; 0 says that the run goes on. *)
Pack(rank, res) == rank * 2^16 + res
WinnerOf(packed) == packed \div 2^16
ResultOf(packed) == packed % 2^16
Packed == {Pack(r, res) : r \in Ranks, res \in Results}

Neighbours(r) == {(r + 1) % NumRanks, (r + NumRanks - 1) % NumRanks}

TypeOK ==
  /\ run \in Runs
  /\ mainPc \in [Ranks -> MainPc] /\ solvePc \in [Ranks -> SolvePc]
  /\ workerPc \in [Ranks -> WorkerPc] /\ sharerPc \in [Ranks -> SharerPc]
  /\ globalEnding \in [Ranks -> BOOLEAN] /\ finalResult \in [Ranks -> Results]
  /\ mpiWinner \in [Ranks -> Ranks \cup {NoRank}]
  /\ value \in [Ranks -> Packed] /\ requestsSent \in [Ranks -> BOOLEAN]
  /\ message \in [Others -> Results \cup {Nothing, Live, Delivered}]
  /\ received \in [Others -> Results \cup {Nothing}]
  /\ bcast \in [Others -> Seq(Packed)] /\ \A r \in Others : Len(bcast[r]) <= MaxAhead
  /\ mail \in [Ranks \X Ranks -> 0 .. 2]
  /\ printed \in [Ranks -> Results \cup {Nothing}]

Init ==
  /\ run \in Runs
  /\ mainPc = [r \in Ranks |-> "wait"] /\ solvePc = [r \in Ranks |-> "start"]
  /\ workerPc = [r \in Ranks |-> "off"] /\ sharerPc = [r \in Ranks |-> "off"]
  /\ globalEnding = [r \in Ranks |-> FALSE] /\ finalResult = [r \in Ranks |-> UNKNOWN]
  /\ mpiWinner = [r \in Ranks |-> NoRank] /\ value = [r \in Ranks |-> 0]
  /\ requestsSent = [r \in Ranks |-> FALSE]
  /\ message = [r \in Others |-> Nothing] /\ received = [r \in Others |-> Nothing]
  /\ bcast = [r \in Others |-> << >>] /\ mail = [p \in Ranks \X Ranks |-> 0]
  /\ printed = [r \in Ranks |-> Nothing]

-----------------------------------------------------------------------------
(* PortfolioSimple::solve. *)

(* The end that a rank takes over before anything was launched. *)
EndAtStart(r, res) ==
  /\ mpiWinner' = [mpiWinner EXCEPT ![r] = Root]
  /\ finalResult' = [finalResult EXCEPT ![r] = res]
  /\ globalEnding' = [globalEnding EXCEPT ![r] = TRUE]
  /\ solvePc' = [solvePc EXCEPT ![r] = "returned"]

(* Both sides of the first broadcast: 0 is followed by the formula. *)
AfterFirstBcast(r, res) ==
  \/ res # UNKNOWN /\ EndAtStart(r, res)
  \/ /\ res = UNKNOWN
     /\ solvePc' = [solvePc EXCEPT ![r] = "build"]
     /\ UNCHANGED ends

(* The root has parsed the formula; with the deadline "parsing" that took  *)
(* longer than -t.                                                         *)
Announce ==
  /\ solvePc[Root] = "start"
  /\ run.deadline = "parsing" => finalResult[Root] = TIMEOUT
  /\ bcast' = [r \in Others |-> Append(bcast[r], finalResult[Root])]
  /\ AfterFirstBcast(Root, finalResult[Root])
  /\ UNCHANGED << run, mainPc, workerPc, sharerPc, value, requestsSent, message, received,
                  mail, printed >>

TakeFormula(r) ==
  /\ r # Root /\ solvePc[r] = "start" /\ bcast[r] # << >>
  /\ bcast' = [bcast EXCEPT ![r] = Tail(@)]
  /\ AfterFirstBcast(r, Head(bcast[r]))
  /\ UNCHANGED << run, mainPc, workerPc, sharerPc, value, requestsSent, message, received,
                  mail, printed >>

(* The solvers and the strategies are there: the end may have come before. *)
StartWorkers(r) ==
  /\ solvePc[r] = "build"
  /\ \/ /\ globalEnding[r]
        /\ solvePc' = [solvePc EXCEPT ![r] = "returned"]
        /\ UNCHANGED workerPc
     \/ /\ ~globalEnding[r]
        /\ solvePc' = [solvePc EXCEPT ![r] = "workers"]
        /\ workerPc' = [workerPc EXCEPT ![r] = "search"]
  /\ UNCHANGED << run, mainPc, sharerPc, ends, value, network, printed >>

(* Where a round of doSharing begins. *)
RoundStart == IF run.board THEN "board" ELSE "test"

LaunchSharers(r) ==
  /\ solvePc[r] = "workers"
  /\ solvePc' = [solvePc EXCEPT ![r] = "launched"]
  /\ sharerPc' = [sharerPc EXCEPT ![r] = RoundStart]
  /\ UNCHANGED << run, mainPc, workerPc, ends, value, network, printed >>

-----------------------------------------------------------------------------
(* The worker that answers, in SequentialWorker::join.                     *)
WorkerWins(r) ==
  /\ workerPc[r] = "search" /\ r \in run.finders /\ ~globalEnding[r]
  /\ workerPc' = [workerPc EXCEPT ![r] = "won"]
  /\ UNCHANGED << run, mainPc, solvePc, sharerPc, ends, value, network, printed >>

(* Mutant: the end is stored before the result.                            *)
WorkerEndsFirst(r) ==
  /\ \/ /\ workerPc[r] = "won"
        /\ workerPc' = [workerPc EXCEPT ![r] = "wrote"]
        /\ globalEnding' = [globalEnding EXCEPT ![r] = TRUE]
        /\ UNCHANGED finalResult
     \/ /\ workerPc[r] = "wrote"
        /\ workerPc' = [workerPc EXCEPT ![r] = "done"]
        /\ finalResult' = [finalResult EXCEPT ![r] = COMPLETE]
        /\ UNCHANGED globalEnding
  /\ UNCHANGED << run, mainPc, solvePc, sharerPc, mpiWinner, value, network, printed >>

(* PortfolioSimple::join: the result is stored before the end.             *)
WorkerStores(r) ==
  /\ \/ /\ workerPc[r] = "won"
        /\ workerPc' = [workerPc EXCEPT ![r] = "wrote"]
        /\ finalResult' = [finalResult EXCEPT ![r] = COMPLETE]
        /\ UNCHANGED globalEnding
     \/ /\ workerPc[r] = "wrote"
        /\ workerPc' = [workerPc EXCEPT ![r] = "done"]
        /\ globalEnding' = [globalEnding EXCEPT ![r] = TRUE]
        /\ UNCHANGED finalResult
  /\ UNCHANGED << run, mainPc, solvePc, sharerPc, mpiWinner, value, network, printed >>

-----------------------------------------------------------------------------
(* main. *)

(* The clock of rank r can pass -t: while the root parses, once every rank *)
(* has launched its sharers, or at any time.                               *)
MayExpire ==
  \/ run.deadline \in {"parsing", "any"}
  \/ run.deadline = "solving" /\ \A s \in Ranks : solvePc[s] = "launched"

Leave(r) ==
  /\ mainPc[r] = "wait"
  /\ globalEnding[r] \/ (MayExpire /\ finalResult[r] # UNKNOWN)
  /\ mainPc' = [mainPc EXCEPT ![r] = "join"]
  /\ UNCHANGED << run, solvePc, workerPc, sharerPc, ends, value, network, printed >>

(* The time is over and finalResult was read as UNKNOWN: two stores follow. *)
Expire(r) ==
  /\ \/ /\ mainPc[r] = "wait" /\ MayExpire /\ finalResult[r] = UNKNOWN
        /\ mainPc' = [mainPc EXCEPT ![r] = "expire"]
        /\ UNCHANGED ends
     \/ /\ mainPc[r] = "expire"
        /\ mainPc' = [mainPc EXCEPT ![r] = "expired"]
        /\ globalEnding' = [globalEnding EXCEPT ![r] = TRUE]
        /\ UNCHANGED << finalResult, mpiWinner >>
     \/ /\ mainPc[r] = "expired"
        /\ mainPc' = [mainPc EXCEPT ![r] = "join"]
        /\ finalResult' = [finalResult EXCEPT ![r] = TIMEOUT]
        /\ UNCHANGED << globalEnding, mpiWinner >>
  /\ UNCHANGED << run, solvePc, workerPc, sharerPc, value, network, printed >>

(* main joins the thread of solve, and the portfolio its sharers. *)
JoinThreads(r) ==
  /\ mainPc[r] = "join"
  /\ solvePc[r] \in {"launched", "returned"} /\ sharerPc[r] \in {"off", "stopped"}
  /\ mainPc' = [mainPc EXCEPT ![r] = "finalize"]
  /\ UNCHANGED << run, solvePc, workerPc, sharerPc, ends, value, network, printed >>

(* MPI_Finalize returns once every rank has called it. *)
PrintResult(r) ==
  /\ mainPc[r] = "finalize" /\ \A s \in Ranks : mainPc[s] \in {"finalize", "exit"}
  /\ mainPc' = [mainPc EXCEPT ![r] = "exit"]
  /\ printed' = [printed EXCEPT ![r] =
                   IF mpiWinner[r] # r THEN Nothing
                   ELSE IF finalResult[r] = COMPLETE THEN COMPLETE ELSE UNKNOWN]
  /\ UNCHANGED << run, solvePc, workerPc, sharerPc, ends, value, network >>

-----------------------------------------------------------------------------
(* The sharer: GlobalSharingStrategy::doSharing, joinProcess, and what the *)
(* strategies do with the other ranks in a round.                          *)

(* exchangeCandidateBoard: MPI_Allreduce. *)
ExchangeBoard ==
  /\ \A r \in Ranks : sharerPc[r] = "board"
  /\ sharerPc' = [r \in Ranks |-> "test"]
  /\ UNCHANGED << run, mainPc, solvePc, workerPc, ends, value, network, printed >>

SendEnd(r) ==
  /\ r # Root /\ sharerPc[r] = "test"
  /\ sharerPc' = [sharerPc EXCEPT ![r] = "bcast"]
  /\ IF globalEnding[r] /\ ~requestsSent[r]
     THEN /\ message' = [message EXCEPT ![r] = Live]
          /\ requestsSent' = [requestsSent EXCEPT ![r] = TRUE]
     ELSE UNCHANGED << message, requestsSent >>
  /\ UNCHANGED << run, mainPc, solvePc, workerPc, ends, value, received, bcast, mail, printed >>

(* The library reads the buffer of a message when it sends it. *)
Deliver(r) ==
  /\ message[r] \notin {Nothing, Delivered}
  /\ received' = [received EXCEPT ![r] = IF message[r] = Live THEN finalResult[r] ELSE message[r]]
  /\ message' = [message EXCEPT ![r] = Delivered]
  /\ UNCHANGED << run, pcs, ends, value, requestsSent, bcast, mail, printed >>

Last(S) == CHOOSE r \in S : \A s \in S : s <= r

(* Mutant: the winner is not taken from the messages.                      *)
VerdictOfRoot(got) == IF got = {} THEN 0 ELSE Pack(Root, received[Last(got)])

(* The requests are tested in the order of the ranks: the last result is   *)
(* kept, and the last winner that did not time out.                        *)
Verdict(got) ==
  LET answers == {r \in got : received[r] # TIMEOUT}
  IN  IF got = {} THEN 0
      ELSE Pack(IF answers = {} THEN Root ELSE Last(answers), received[Last(got)])

RootVerdict ==
  IF globalEnding[Root] THEN Pack(Root, finalResult[Root])
  ELSE Verdict({r \in Others : received[r] # Nothing})

AfterBcast(packed) == IF packed = 0 THEN "share" ELSE "apply"

BcastEnd ==
  /\ sharerPc[Root] = "test" /\ \A r \in Others : Len(bcast[r]) < MaxAhead
  /\ value' = [value EXCEPT ![Root] = RootVerdict]
  /\ bcast' = [r \in Others |-> Append(bcast[r], RootVerdict)]
  /\ sharerPc' = [sharerPc EXCEPT ![Root] = AfterBcast(RootVerdict)]
  /\ UNCHANGED << run, mainPc, solvePc, workerPc, ends, requestsSent, message, received, mail,
                  printed >>

TakeBcast(r) ==
  /\ r # Root /\ sharerPc[r] = "bcast" /\ bcast[r] # << >>
  /\ value' = [value EXCEPT ![r] = Head(bcast[r])]
  /\ bcast' = [bcast EXCEPT ![r] = Tail(@)]
  /\ sharerPc' = [sharerPc EXCEPT ![r] = AfterBcast(Head(bcast[r]))]
  /\ UNCHANGED << run, mainPc, solvePc, workerPc, ends, requestsSent, message, received, mail,
                  printed >>

(* Mutant: a rank that has not met its end sends none.                     *)
NoLastMessage(r) == UNCHANGED << message, requestsSent >>

(* The end; a rank that has not sent its end message sends the last one,   *)
(* for the root waits for one from every rank.                             *)
LastMessage(r) ==
  IF r # Root /\ ~requestsSent[r]
  THEN /\ message' = [message EXCEPT ![r] = ResultOf(value[r])]
       /\ requestsSent' = [requestsSent EXCEPT ![r] = TRUE]
  ELSE UNCHANGED << message, requestsSent >>

(* Mutant: a rank that sent its end takes itself for the winner.           *)
ApplyOwnEnd(r) ==
  /\ sharerPc[r] = "apply"
  /\ finalResult' = [finalResult EXCEPT ![r] = ResultOf(value[r])]
  /\ mpiWinner' = [mpiWinner EXCEPT ![r] = IF requestsSent[r] THEN r ELSE WinnerOf(value[r])]
  /\ value' = [value EXCEPT ![r] = ResultOf(value[r])]
  /\ LastMessage(r)
  /\ sharerPc' = [sharerPc EXCEPT ![r] = "join"]
  /\ UNCHANGED << run, mainPc, solvePc, workerPc, globalEnding, received, bcast, mail, printed >>

ApplyEnd(r) ==
  /\ sharerPc[r] = "apply"
  /\ finalResult' = [finalResult EXCEPT ![r] = ResultOf(value[r])]
  /\ mpiWinner' = [mpiWinner EXCEPT ![r] = WinnerOf(value[r])]
  /\ value' = [value EXCEPT ![r] = ResultOf(value[r])]
  /\ LastMessage(r)
  /\ sharerPc' = [sharerPc EXCEPT ![r] = "join"]
  /\ UNCHANGED << run, mainPc, solvePc, workerPc, globalEnding, received, bcast, mail, printed >>

(* Mutant: joinProcess does not wait for the requests.                     *)
NoWait(r) == TRUE

RequestsDone(r) ==
  IF r = Root THEN \A s \in Others : received[s] # Nothing ELSE message[r] = Delivered

JoinProcess(r) ==
  /\ sharerPc[r] = "join" /\ RequestsDone(r)
  /\ globalEnding' = [globalEnding EXCEPT ![r] = TRUE]
  /\ finalResult' = [finalResult EXCEPT ![r] = value[r]]
  /\ sharerPc' = [sharerPc EXCEPT ![r] = "stopped"]
  /\ UNCHANGED << run, mainPc, solvePc, workerPc, mpiWinner, value, network, printed >>

(* Mutant: the sharer of a rank that is alone in its half stops.           *)
LeaveWhenAlone(r) ==
  IF {s \in Ranks : ~requestsSent[s]} = {r} THEN "stopped" ELSE RoundStart

(* AllGatherSharing: every rank calls MPI_Comm_split; the ranks that have  *)
(* not sent their end gather the clauses of one another, and one that is   *)
(* alone goes on with the next round as the ranks that do not share do.    *)
AfterSplit(r) == RoundStart

SplitAndGather ==
  /\ run.strategy = "allgather" /\ \A r \in Ranks : sharerPc[r] = "share"
  /\ sharerPc' = [r \in Ranks |-> AfterSplit(r)]
  /\ UNCHANGED << run, mainPc, solvePc, workerPc, ends, value, network, printed >>

(* GenericGlobalSharing as a ring: a message to both neighbours, then one  *)
(* from each.                                                              *)
SendClauses(r) ==
  /\ run.strategy = "ring" /\ sharerPc[r] = "share"
  /\ mail' = [p \in Ranks \X Ranks |->
                IF p[1] = r /\ p[2] \in Neighbours(r) THEN mail[p] + 1 ELSE mail[p]]
  /\ sharerPc' = [sharerPc EXCEPT ![r] = "recv"]
  /\ UNCHANGED << run, mainPc, solvePc, workerPc, ends, value, requestsSent, message, received,
                  bcast, printed >>

ReceiveClauses(r) ==
  /\ sharerPc[r] = "recv" /\ \A s \in Neighbours(r) : mail[<< s, r >>] > 0
  /\ mail' = [p \in Ranks \X Ranks |->
                IF p[2] = r /\ p[1] \in Neighbours(r) THEN mail[p] - 1 ELSE mail[p]]
  /\ sharerPc' = [sharerPc EXCEPT ![r] = RoundStart]
  /\ UNCHANGED << run, mainPc, solvePc, workerPc, ends, value, requestsSent, message, received,
                  bcast, printed >>

Finished == /\ \A r \in Ranks : mainPc[r] = "exit" /\ workerPc[r] \notin {"won", "wrote"}
            /\ UNCHANGED vars

MainStep(r) == Leave(r) \/ Expire(r) \/ JoinThreads(r) \/ PrintResult(r)
SolveStep(r) == TakeFormula(r) \/ StartWorkers(r) \/ LaunchSharers(r)
SharerStep(r) ==
  \/ SendEnd(r) \/ TakeBcast(r) \/ ApplyEnd(r) \/ JoinProcess(r)
  \/ SendClauses(r) \/ ReceiveClauses(r)
Collective == Announce \/ ExchangeBoard \/ BcastEnd \/ SplitAndGather

Next ==
  \/ Collective
  \/ \E r \in Ranks : MainStep(r) \/ SolveStep(r) \/ SharerStep(r) \/ WorkerWins(r) \/ WorkerStores(r)
  \/ \E r \in Others : Deliver(r)
  \/ Finished

Spec == Init /\ [][Next]_vars

(* Threads that can run do, messages arrive; no worker has to answer.      *)
FairSpec ==
  /\ Spec /\ WF_vars(Collective)
  /\ \A r \in Ranks : WF_vars(MainStep(r)) /\ WF_vars(SolveStep(r)) /\ WF_vars(SharerStep(r))
                      /\ WF_vars(WorkerStores(r))
  /\ \A r \in Others : WF_vars(Deliver(r))

-----------------------------------------------------------------------------
AllDone == \A r \in Ranks : mainPc[r] = "exit"

(* The end is agreed upon: ranks whose sharers have stopped know the same  *)
(* winner and took over the same result, and exactly one rank prints,      *)
(* whatever order the end messages, the time and the broadcasts came in.   *)
OneWinner ==
  /\ \A r, s \in Ranks : sharerPc[r] = "stopped" /\ sharerPc[s] = "stopped"
       => mpiWinner[r] = mpiWinner[s] /\ value[r] = value[s]
  /\ AllDone => Cardinality({r \in Ranks : printed[r] # Nothing}) = 1

(* The rank that prints the backbone is one whose own worker answered: no  *)
(* other has a finalBackbone to print.                                     *)
PrintsOwnAnswer ==
  \A r \in Ranks : printed[r] = COMPLETE => workerPc[r] \in {"wrote", "done"}

(* Without -t an answer is never lost on its way: the run ends because a   *)
(* rank answered, and an answer is printed, although messages are read     *)
(* from a buffer that changes and the last one received wins.              *)
AnswerSurvives ==
  AllDone /\ run.deadline = "never" => \E r \in Ranks : printed[r] = COMPLETE

(* Rank r is inside a call that rank s has to make too. *)
WaitsFor(r, s) ==
  \/ sharerPc[r] = "board" \/ (sharerPc[r] = "share" /\ run.strategy = "allgather")
  \/ s = Root /\ sharerPc[r] = "bcast" /\ bcast[r] = << >>
  \/ sharerPc[r] = "recv" /\ s \in Neighbours(r) /\ mail[<< s, r >>] = 0

(* The collective calls match (GlobalSharingStrategy.cpp:138): no rank     *)
(* waits in one for a rank whose sharer has stopped or was never launched. *)
NobodyLeftWaiting ==
  \A r, s \in Ranks : WaitsFor(r, s) => sharerPc[s] # "stopped" /\ solvePc[s] # "returned"

(* MPI_Finalize is called with no message or request pending: the end      *)
(* message that each rank sends is received, and so are all the clauses.   *)
NothingPending ==
  /\ \A r \in Others : mainPc[r] \in {"finalize", "exit"} => message[r] \in {Nothing, Delivered}
  /\ mainPc[Root] \in {"finalize", "exit"} /\ solvePc[Root] = "launched"
       => \A r \in Others : received[r] # Nothing
  /\ AllDone => \A p \in Ranks \X Ranks : mail[p] = 0

(* Once one rank has met its end every rank returns from main: the message *)
(* reaches the root, the broadcast every rank, and nobody waits for ever.  *)
EndReachesAll == (\E r \in Ranks : globalEnding[r]) ~> AllDone
=============================================================================
