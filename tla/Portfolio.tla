------------------------------ MODULE Portfolio ------------------------------
(***************************************************************************)
(* How a run of one process starts and ends (no -dist): main in            *)
(* painless.cpp, the thread that runs PortfolioSimple::solve, its          *)
(* initializer threads, and one SequentialWorker thread for each solver.   *)
(* One step is one access to a variable shared between them.               *)
(*                                                                         *)
(* Of a solver only the promise of BackboneExtraction is left: it returns  *)
(* the truth, or UNKNOWN once its interrupt flag is set.                   *)
(***************************************************************************)
EXTENDS Integers, FiniteSets

CONSTANTS NumWorkers,   \* -c: the number of solvers
          HasTimeout,   \* a -t was given
          Builds        \* the builds to look at; without NDEBUG (debug) main
                        \* deletes the workers

ASSUME PortfolioAssumption ==
  /\ NumWorkers \in Nat \ {0}
  /\ HasTimeout \in BOOLEAN /\ Builds \subseteq {"release", "debug"}

(* The slaves of the portfolio, in the order of addSlave. *)
Workers == 1 .. NumWorkers

VARIABLES
  truth,           \* what is true of the formula: COMPLETE (it has models) or UNSAT
  build,           \* the build that runs
  mainPc,          \* where main is
  launchPc,        \* where PortfolioSimple::solve is
  slaves,          \* slaves.size()
  initPc,          \* where the initializer thread of each worker is
  workerPc,        \* where each worker thread is
  next,            \* the slave that a winner interrupts next
  answer,          \* what solver->solve returned in each worker
  force, waitJob,  \* the flags of each SequentialWorker
  stop,            \* stopSolver of each solver
  strategyEnding, globalEnding, finalResult,
  finalBackbone,   \* "empty", "torn" while it is written, then "backbone";
                   \* "raced" when two threads wrote it at a time
  timeUp,          \* the clock passed the timeout
  notified,        \* condGlobalEnd was notified since main last slept
  printed          \* what main printed: a result, and the backbone it read

input == << truth, build >>
mainVars == << mainPc, timeUp, notified, printed >>
launchVars == << launchPc, slaves, initPc >>
workerVars == << workerPc, next, answer >>
flags == << force, waitJob, stop >>
ending == << strategyEnding, globalEnding, finalResult, finalBackbone >>
vars == << input, mainVars, launchVars, workerVars, flags, ending >>

MainPc == {"test", "wait", "sleep", "check", "expire", "expired", "join", "delete",
           "print", "printBackbone", "exit"}
LaunchPc == {"check", "add", "join", "done"}
InitPc == {"none", "force", "stop", "wake", "done"}
WorkerPc == {"none", "idle", "idleForce", "wait", "solve", "join", "testEnd", "testStrategy", "claim",
             "force", "stop", "result", "ending", "copy", "copying", "notify", "requeue",
             "exit"}
Backbones == {"empty", "torn", "raced", "backbone"}
Results == {"UNKNOWN", "COMPLETE", "UNSAT", "TIMEOUT"}

TypeOK ==
  /\ truth \in {"COMPLETE", "UNSAT"}
  /\ build \in Builds
  /\ mainPc \in MainPc
  /\ launchPc \in LaunchPc
  /\ slaves \in 0 .. NumWorkers
  /\ initPc \in [Workers -> InitPc]
  /\ workerPc \in [Workers -> WorkerPc]
  /\ next \in [Workers -> 1 .. NumWorkers + 1]
  /\ answer \in [Workers -> Results]
  /\ force \in [Workers -> BOOLEAN]
  /\ waitJob \in [Workers -> BOOLEAN]
  /\ stop \in [Workers -> BOOLEAN]
  /\ strategyEnding \in BOOLEAN /\ globalEnding \in BOOLEAN
  /\ finalResult \in Results
  /\ finalBackbone \in Backbones
  /\ timeUp \in BOOLEAN /\ notified \in BOOLEAN
  /\ printed \in [result : Results \union {"nothing"},
                  backbone : Backbones \union {"nothing"}]

Init ==
  /\ truth \in {"COMPLETE", "UNSAT"}
  /\ build \in Builds
  /\ mainPc = "test"
  /\ launchPc = "check"
  /\ slaves = 0
  /\ initPc = [w \in Workers |-> "none"]
  /\ workerPc = [w \in Workers |-> "none"]
  /\ next = [w \in Workers |-> 1]
  /\ answer = [w \in Workers |-> "UNKNOWN"]
  /\ force = [w \in Workers |-> FALSE]
  /\ waitJob = [w \in Workers |-> TRUE]
  /\ stop = [w \in Workers |-> FALSE]
  /\ strategyEnding = FALSE /\ globalEnding = FALSE
  /\ finalResult = "UNKNOWN"
  /\ finalBackbone = "empty"
  /\ timeUp = FALSE /\ notified = FALSE
  /\ printed = [result |-> "nothing", backbone |-> "nothing"]

(* The process lives until main returns: its threads stop there. *)
Running == mainPc # "exit"

MainGoes(from, to) == mainPc = from /\ mainPc' = to
InitGoes(w, from, to) == Running /\ initPc[w] = from /\ initPc' = [initPc EXCEPT ![w] = to]
WorkerGoes(w, from, to) ==
  Running /\ workerPc[w] = from /\ workerPc' = [workerPc EXCEPT ![w] = to]
-----------------------------------------------------------------------------
(* PortfolioSimple::solve and its initializer threads. *)

(* The test of globalEnding before the workers are created. *)
LaunchCheck ==
  /\ Running /\ launchPc = "check"
  /\ launchPc' = IF globalEnding THEN "done" ELSE "add"
  /\ UNCHANGED << input, mainVars, slaves, initPc, workerVars, flags, ending >>

(* new SequentialWorker, addSlave, and the start of its initializer. *)
AddSlave ==
  /\ Running /\ launchPc = "add" /\ slaves < NumWorkers
  /\ slaves' = slaves + 1
  /\ initPc' = [initPc EXCEPT ![slaves'] = "force"]
  /\ workerPc' = [workerPc EXCEPT ![slaves'] = "idle"]
  /\ UNCHANGED << input, mainVars, launchPc, next, answer, flags, ending >>

LaunchDone ==
  /\ Running
  /\ \/ launchPc = "add" /\ slaves = NumWorkers /\ launchPc' = "join"
     \/ /\ launchPc = "join" /\ \A w \in Workers : initPc[w] = "done"
        /\ launchPc' = "done"
  /\ UNCHANGED << input, mainVars, slaves, initPc, workerVars, flags, ending >>

(* addInitialClauses, then SequentialWorker::solve: the two assignments of *)
(* unsetSolverInterrupt and the one of waitJob.                            *)

(* Mutant: the job is given before the solver was reset. *)
UnsetForceAndWake(w) ==
  /\ InitGoes(w, "force", "stop")
  /\ force' = [force EXCEPT ![w] = FALSE]
  /\ waitJob' = [waitJob EXCEPT ![w] = FALSE]
  /\ UNCHANGED << input, mainVars, launchPc, slaves, workerVars, stop, ending >>

UnsetForce(w) ==
  /\ InitGoes(w, "force", "stop")
  /\ force' = [force EXCEPT ![w] = FALSE]
  /\ UNCHANGED << input, mainVars, launchPc, slaves, workerVars, waitJob, stop,
                  ending >>

UnsetStop(w) ==
  /\ InitGoes(w, "stop", "wake")
  /\ stop' = [stop EXCEPT ![w] = FALSE]
  /\ UNCHANGED << input, mainVars, launchPc, slaves, workerVars, force,
                  waitJob, ending >>

(* The signal follows under mutexStart: it cannot be missed. *)
GiveJob(w) ==
  /\ InitGoes(w, "wake", "done")
  /\ waitJob' = [waitJob EXCEPT ![w] = FALSE]
  /\ UNCHANGED << input, mainVars, launchPc, slaves, workerVars, force, stop,
                  ending >>
-----------------------------------------------------------------------------
(* A worker thread: mainWorker and SequentialWorker::join. *)

(* The loop condition: globalEnding, then force. *)
IdleEnd(w) ==
  /\ Running /\ workerPc[w] = "idle"
  /\ workerPc' = [workerPc EXCEPT ![w] = IF globalEnding THEN "exit" ELSE "idleForce"]
  /\ UNCHANGED << input, mainVars, launchVars, next, answer, flags, ending >>

IdleForce(w) ==
  /\ Running /\ workerPc[w] = "idleForce"
  /\ workerPc' = [workerPc EXCEPT ![w] = IF force[w] THEN "exit" ELSE "wait"]
  /\ UNCHANGED << input, mainVars, launchVars, next, answer, flags, ending >>

TakeJob(w) ==
  /\ WorkerGoes(w, "wait", "solve")
  /\ ~ waitJob[w]
  /\ UNCHANGED << input, mainVars, launchVars, next, answer, flags, ending >>

Solve(w) ==
  /\ WorkerGoes(w, "solve", "join")
  /\ \E r \in {truth} \union (IF stop[w] THEN {"UNKNOWN"} ELSE {}) :
       answer' = [answer EXCEPT ![w] = r]
  /\ UNCHANGED << input, mainVars, launchVars, next, flags, ending >>

JoinForce(w) ==
  /\ WorkerGoes(w, "join", "testEnd")
  /\ force' = [force EXCEPT ![w] = TRUE]
  /\ UNCHANGED << input, mainVars, launchVars, next, answer, waitJob, stop,
                  ending >>

TestEnd(w) ==
  /\ Running /\ workerPc[w] = "testEnd"
  /\ workerPc' = [workerPc EXCEPT ![w] = IF globalEnding THEN "requeue" ELSE "testStrategy"]
  /\ UNCHANGED << input, mainVars, launchVars, next, answer, flags, ending >>

Requeue(w) ==
  /\ WorkerGoes(w, "requeue", "idle")
  /\ waitJob' = [waitJob EXCEPT ![w] = TRUE]
  /\ UNCHANGED << input, mainVars, launchVars, next, answer, force, stop,
                  ending >>
-----------------------------------------------------------------------------
(* PortfolioSimple::join, in the thread of the worker that answered. *)

TestStrategy(w) ==
  /\ Running /\ workerPc[w] = "testStrategy"
  /\ workerPc' = [workerPc EXCEPT ![w] =
                    IF answer[w] = "UNKNOWN" \/ strategyEnding THEN "requeue" ELSE "claim"]
  /\ UNCHANGED << input, mainVars, launchVars, next, answer, flags, ending >>

Claim(w) ==
  /\ WorkerGoes(w, "claim", "force")
  /\ strategyEnding' = TRUE
  /\ UNCHANGED << input, mainVars, launchVars, next, answer, flags,
                  globalEnding, finalResult, finalBackbone >>

(* setSolverInterrupt on one slave after the other; the launcher may still *)
(* be adding some.                                                         *)

(* Mutant: the loop over the slaves goes one too far. *)
InterruptPastEnd(w) ==
  /\ Running /\ workerPc[w] = "force"
  /\ IF next[w] <= slaves + 1
     THEN /\ workerPc' = [workerPc EXCEPT ![w] = "stop"]
          /\ force' = [u \in Workers |-> force[u] \/ u = next[w]]
     ELSE /\ workerPc' = [workerPc EXCEPT ![w] = "result"]
          /\ UNCHANGED force
  /\ UNCHANGED << input, mainVars, launchVars, next, answer, waitJob, stop, ending >>

InterruptForce(w) ==
  /\ Running /\ workerPc[w] = "force"
  /\ IF next[w] <= slaves
     THEN /\ workerPc' = [workerPc EXCEPT ![w] = "stop"]
          /\ force' = [force EXCEPT ![next[w]] = TRUE]
     ELSE /\ workerPc' = [workerPc EXCEPT ![w] = "result"]
          /\ UNCHANGED force
  /\ UNCHANGED << input, mainVars, launchVars, next, answer, waitJob, stop,
                  ending >>

InterruptStop(w) ==
  /\ WorkerGoes(w, "stop", "force")
  /\ stop' = [stop EXCEPT ![next[w]] = TRUE]
  /\ next' = [next EXCEPT ![w] = @ + 1]
  /\ UNCHANGED << input, mainVars, launchVars, answer, force, waitJob, ending >>

SetResult(w) ==
  /\ WorkerGoes(w, "result", "ending")
  /\ finalResult' = answer[w]
  /\ UNCHANGED << input, mainVars, launchVars, next, answer, flags,
                  strategyEnding, globalEnding, finalBackbone >>

SetEnding(w) ==
  /\ Running /\ workerPc[w] = "ending"
  /\ workerPc' = [workerPc EXCEPT ![w] = IF answer[w] = "COMPLETE" THEN "copy" ELSE "notify"]
  /\ globalEnding' = TRUE
  /\ UNCHANGED << input, mainVars, launchVars, next, answer, flags,
                  strategyEnding, finalResult, finalBackbone >>

Copying == {w \in Workers : workerPc[w] = "copying"}

(* finalBackbone = backbone: a copy of many words, without a lock.  Two    *)
(* copies at a time are a data race, which may leave the vector broken.    *)
CopyBegin(w) ==
  /\ WorkerGoes(w, "copy", "copying")
  /\ finalBackbone' = IF Copying = {} /\ finalBackbone # "raced" THEN "torn" ELSE "raced"
  /\ UNCHANGED << input, mainVars, launchVars, next, answer, flags,
                  strategyEnding, globalEnding, finalResult >>

CopyEnd(w) ==
  /\ WorkerGoes(w, "copying", "notify")
  /\ \/ finalBackbone' = "backbone" /\ Copying = {w}
     \/ finalBackbone' = finalBackbone /\ finalBackbone = "raced"
  /\ UNCHANGED << input, mainVars, launchVars, next, answer, flags,
                  strategyEnding, globalEnding, finalResult >>

(* Main holds mutexGlobalEnd while it runs its loop, not while it sleeps. *)
MutexFree == mainPc \notin {"test", "wait"}

(* Mutant: the notification does not take the mutex. *)
NotifyWithoutMutex(w) ==
  /\ WorkerGoes(w, "notify", "requeue")
  /\ notified' = (mainPc = "sleep")
  /\ UNCHANGED << input, mainPc, timeUp, printed, launchVars, next, answer,
                  flags, ending >>

Notify(w) ==
  /\ WorkerGoes(w, "notify", "requeue")
  /\ MutexFree
  /\ notified' = (mainPc = "sleep")
  /\ UNCHANGED << input, mainPc, timeUp, printed, launchVars, next, answer,
                  flags, ending >>
-----------------------------------------------------------------------------
(* main *)

(* The loop around the wait; with a timeout, time also ends it. *)
MainTest ==
  /\ mainPc = "test"
  /\ mainPc' = IF globalEnding \/ timeUp THEN "check" ELSE "wait"
  /\ UNCHANGED << input, timeUp, notified, printed, launchVars, workerVars,
                  flags, ending >>

MainSleep ==
  /\ MainGoes("wait", "sleep")
  /\ notified' = FALSE
  /\ UNCHANGED << input, timeUp, printed, launchVars, workerVars, flags,
                  ending >>

MainWake ==
  /\ MainGoes("sleep", "test")
  /\ notified \/ timeUp
  /\ UNCHANGED << input, timeUp, notified, printed, launchVars, workerVars,
                  flags, ending >>

(* Mutant: an if instead of the while around the wait. *)
WakeWithoutTest ==
  /\ MainGoes("sleep", "check")
  /\ UNCHANGED << input, timeUp, notified, printed, launchVars, workerVars, flags, ending >>

SpuriousWake ==
  /\ MainGoes("sleep", "test")
  /\ UNCHANGED << input, timeUp, notified, printed, launchVars, workerVars,
                  flags, ending >>

TimePasses ==
  /\ HasTimeout /\ ~ timeUp /\ Running
  /\ timeUp' = TRUE
  /\ UNCHANGED << input, mainPc, notified, printed, launchVars, workerVars,
                  flags, ending >>

(* After the wait: the test of the time and of finalResult, then the end   *)
(* of the run and its result, in two assignments.                          *)
MainCheck ==
  /\ mainPc = "check"
  /\ mainPc' = IF timeUp /\ finalResult = "UNKNOWN" THEN "expire" ELSE "join"
  /\ UNCHANGED << input, timeUp, notified, printed, launchVars, workerVars,
                  flags, ending >>

MainExpire ==
  /\ MainGoes("expire", "expired")
  /\ globalEnding' = TRUE
  /\ UNCHANGED << input, timeUp, notified, printed, launchVars, workerVars,
                  flags, strategyEnding, finalResult, finalBackbone >>

MainTimeout ==
  /\ MainGoes("expired", "join")
  /\ finalResult' = "TIMEOUT"
  /\ UNCHANGED << input, timeUp, notified, printed, launchVars, workerVars,
                  flags, strategyEnding, globalEnding, finalBackbone >>

MainJoin ==
  /\ mainPc = "join" /\ launchPc = "done"
  /\ mainPc' = IF build = "debug" THEN "delete" ELSE "print"
  /\ UNCHANGED << input, timeUp, notified, printed, launchVars, workerVars,
                  flags, ending >>

(* The destructors of the workers, one after the other: the threads that   *)
(* were not told to stop are interrupted, then joined.                     *)
Exited(w) == workerPc[w] \in {"none", "exit"}

MainDelete(w) ==
  /\ mainPc = "delete" /\ w <= slaves
  /\ ~ Exited(w) /\ \A u \in 1 .. w - 1 : Exited(u)
  /\ ~ force[w]
  /\ force' = [force EXCEPT ![w] = TRUE]
  /\ stop' = [stop EXCEPT ![w] = TRUE]
  /\ UNCHANGED << input, mainVars, launchVars, workerVars, waitJob, ending >>

MainDeleted ==
  /\ MainGoes("delete", "print")
  /\ \A w \in Workers : Exited(w)
  /\ UNCHANGED << input, timeUp, notified, printed, launchVars, workerVars,
                  flags, ending >>

(* logSolution, then logBackbone from finalBackbone. *)
MainPrint ==
  /\ mainPc = "print"
  /\ mainPc' = IF finalResult = "COMPLETE" THEN "printBackbone" ELSE "exit"
  /\ printed' = [printed EXCEPT !.result =
                   IF finalResult \in {"COMPLETE", "UNSAT"} THEN finalResult ELSE "UNKNOWN"]
  /\ UNCHANGED << input, timeUp, notified, launchVars, workerVars, flags,
                  ending >>

MainPrintBackbone ==
  /\ MainGoes("printBackbone", "exit")
  /\ printed' = [printed EXCEPT !.backbone = finalBackbone]
  /\ UNCHANGED << input, timeUp, notified, launchVars, workerVars, flags,
                  ending >>
-----------------------------------------------------------------------------
Launcher == LaunchCheck \/ AddSlave \/ LaunchDone

Initializer(w) == UnsetForce(w) \/ UnsetStop(w) \/ GiveJob(w)

WorkerThread(w) ==
  \/ IdleEnd(w) \/ IdleForce(w) \/ TakeJob(w) \/ Solve(w) \/ JoinForce(w) \/ TestEnd(w) \/ Requeue(w)
  \/ TestStrategy(w) \/ Claim(w) \/ InterruptForce(w) \/ InterruptStop(w)
  \/ SetResult(w) \/ SetEnding(w) \/ CopyBegin(w) \/ CopyEnd(w) \/ Notify(w)

MainThread ==
  \/ MainTest \/ MainSleep \/ MainWake \/ MainCheck \/ MainExpire \/ MainTimeout
  \/ MainJoin \/ (\E w \in Workers : MainDelete(w)) \/ MainDeleted
  \/ MainPrint \/ MainPrintBackbone

(* The process is gone. *)
Ended == ~ Running /\ UNCHANGED vars

Next ==
  \/ Launcher \/ MainThread \/ SpuriousWake \/ TimePasses \/ Ended
  \/ \E w \in Workers : Initializer(w) \/ WorkerThread(w)

Spec == Init /\ [][Next]_vars

(* Every thread is scheduled and every solver answers in the end.          *)
FairSpec ==
  /\ Spec
  /\ WF_vars(Launcher) /\ WF_vars(MainThread)
  /\ \A w \in Workers : WF_vars(Initializer(w)) /\ WF_vars(WorkerThread(w))
-----------------------------------------------------------------------------
(* Properties.                                                             *)

(* Main prints the truth, and UNKNOWN only when the time is up: no spurious *)
(* wakeup, no late winner and no interrupted worker changes that.          *)
AnswerPrinted ==
  printed.result # "nothing" =>
    printed.result = truth \/ (printed.result = "UNKNOWN" /\ timeUp)

(* A worker thread never solves while its initializer still works on it: an *)
(* interrupt sent to a solver that searches is never taken back.            *)
JobAfterReset ==
  \A w \in Workers : workerPc[w] = "solve" => initPc[w] = "done"

(* painless.hpp:22, the backbone is valid when the result is COMPLETE:     *)
(* what main prints is the whole backbone of a worker.  Two winners write  *)
(* it at a time, and a release build prints it too early.                  *)
BackboneValid == printed.backbone \in {"nothing", "backbone"}

(* Main always returns, whatever the wakeups, and in a debug build after   *)
(* every worker thread.                                                    *)
MainReturns == <>(mainPc = "exit")
=============================================================================
