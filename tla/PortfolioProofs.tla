--------------------------- MODULE PortfolioProofs ---------------------------
(***************************************************************************)
(* Proofs about the start and the end of a run, for any number of workers, *)
(* with or without a timeout, in both builds.  The argument follows the    *)
(* two things that can end a run: a winner, which writes finalResult       *)
(* before globalEnding, and the clock, which main only obeys when          *)
(* finalResult is still unknown.                                           *)
(***************************************************************************)
EXTENDS Portfolio, TLAPS

(* The places of a worker thread that only a claimed answer leads to, and  *)
(* those where it has given its answer to main.                            *)
Winning == {"claim", "force", "stop", "result", "ending", "copy", "copying", "notify"}
Reported == {"ending", "copy", "copying", "notify"}

(* A winner interrupts no further than the slaves there are.               *)
InterruptsSlaves == \A w \in Workers : workerPc[w] = "stop" => next[w] <= slaves

(* A worker answers the truth, or nothing; a winner answers the truth.     *)
AnswersTrue ==
  \A w \in Workers :
    /\ answer[w] \in {truth, "UNKNOWN"}
    /\ workerPc[w] \in Winning => answer[w] = truth

(* What main knows when it stops waiting: a result, or that time is up.    *)
ResultTrue ==
  /\ finalResult \in {truth, "UNKNOWN", "TIMEOUT"}
  /\ \A w \in Workers : workerPc[w] \in Reported => finalResult # "UNKNOWN"
  /\ globalEnding /\ finalResult = "UNKNOWN" => mainPc = "expired"

MainKnows ==
  /\ finalResult = "TIMEOUT" \/ mainPc \in {"expire", "expired"} => timeUp
  /\ mainPc = "check" => globalEnding \/ timeUp
  /\ mainPc \in {"join", "delete", "print", "printBackbone", "exit"} =>
       finalResult # "UNKNOWN"

(* A slave that was not added yet has no thread.                           *)
SlavesFresh ==
  \A w \in Workers : w > slaves => initPc[w] = "none" /\ workerPc[w] = "none"

(* A worker that was not given its job yet still waits for it.             *)
JobPending ==
  \A w \in Workers :
    initPc[w] # "done" =>
      /\ waitJob[w]
      /\ workerPc[w] \in {"none", "idle", "idleForce", "wait", "exit"}

(* In a debug build main waits for every thread before it prints.          *)
ThreadsGone ==
  /\ mainPc \in {"delete", "print", "printBackbone", "exit"} => launchPc = "done"
  /\ build = "debug" /\ mainPc \in {"print", "printBackbone", "exit"} =>
       \A w \in Workers : Exited(w)

(* A backbone that is missing or half written still has its writer.        *)
BackboneComing ==
  /\ finalBackbone = "torn" => \E w \in Workers : workerPc[w] = "copying"
  /\ finalBackbone = "empty" /\ finalResult = "COMPLETE" =>
       \E w \in Workers : workerPc[w] \in {"ending", "copy"}
  /\ mainPc = "printBackbone" => finalResult = "COMPLETE"

(* A debug build never prints a backbone that nobody wrote yet, or that is *)
(* half written; two winners may still break it (BackboneValid).           *)
DebugPrintsWritten == build = "debug" => printed.backbone \notin {"empty", "torn"}

EndInv ==
  /\ InterruptsSlaves /\ AnswersTrue /\ ResultTrue /\ MainKnows /\ AnswerPrinted
  /\ SlavesFresh /\ JobPending /\ ThreadsGone /\ BackboneComing /\ DebugPrintsWritten
-----------------------------------------------------------------------------
(* Typing. *)

LEMMA WorkerTypeStep ==
  ASSUME TypeOK, InterruptsSlaves, NEW w \in Workers, WorkerThread(w)
  PROVE  TypeOK'
<1> USE DEF WorkerGoes, TypeOK, WorkerPc, input, mainVars, launchVars, flags, ending
<1>1. CASE IdleEnd(w)
  BY <1>1 DEF IdleEnd
<1>2. CASE IdleForce(w)
  BY <1>2 DEF IdleForce
<1>3. CASE TakeJob(w)
  BY <1>3 DEF TakeJob
<1>4. CASE Solve(w)
  BY <1>4 DEF Solve, Results
<1>5. CASE JoinForce(w)
  BY <1>5 DEF JoinForce
<1>6. CASE TestEnd(w)
  BY <1>6 DEF TestEnd
<1>7. CASE Requeue(w)
  BY <1>7 DEF Requeue
<1>8. CASE TestStrategy(w)
  BY <1>8 DEF TestStrategy
<1>9. CASE Claim(w)
  BY <1>9 DEF Claim
<1>10. CASE InterruptForce(w)
  BY <1>10 DEF InterruptForce, Workers
<1>11. CASE InterruptStop(w)
  <2>1. next[w] + 1 \in 1 .. NumWorkers + 1
    BY <1>11, PortfolioAssumption DEF InterruptStop, InterruptsSlaves
  <2> QED BY <1>11, <2>1 DEF InterruptStop
<1>12. CASE SetResult(w)
  BY <1>12 DEF SetResult
<1>13. CASE SetEnding(w)
  BY <1>13 DEF SetEnding
<1>14. CASE CopyBegin(w)
  BY <1>14 DEF CopyBegin, Backbones
<1>15. CASE CopyEnd(w)
  BY <1>15 DEF CopyEnd, Backbones
<1>16. CASE Notify(w)
  BY <1>16 DEF Notify
<1> QED
  BY <1>1, <1>2, <1>3, <1>4, <1>5, <1>6, <1>7, <1>8, <1>9,
     <1>10, <1>11, <1>12, <1>13, <1>14, <1>15, <1>16 DEF WorkerThread

LEMMA LaunchTypeStep ==
  ASSUME TypeOK, Launcher \/ (\E w \in Workers : Initializer(w))
  PROVE  TypeOK'
<1> USE DEF TypeOK, input, mainVars, workerVars, flags, ending
<1>1. CASE LaunchCheck \/ LaunchDone
  BY <1>1 DEF LaunchCheck, LaunchDone, LaunchPc
<1>2. CASE AddSlave
  <2>1. slaves' \in 1 .. NumWorkers
    BY <1>2, PortfolioAssumption DEF AddSlave
  <2> QED BY <1>2, <2>1 DEF AddSlave, Workers, InitPc, WorkerPc
<1>3. ASSUME NEW w \in Workers, UnsetForce(w) PROVE TypeOK'
  BY <1>3 DEF UnsetForce, InitGoes, InitPc
<1>4. ASSUME NEW w \in Workers, UnsetStop(w) PROVE TypeOK'
  BY <1>4 DEF UnsetStop, InitGoes, InitPc
<1>5. ASSUME NEW w \in Workers, GiveJob(w) PROVE TypeOK'
  BY <1>5 DEF GiveJob, InitGoes, InitPc
<1> QED BY <1>1, <1>2, <1>3, <1>4, <1>5 DEF Launcher, Initializer

LEMMA MainTypeStep ==
  ASSUME TypeOK, MainThread \/ SpuriousWake \/ TimePasses
  PROVE  TypeOK'
<1> USE DEF TypeOK, MainGoes, MainPc, input, launchVars, workerVars, flags, ending
<1>1. CASE MainTest
  BY <1>1 DEF MainTest
<1>2. CASE MainSleep \/ MainWake \/ SpuriousWake
  BY <1>2 DEF MainSleep, MainWake, SpuriousWake
<1>3. CASE TimePasses
  BY <1>3 DEF TimePasses
<1>4. CASE MainCheck
  BY <1>4 DEF MainCheck
<1>5. CASE MainExpire
  BY <1>5 DEF MainExpire
<1>6. CASE MainTimeout
  BY <1>6 DEF MainTimeout, Results
<1>7. CASE MainJoin
  BY <1>7 DEF MainJoin
<1>8. CASE MainDeleted
  BY <1>8 DEF MainDeleted
<1>9. ASSUME NEW w \in Workers, MainDelete(w) PROVE TypeOK'
  BY <1>9 DEF MainDelete, mainVars
<1>10. CASE MainPrint
  BY <1>10 DEF MainPrint, Results
<1>11. CASE MainPrintBackbone
  BY <1>11 DEF MainPrintBackbone, Backbones
<1> QED BY <1>1, <1>2, <1>3, <1>4, <1>5, <1>6, <1>7, <1>8, <1>9, <1>10, <1>11 DEF MainThread

LEMMA TypeStep == TypeOK /\ InterruptsSlaves /\ [Next]_vars => TypeOK'
<1>1. UNCHANGED vars /\ TypeOK => TypeOK'
  BY DEF TypeOK, vars, input, mainVars, launchVars, workerVars, flags, ending
<1> QED BY <1>1, WorkerTypeStep, LaunchTypeStep, MainTypeStep DEF Next, Ended
-----------------------------------------------------------------------------
(* What the steps of each thread may change. *)

(* A worker moves alone, and touches neither the launch nor main.          *)
LEMMA WorkerMoves ==
  ASSUME TypeOK, NEW w \in Workers, WorkerThread(w)
  PROVE  /\ UNCHANGED << input, launchVars, mainPc, timeUp, printed >>
         /\ \A u \in Workers \ {w} :
              workerPc'[u] = workerPc[u] /\ next'[u] = next[u] /\ answer'[u] = answer[u]
<1> USE DEF WorkerGoes, TypeOK, mainVars
<1>1. CASE IdleEnd(w) \/ IdleForce(w) \/ TakeJob(w) \/ Solve(w) \/ JoinForce(w)
           \/ TestEnd(w) \/ Requeue(w) \/ TestStrategy(w)
  BY <1>1 DEF IdleEnd, IdleForce, TakeJob, Solve, JoinForce, TestEnd, Requeue, TestStrategy
<1>2. CASE Claim(w) \/ InterruptForce(w) \/ InterruptStop(w) \/ SetResult(w) \/ SetEnding(w)
           \/ CopyBegin(w) \/ CopyEnd(w) \/ Notify(w)
  BY <1>2 DEF Claim, InterruptForce, InterruptStop, SetResult, SetEnding, CopyBegin,
              CopyEnd, Notify
<1> QED BY <1>1, <1>2 DEF WorkerThread

(* The other threads leave the workers alone, but for the one they add.    *)
LEMMA OthersMove ==
  ASSUME TypeOK, Launcher \/ MainThread \/ SpuriousWake \/ TimePasses
                 \/ \E w \in Workers : Initializer(w)
  PROVE  /\ UNCHANGED << input, next, answer, strategyEnding, finalBackbone >>
         /\ \/ UNCHANGED << workerPc, slaves >>
            \/ /\ slaves + 1 \in Workers /\ slaves' = slaves + 1
               /\ workerPc' = [workerPc EXCEPT ![slaves + 1] = "idle"]
               /\ UNCHANGED << mainPc, timeUp, printed, finalResult, globalEnding >>
<1> USE DEF MainGoes, mainVars, launchVars, workerVars, flags, ending
<1>1. CASE LaunchCheck \/ LaunchDone
  BY <1>1 DEF LaunchCheck, LaunchDone
<1>2. CASE AddSlave
  BY <1>2, PortfolioAssumption DEF AddSlave, TypeOK, Workers
<1>3. ASSUME NEW w \in Workers, Initializer(w)
      PROVE  UNCHANGED << input, workerVars, slaves, ending >>
  BY <1>3 DEF Initializer, UnsetForce, UnsetStop, GiveJob
<1>4. CASE MainTest \/ MainSleep \/ MainWake \/ SpuriousWake \/ TimePasses \/ MainCheck
           \/ MainExpire \/ MainTimeout
  BY <1>4 DEF MainTest, MainSleep, MainWake, SpuriousWake, TimePasses, MainCheck,
              MainExpire, MainTimeout
<1>5. CASE MainJoin \/ (\E w \in Workers : MainDelete(w)) \/ MainDeleted \/ MainPrint
           \/ MainPrintBackbone
  BY <1>5 DEF MainJoin, MainDelete, MainDeleted, MainPrint, MainPrintBackbone
<1> QED BY <1>1, <1>2, <1>3, <1>4, <1>5 DEF Launcher, MainThread

(* The life of a worker thread: what its own step does to its answer, and  *)
(* when it becomes a winner and reports to main.                           *)
LEMMA WorkerAnswers ==
  ASSUME TypeOK, NEW w \in Workers, WorkerThread(w)
  PROVE  /\ answer'[w] = answer[w] \/ answer'[w] \in {truth, "UNKNOWN"}
         /\ workerPc'[w] \in Winning =>
              answer'[w] = answer[w] /\ (workerPc[w] \in Winning \/ answer[w] # "UNKNOWN")
<1> USE DEF WorkerGoes, TypeOK, Winning
<1>1. CASE IdleEnd(w) \/ IdleForce(w) \/ TakeJob(w) \/ JoinForce(w) \/ TestEnd(w) \/ Requeue(w)
  BY <1>1 DEF IdleEnd, IdleForce, TakeJob, JoinForce, TestEnd, Requeue
<1>2. CASE Solve(w)
  BY <1>2 DEF Solve
<1>3. CASE TestStrategy(w) \/ Claim(w)
  BY <1>3 DEF TestStrategy, Claim
<1>4. CASE InterruptForce(w) \/ InterruptStop(w)
  BY <1>4 DEF InterruptForce, InterruptStop
<1>5. CASE SetResult(w) \/ SetEnding(w) \/ CopyBegin(w) \/ CopyEnd(w) \/ Notify(w)
  BY <1>5 DEF SetResult, SetEnding, CopyBegin, CopyEnd, Notify
<1> QED BY <1>1, <1>2, <1>3, <1>4, <1>5 DEF WorkerThread

LEMMA WorkerReports ==
  ASSUME TypeOK, NEW w \in Workers, WorkerThread(w)
  PROVE  \/ /\ UNCHANGED << finalResult, globalEnding >>
            /\ workerPc'[w] \in Reported => workerPc[w] \in Reported
         \/ /\ workerPc[w] = "result" /\ workerPc'[w] = "ending"
            /\ finalResult' = answer[w] /\ UNCHANGED globalEnding
         \/ /\ workerPc[w] = "ending" /\ globalEnding' = TRUE /\ UNCHANGED finalResult
            /\ workerPc'[w] = IF answer[w] = "COMPLETE" THEN "copy" ELSE "notify"
<1> USE DEF WorkerGoes, TypeOK, Reported, ending
<1>1. CASE IdleEnd(w) \/ IdleForce(w) \/ TakeJob(w) \/ Solve(w) \/ JoinForce(w) \/ TestEnd(w)
           \/ Requeue(w) \/ TestStrategy(w) \/ Claim(w)
  BY <1>1 DEF IdleEnd, IdleForce, TakeJob, Solve, JoinForce, TestEnd, Requeue, TestStrategy,
              Claim
<1>2. CASE InterruptForce(w) \/ InterruptStop(w)
  BY <1>2 DEF InterruptForce, InterruptStop
<1>3. CASE SetResult(w) \/ SetEnding(w)
  BY <1>3 DEF SetResult, SetEnding
<1>4. CASE CopyBegin(w) \/ CopyEnd(w) \/ Notify(w)
  BY <1>4 DEF CopyBegin, CopyEnd, Notify
<1> QED BY <1>1, <1>2, <1>3, <1>4 DEF WorkerThread

LEMMA WorkerInterrupts ==
  ASSUME TypeOK, NEW w \in Workers, WorkerThread(w), workerPc'[w] = "stop"
  PROVE  next'[w] <= slaves
<1> USE DEF WorkerGoes, TypeOK
<1>1. CASE InterruptForce(w)
  BY <1>1 DEF InterruptForce
<1>2. CASE IdleEnd(w) \/ IdleForce(w) \/ TakeJob(w) \/ Solve(w) \/ JoinForce(w) \/ TestEnd(w)
           \/ Requeue(w) \/ TestStrategy(w) \/ Claim(w)
  BY <1>2 DEF IdleEnd, IdleForce, TakeJob, Solve, JoinForce, TestEnd, Requeue, TestStrategy,
              Claim
<1>3. CASE InterruptStop(w) \/ SetResult(w) \/ SetEnding(w) \/ CopyBegin(w) \/ CopyEnd(w)
           \/ Notify(w)
  BY <1>3 DEF InterruptStop, SetResult, SetEnding, CopyBegin, CopyEnd, Notify
<1> QED BY <1>1, <1>2, <1>3 DEF WorkerThread

(* A thread that waits for its job stays there, and no worker takes the    *)
(* job of another; a thread that is gone does not move.                    *)
LEMMA WorkerWaits ==
  ASSUME TypeOK, NEW w \in Workers, WorkerThread(w)
  PROVE  /\ \A u \in Workers : waitJob[u] => waitJob'[u]
         /\ waitJob[w] /\ workerPc[w] \in {"none", "idle", "idleForce", "wait", "exit"} =>
              workerPc'[w] \in {"none", "idle", "idleForce", "wait", "exit"}
         /\ ~ Exited(w)
<1> USE DEF WorkerGoes, TypeOK, flags, Exited
<1>1. CASE IdleEnd(w) \/ IdleForce(w) \/ TakeJob(w)
  BY <1>1 DEF IdleEnd, IdleForce, TakeJob
<1>2. CASE Requeue(w)
  BY <1>2 DEF Requeue
<1>3. CASE Solve(w) \/ JoinForce(w) \/ TestEnd(w) \/ TestStrategy(w) \/ Claim(w)
  BY <1>3 DEF Solve, JoinForce, TestEnd, TestStrategy, Claim
<1>4. CASE InterruptForce(w) \/ InterruptStop(w) \/ SetResult(w) \/ SetEnding(w)
  BY <1>4 DEF InterruptForce, InterruptStop, SetResult, SetEnding
<1>5. CASE CopyBegin(w) \/ CopyEnd(w) \/ Notify(w)
  BY <1>5 DEF CopyBegin, CopyEnd, Notify
<1> QED BY <1>1, <1>2, <1>3, <1>4, <1>5 DEF WorkerThread

(* Only the two steps of the copy touch finalBackbone.                     *)
LEMMA WorkerCopies ==
  ASSUME TypeOK, NEW w \in Workers, WorkerThread(w), ~ CopyBegin(w), ~ CopyEnd(w)
  PROVE  finalBackbone' = finalBackbone /\ workerPc[w] \notin {"copy", "copying"}
<1> USE DEF WorkerGoes, ending
<1>1. CASE IdleEnd(w) \/ IdleForce(w) \/ TakeJob(w) \/ Solve(w) \/ JoinForce(w) \/ TestEnd(w)
           \/ Requeue(w) \/ TestStrategy(w)
  BY <1>1 DEF IdleEnd, IdleForce, TakeJob, Solve, JoinForce, TestEnd, Requeue, TestStrategy
<1>2. CASE Claim(w) \/ InterruptForce(w) \/ InterruptStop(w) \/ SetResult(w) \/ SetEnding(w)
           \/ Notify(w)
  BY <1>2 DEF Claim, InterruptForce, InterruptStop, SetResult, SetEnding, Notify
<1> QED BY <1>1, <1>2 DEF WorkerThread

(* A worker that found the backbone copies it once it ended the run.       *)
LEMMA WorkerLeavesEnding ==
  ASSUME TypeOK, NEW w \in Workers, WorkerThread(w),
         workerPc[w] = "ending", answer[w] = "COMPLETE"
  PROVE  workerPc'[w] = "copy"
<1>1. SetEnding(w)
  BY DEF WorkerThread, IdleEnd, IdleForce, TakeJob, Solve, JoinForce, TestEnd, Requeue,
         TestStrategy, Claim, InterruptForce, InterruptStop, SetResult, CopyBegin, CopyEnd,
         Notify, WorkerGoes
<1> QED BY <1>1 DEF SetEnding, TypeOK

(* What main's own steps do to its knowledge of the end.                   *)
LEMMA MainMoves ==
  ASSUME TypeOK, Launcher \/ MainThread \/ SpuriousWake \/ TimePasses
                 \/ \E w \in Workers : Initializer(w)
  PROVE  \/ /\ UNCHANGED << finalResult, globalEnding, printed >>
            /\ timeUp => timeUp'
            /\ \/ mainPc' = mainPc
               \/ mainPc' \in {"test", "wait", "sleep"} /\ mainPc \in {"test", "wait", "sleep"}
               \/ mainPc = "test" /\ mainPc' = "check" /\ (globalEnding \/ timeUp)
               \/ /\ mainPc = "check"
                  /\ mainPc' = IF timeUp /\ finalResult = "UNKNOWN" THEN "expire" ELSE "join"
               \/ mainPc = "join" /\ mainPc' = IF build = "debug" THEN "delete" ELSE "print"
               \/ mainPc = "delete" /\ mainPc' = "print"
         \/ /\ mainPc = "expire" /\ mainPc' = "expired" /\ globalEnding'
            /\ UNCHANGED << finalResult, timeUp, printed >>
         \/ /\ mainPc = "expired" /\ mainPc' = "join" /\ finalResult' = "TIMEOUT"
            /\ UNCHANGED << globalEnding, timeUp, printed >>
         \/ /\ mainPc = "print" /\ mainPc' = IF finalResult = "COMPLETE" THEN "printBackbone" ELSE "exit"
            /\ printed' = [printed EXCEPT !.result =
                             IF finalResult \in {"COMPLETE", "UNSAT"} THEN finalResult ELSE "UNKNOWN"]
            /\ UNCHANGED << finalResult, globalEnding, timeUp >>
         \/ /\ mainPc = "printBackbone" /\ mainPc' = "exit"
            /\ printed' = [printed EXCEPT !.backbone = finalBackbone]
            /\ UNCHANGED << finalResult, globalEnding, timeUp >>
<1> USE DEF MainGoes, mainVars, ending
<1>1. CASE Launcher \/ \E w \in Workers : Initializer(w)
  BY <1>1 DEF Launcher, LaunchCheck, LaunchDone, AddSlave, Initializer, UnsetForce, UnsetStop,
              GiveJob
<1>2. CASE MainTest \/ MainSleep \/ MainWake \/ SpuriousWake \/ TimePasses \/ MainCheck
  BY <1>2 DEF MainTest, MainSleep, MainWake, SpuriousWake, TimePasses, MainCheck
<1>3. CASE MainExpire
  BY <1>3 DEF MainExpire
<1>4. CASE MainTimeout
  BY <1>4 DEF MainTimeout
<1>5. CASE MainJoin \/ (\E w \in Workers : MainDelete(w)) \/ MainDeleted
  BY <1>5 DEF MainJoin, MainDelete, MainDeleted
<1>6. CASE MainPrint
  BY <1>6 DEF MainPrint
<1>7. CASE MainPrintBackbone
  BY <1>7 DEF MainPrintBackbone
<1> QED BY <1>1, <1>2, <1>3, <1>4, <1>5, <1>6, <1>7 DEF MainThread
-----------------------------------------------------------------------------
(* Every step keeps the invariant, part by part. *)

(* The threads beside the workers, as one disjunction.                     *)
Others ==
  \/ Launcher \/ MainThread \/ SpuriousWake \/ TimePasses
  \/ \E w \in Workers : Initializer(w)

LEMMA Split ==
  ASSUME Next
  PROVE  (\E w \in Workers : WorkerThread(w)) \/ Others \/ UNCHANGED vars
BY DEF Next, Others, Ended

LEMMA InterruptsSlavesStep == TypeOK /\ InterruptsSlaves /\ Next => InterruptsSlaves'
<1> SUFFICES ASSUME TypeOK, InterruptsSlaves, Next PROVE InterruptsSlaves'
  OBVIOUS
<1>1. ASSUME NEW w \in Workers, WorkerThread(w) PROVE InterruptsSlaves'
  <2>1. ASSUME NEW u \in Workers, workerPc'[u] = "stop" PROVE next'[u] <= slaves'
    BY <1>1, <2>1, WorkerMoves, WorkerInterrupts DEF InterruptsSlaves, launchVars
  <2> QED BY <2>1 DEF InterruptsSlaves
<1>2. CASE Others
  <2>1. ASSUME NEW u \in Workers, workerPc'[u] = "stop" PROVE next'[u] <= slaves'
    <3>1. slaves \in Int /\ next[u] \in Int
      BY PortfolioAssumption DEF TypeOK
    <3>2. workerPc[u] = "stop" /\ next'[u] = next[u]
      BY <1>2, <2>1, OthersMove DEF Others, TypeOK
    <3>3. slaves' = slaves \/ slaves' = slaves + 1
      BY <1>2, OthersMove DEF Others
    <3> QED BY <3>1, <3>2, <3>3 DEF InterruptsSlaves
  <2> QED BY <2>1 DEF InterruptsSlaves
<1>3. CASE UNCHANGED vars
  BY <1>3 DEF vars, launchVars, workerVars, InterruptsSlaves
<1> QED BY <1>1, <1>2, <1>3, Split

LEMMA AnswersTrueStep == TypeOK /\ AnswersTrue /\ Next => AnswersTrue'
<1> SUFFICES ASSUME TypeOK, AnswersTrue, Next PROVE AnswersTrue'
  OBVIOUS
<1>1. ASSUME NEW w \in Workers, WorkerThread(w) PROVE AnswersTrue'
  <2>1. truth' = truth
    BY <1>1, WorkerMoves DEF input
  <2>2. answer'[w] \in {truth, "UNKNOWN"} /\ (workerPc'[w] \in Winning => answer'[w] = truth)
    BY <1>1, WorkerAnswers DEF AnswersTrue
  <2>3. ASSUME NEW u \in Workers \ {w}
        PROVE  answer'[u] = answer[u] /\ workerPc'[u] = workerPc[u]
    BY <1>1, <2>3, WorkerMoves
  <2> QED BY <2>1, <2>2, <2>3 DEF AnswersTrue
<1>2. CASE Others
  <2>1. UNCHANGED << truth, answer >>
    BY <1>2, OthersMove DEF Others, input
  <2>2. ASSUME NEW u \in Workers, workerPc'[u] \in Winning PROVE workerPc[u] \in Winning
    BY <1>2, <2>2, OthersMove DEF Others, TypeOK, Winning
  <2> QED BY <2>1, <2>2 DEF AnswersTrue
<1>3. CASE UNCHANGED vars
  BY <1>3 DEF vars, input, workerVars, AnswersTrue
<1> QED BY <1>1, <1>2, <1>3, Split

LEMMA ResultTrueStep == TypeOK /\ AnswersTrue /\ ResultTrue /\ Next => ResultTrue'
<1> SUFFICES ASSUME TypeOK, AnswersTrue, ResultTrue, Next PROVE ResultTrue'
  OBVIOUS
<1>1. ASSUME NEW w \in Workers, WorkerThread(w) PROVE ResultTrue'
  <2>1. /\ UNCHANGED << truth, mainPc >>
        /\ \A u \in Workers \ {w} : workerPc'[u] = workerPc[u]
    BY <1>1, WorkerMoves DEF input
  <2>2. workerPc[w] \in Reported => finalResult # "UNKNOWN"
    BY DEF ResultTrue
  <2>3. CASE UNCHANGED << finalResult, globalEnding >>
             /\ (workerPc'[w] \in Reported => workerPc[w] \in Reported)
    BY <2>1, <2>3 DEF ResultTrue
  <2>4. CASE workerPc[w] = "result" /\ finalResult' = answer[w] /\ UNCHANGED globalEnding
    <3>1. answer[w] = truth /\ truth # "UNKNOWN"
      BY <2>4 DEF AnswersTrue, Winning, TypeOK
    <3> QED BY <2>1, <2>4, <3>1 DEF ResultTrue
  <2>5. CASE workerPc[w] = "ending" /\ UNCHANGED finalResult
    <3>1. finalResult # "UNKNOWN"
      BY <2>2, <2>5 DEF Reported
    <3> QED BY <2>1, <2>5, <3>1 DEF ResultTrue
  <2> QED BY <1>1, <2>3, <2>4, <2>5, WorkerReports
<1>2. CASE Others
  <2>1. truth' = truth
    BY <1>2, OthersMove DEF Others, input
  <2>2. ASSUME NEW u \in Workers, workerPc'[u] \in Reported PROVE workerPc[u] \in Reported
    BY <1>2, <2>2, OthersMove DEF Others, TypeOK, Reported
  <2>3. finalResult' \in {finalResult, "TIMEOUT"}
    BY <1>2, MainMoves DEF Others
  <2>4. globalEnding' /\ finalResult' = "UNKNOWN" => mainPc' = "expired"
    BY <1>2, MainMoves DEF Others, ResultTrue
  <2> QED BY <2>1, <2>2, <2>3, <2>4 DEF ResultTrue
<1>3. CASE UNCHANGED vars
  BY <1>3 DEF vars, input, mainVars, workerVars, ending, ResultTrue
<1> QED BY <1>1, <1>2, <1>3, Split

LEMMA MainKnowsStep ==
  TypeOK /\ AnswersTrue /\ ResultTrue /\ MainKnows /\ Next => MainKnows'
<1> SUFFICES ASSUME TypeOK, AnswersTrue, ResultTrue, MainKnows, Next PROVE MainKnows'
  OBVIOUS
<1>1. ASSUME NEW w \in Workers, WorkerThread(w) PROVE MainKnows'
  <2>1. UNCHANGED << mainPc, timeUp >>
    BY <1>1, WorkerMoves
  <2>2. answer[w] \in {truth, "UNKNOWN"} /\ truth \notin {"UNKNOWN", "TIMEOUT"}
    BY DEF AnswersTrue, TypeOK
  <2>3. workerPc[w] = "result" => answer[w] = truth
    BY DEF AnswersTrue, Winning
  <2>4. globalEnding => globalEnding'
    BY <1>1, WorkerReports
  <2>5. finalResult' = finalResult \/ finalResult' = truth
    BY <1>1, <2>3, WorkerReports
  <2> QED BY <2>1, <2>2, <2>4, <2>5 DEF MainKnows
<1>2. CASE Others
  BY <1>2, MainMoves DEF Others, ResultTrue, MainKnows
<1>3. CASE UNCHANGED vars
  BY <1>3 DEF vars, mainVars, ending, MainKnows
<1> QED BY <1>1, <1>2, <1>3, Split

LEMMA AnswerPrintedStep ==
  TypeOK /\ ResultTrue /\ MainKnows /\ AnswerPrinted /\ Next => AnswerPrinted'
<1> SUFFICES ASSUME TypeOK, ResultTrue, MainKnows, AnswerPrinted, Next
             PROVE  AnswerPrinted'
  OBVIOUS
<1>1. ASSUME NEW w \in Workers, WorkerThread(w) PROVE AnswerPrinted'
  BY <1>1, WorkerMoves DEF input, AnswerPrinted
<1>2. CASE Others
  <2>1. truth' = truth /\ (timeUp => timeUp')
    BY <1>2, OthersMove, MainMoves DEF Others, input
  <2>2. CASE printed'.result = printed.result
    BY <2>1, <2>2 DEF AnswerPrinted
  <2>3. CASE /\ mainPc = "print" /\ UNCHANGED timeUp
             /\ printed'.result =
                  IF finalResult \in {"COMPLETE", "UNSAT"} THEN finalResult ELSE "UNKNOWN"
    <3>1. finalResult = truth \/ (finalResult = "TIMEOUT" /\ timeUp)
      BY <2>3 DEF ResultTrue, MainKnows
    <3> QED BY <2>1, <2>3, <3>1 DEF AnswerPrinted, TypeOK
  <2> QED BY <1>2, <2>2, <2>3, MainMoves DEF Others, TypeOK
<1>3. CASE UNCHANGED vars
  BY <1>3 DEF vars, input, mainVars, AnswerPrinted
<1> QED BY <1>1, <1>2, <1>3, Split

LEMMA SlavesFreshStep == TypeOK /\ SlavesFresh /\ Next => SlavesFresh'
<1> SUFFICES ASSUME TypeOK, SlavesFresh, Next PROVE SlavesFresh'
  OBVIOUS
<1>1. ASSUME NEW w \in Workers, WorkerThread(w) PROVE SlavesFresh'
  <2>1. /\ UNCHANGED << slaves, initPc >>
        /\ \A u \in Workers \ {w} : workerPc'[u] = workerPc[u]
    BY <1>1, WorkerMoves DEF launchVars
  <2>2. ~ (w > slaves)
    BY <1>1, WorkerWaits DEF SlavesFresh, Exited
  <2> QED BY <2>1, <2>2 DEF SlavesFresh
<1>2. CASE AddSlave
  <2>1. /\ slaves' = slaves + 1
        /\ \A u \in Workers \ {slaves + 1} :
             workerPc'[u] = workerPc[u] /\ initPc'[u] = initPc[u]
    BY <1>2 DEF AddSlave, TypeOK
  <2>2. slaves \in Int /\ \A u \in Workers : u \in Int
    BY PortfolioAssumption DEF TypeOK, Workers
  <2> QED BY <2>1, <2>2 DEF SlavesFresh
<1>3. ASSUME NEW w \in Workers, Initializer(w) PROVE SlavesFresh'
  <2>1. /\ UNCHANGED << slaves, workerPc >> /\ initPc[w] # "none"
        /\ \A u \in Workers \ {w} : initPc'[u] = initPc[u]
    BY <1>3 DEF Initializer, UnsetForce, UnsetStop, GiveJob, InitGoes, workerVars, TypeOK
  <2> QED BY <2>1 DEF SlavesFresh
<1>4. CASE LaunchCheck \/ LaunchDone \/ MainThread \/ SpuriousWake \/ TimePasses
  <2>1. UNCHANGED << initPc, workerPc, slaves >>
    BY <1>4 DEF LaunchCheck, LaunchDone, MainThread, MainTest, MainSleep, MainWake,
                SpuriousWake, TimePasses, MainCheck, MainExpire, MainTimeout, MainJoin,
                MainDelete, MainDeleted, MainPrint, MainPrintBackbone, launchVars, workerVars
  <2> QED BY <2>1 DEF SlavesFresh
<1>5. CASE UNCHANGED vars
  BY <1>5 DEF vars, launchVars, workerVars, SlavesFresh
<1> QED BY <1>1, <1>2, <1>3, <1>4, <1>5, Split DEF Others, Launcher

(* The others do not touch a worker that runs.                             *)
LEMMA OthersKeepRunning ==
  ASSUME TypeOK, SlavesFresh, Others, NEW u \in Workers, ~ Exited(u)
  PROVE  workerPc'[u] = workerPc[u]
<1>1. CASE UNCHANGED workerPc
  BY <1>1
<1>2. CASE /\ slaves + 1 \in Workers
           /\ workerPc' = [workerPc EXCEPT ![slaves + 1] = "idle"]
  <2>1. slaves + 1 > slaves
    BY PortfolioAssumption DEF TypeOK
  <2>2. u # slaves + 1
    BY <2>1 DEF SlavesFresh, Exited
  <2> QED BY <1>2, <2>2 DEF TypeOK
<1> QED BY <1>1, <1>2, OthersMove DEF Others

LEMMA JobPendingStep == TypeOK /\ SlavesFresh /\ JobPending /\ Next => JobPending'
<1> SUFFICES ASSUME TypeOK, SlavesFresh, JobPending, Next PROVE JobPending'
  OBVIOUS
<1>1. ASSUME NEW w \in Workers, WorkerThread(w) PROVE JobPending'
  <2>1. /\ initPc' = initPc
        /\ \A u \in Workers \ {w} : workerPc'[u] = workerPc[u]
    BY <1>1, WorkerMoves DEF launchVars
  <2>2. \A u \in Workers : waitJob[u] => waitJob'[u]
    BY <1>1, WorkerWaits
  <2>3. CASE initPc[w] = "done"
    BY <2>1, <2>2, <2>3 DEF JobPending
  <2>4. CASE initPc[w] # "done"
    <3>1. workerPc'[w] \in {"none", "idle", "idleForce", "wait", "exit"}
      BY <1>1, <2>4, WorkerWaits DEF JobPending
    <3> QED BY <2>1, <2>2, <3>1 DEF JobPending
  <2> QED BY <2>3, <2>4
<1>2. CASE Launcher
  <2>1. CASE LaunchCheck \/ LaunchDone
    BY <2>1 DEF LaunchCheck, LaunchDone, workerVars, flags, JobPending
  <2>2. CASE AddSlave
    <3>1. slaves + 1 > slaves /\ slaves + 1 \in Workers
      BY <2>2, PortfolioAssumption DEF AddSlave, TypeOK, Workers
    <3>2. waitJob[slaves + 1]
      BY <3>1 DEF SlavesFresh, JobPending
    <3>3. /\ waitJob' = waitJob /\ workerPc'[slaves + 1] = "idle"
          /\ \A u \in Workers \ {slaves + 1} :
               workerPc'[u] = workerPc[u] /\ initPc'[u] = initPc[u]
      BY <2>2, <3>1 DEF AddSlave, flags, TypeOK
    <3> QED BY <3>2, <3>3 DEF JobPending
  <2> QED BY <1>2, <2>1, <2>2 DEF Launcher
<1>3. ASSUME NEW w \in Workers, Initializer(w) PROVE JobPending'
  <2>1. workerPc' = workerPc
    BY <1>3 DEF Initializer, UnsetForce, UnsetStop, GiveJob, workerVars
  <2>2. /\ initPc'[w] = "done" \/ (initPc[w] # "done" /\ waitJob'[w] = waitJob[w])
        /\ \A u \in Workers \ {w} : initPc'[u] = initPc[u] /\ waitJob'[u] = waitJob[u]
    BY <1>3 DEF Initializer, UnsetForce, UnsetStop, GiveJob, InitGoes, TypeOK
  <2> QED BY <2>1, <2>2 DEF JobPending
<1>4. CASE MainThread \/ SpuriousWake \/ TimePasses
  <2>1. UNCHANGED << initPc, workerPc, waitJob >>
    BY <1>4 DEF MainThread, MainTest, MainSleep, MainWake, SpuriousWake, TimePasses, MainCheck,
                MainExpire, MainTimeout, MainJoin, MainDelete, MainDeleted, MainPrint,
                MainPrintBackbone, launchVars, workerVars, flags
  <2> QED BY <2>1 DEF JobPending
<1>5. CASE UNCHANGED vars
  BY <1>5 DEF vars, launchVars, workerVars, flags, JobPending
<1> QED BY <1>1, <1>2, <1>3, <1>4, <1>5, Split DEF Others

LEMMA ThreadsGoneStep == TypeOK /\ ThreadsGone /\ Next => ThreadsGone'
<1> SUFFICES ASSUME TypeOK, ThreadsGone, Next PROVE ThreadsGone'
  OBVIOUS
<1>1. ASSUME NEW w \in Workers, WorkerThread(w) PROVE ThreadsGone'
  <2>1. /\ UNCHANGED << build, launchPc, mainPc >>
        /\ \A u \in Workers \ {w} : workerPc'[u] = workerPc[u]
    BY <1>1, WorkerMoves DEF input, launchVars
  <2>2. ~ Exited(w)
    BY <1>1, WorkerWaits
  <2> QED BY <2>1, <2>2 DEF ThreadsGone, Exited
<1>2. CASE Launcher \/ \E w \in Workers : Initializer(w)
  <2>1. /\ UNCHANGED << build, mainPc >>
        /\ launchPc = "done" => UNCHANGED << launchPc, workerPc >>
    BY <1>2 DEF Launcher, LaunchCheck, LaunchDone, AddSlave, Initializer, UnsetForce, UnsetStop,
                GiveJob, input, mainVars, workerVars
  <2> QED BY <2>1 DEF ThreadsGone, Exited
<1>3. CASE MainThread \/ SpuriousWake \/ TimePasses
  <2>1. UNCHANGED << build, launchPc, workerPc >>
    BY <1>3, OthersMove DEF MainThread, MainTest, MainSleep, MainWake, SpuriousWake, TimePasses,
                MainCheck, MainExpire, MainTimeout, MainJoin, MainDelete, MainDeleted, MainPrint,
                MainPrintBackbone, input, launchVars, workerVars
  <2>2. \/ mainPc' = mainPc
        \/ mainPc' \notin {"delete", "print", "printBackbone", "exit"}
        \/ mainPc \in {"print", "printBackbone"}
        \/ launchPc = "done" /\ (build = "debug" => mainPc' = "delete")
        \/ mainPc = "delete" /\ \A u \in Workers : Exited(u)
    BY <1>3 DEF MainThread, MainTest, MainSleep, MainWake, SpuriousWake, TimePasses,
                MainCheck, MainExpire, MainTimeout, MainJoin, MainDelete, MainDeleted, MainPrint,
                MainPrintBackbone, MainGoes, mainVars
  <2> QED BY <2>1, <2>2 DEF ThreadsGone, Exited
<1>4. CASE UNCHANGED vars
  BY <1>4 DEF vars, input, mainVars, launchVars, workerVars, ThreadsGone, Exited
<1> QED BY <1>1, <1>2, <1>3, <1>4, Split DEF Others

LEMMA BackboneComingStep ==
  TypeOK /\ SlavesFresh /\ AnswersTrue /\ ResultTrue /\ BackboneComing /\ Next
    => BackboneComing'
<1> SUFFICES ASSUME TypeOK, SlavesFresh, AnswersTrue, ResultTrue, BackboneComing, Next
             PROVE  BackboneComing'
  OBVIOUS
<1>1. ASSUME NEW w \in Workers, WorkerThread(w) PROVE BackboneComing'
  <2>1. /\ mainPc' = mainPc /\ truth' = truth
        /\ \A u \in Workers \ {w} : workerPc'[u] = workerPc[u]
    BY <1>1, WorkerMoves DEF input
  <2>2. finalResult' = finalResult \/ finalResult' = truth
    BY <1>1, WorkerReports DEF AnswersTrue, Winning
  <2>3. mainPc' = "printBackbone" => finalResult' = "COMPLETE"
    BY <2>1, <2>2 DEF BackboneComing, ResultTrue, TypeOK
  <2>4. CASE CopyBegin(w)
    BY <2>3, <2>4 DEF CopyBegin, WorkerGoes, TypeOK, BackboneComing
  <2>5. CASE CopyEnd(w)
    <3>1. finalBackbone' \in {"backbone", "raced"}
      BY <2>5 DEF CopyEnd
    <3> QED BY <2>3, <3>1 DEF BackboneComing
  <2>6. CASE ~ CopyBegin(w) /\ ~ CopyEnd(w)
    <3>1. finalBackbone' = finalBackbone /\ workerPc[w] \notin {"copy", "copying"}
      BY <1>1, <2>6, WorkerCopies
    <3>2. finalBackbone' = "torn" => \E u \in Workers : workerPc'[u] = "copying"
      BY <2>1, <3>1 DEF BackboneComing
    <3>3. ASSUME finalBackbone' = "empty", finalResult' = "COMPLETE"
          PROVE  \E u \in Workers : workerPc'[u] \in {"ending", "copy"}
      <4>1. CASE workerPc'[w] \in {"ending", "copy"}
        BY <4>1
      <4>2. CASE workerPc'[w] \notin {"ending", "copy"}
        <5>1. finalResult' = finalResult
          BY <1>1, <4>2, WorkerReports
        <5>2. PICK u \in Workers : workerPc[u] \in {"ending", "copy"}
          BY <3>1, <3>3, <5>1 DEF BackboneComing
        <5>3. truth = "COMPLETE"
          BY <3>3, <5>1 DEF ResultTrue, TypeOK
        <5>4. workerPc[w] # "ending"
          BY <1>1, <4>2, <5>3, WorkerLeavesEnding DEF AnswersTrue, Winning
        <5> QED BY <2>1, <3>1, <5>2, <5>4
      <4> QED BY <4>1, <4>2
    <3> QED BY <2>3, <3>2, <3>3 DEF BackboneComing
  <2> QED BY <2>4, <2>5, <2>6
<1>2. CASE Others
  <2>1. finalBackbone' = finalBackbone
    BY <1>2, OthersMove DEF Others
  <2>2. \A u \in Workers : workerPc[u] \in {"ending", "copy", "copying"} =>
                             workerPc'[u] = workerPc[u]
    BY <1>2, OthersKeepRunning DEF Exited
  <2>3. finalResult' = "COMPLETE" => finalResult = "COMPLETE"
    BY <1>2, MainMoves DEF Others
  <2>4. mainPc' = "printBackbone" => finalResult' = "COMPLETE"
    BY <1>2, MainMoves DEF Others, BackboneComing
  <2> QED BY <2>1, <2>2, <2>3, <2>4 DEF BackboneComing
<1>3. CASE UNCHANGED vars
  BY <1>3 DEF vars, mainVars, workerVars, ending, BackboneComing
<1> QED BY <1>1, <1>2, <1>3, Split

LEMMA DebugPrintsWrittenStep ==
  TypeOK /\ ThreadsGone /\ BackboneComing /\ DebugPrintsWritten /\ Next
    => DebugPrintsWritten'
<1> SUFFICES ASSUME TypeOK, ThreadsGone, BackboneComing, DebugPrintsWritten, Next
             PROVE  DebugPrintsWritten'
  OBVIOUS
<1>1. ASSUME NEW w \in Workers, WorkerThread(w) PROVE DebugPrintsWritten'
  BY <1>1, WorkerMoves DEF input, DebugPrintsWritten
<1>2. CASE Others
  <2>1. build' = build
    BY <1>2, OthersMove DEF Others, input
  <2>2. \/ printed'.backbone = printed.backbone
        \/ mainPc = "printBackbone" /\ printed'.backbone = finalBackbone
    BY <1>2, MainMoves DEF Others, TypeOK
  <2>3. build = "debug" /\ mainPc = "printBackbone" => finalBackbone \notin {"empty", "torn"}
    BY DEF ThreadsGone, BackboneComing, Exited
  <2> QED BY <2>1, <2>2, <2>3 DEF DebugPrintsWritten
<1>3. CASE UNCHANGED vars
  BY <1>3 DEF vars, input, mainVars, DebugPrintsWritten
<1> QED BY <1>1, <1>2, <1>3, Split
-----------------------------------------------------------------------------
LEMMA EndInit == Init => TypeOK /\ EndInv
<1> SUFFICES ASSUME Init PROVE TypeOK /\ EndInv
  OBVIOUS
<1>1. TypeOK
  <2>1. 0 \in 0 .. NumWorkers /\ 1 \in 1 .. NumWorkers + 1
    BY PortfolioAssumption
  <2>2. printed \in [result : Results \union {"nothing"},
                     backbone : Backbones \union {"nothing"}]
    BY DEF Init
  <2> QED BY <2>1, <2>2 DEF Init, TypeOK, MainPc, LaunchPc, InitPc, WorkerPc, Backbones, Results
<1>2. InterruptsSlaves /\ AnswersTrue /\ SlavesFresh /\ JobPending
  BY DEF Init, InterruptsSlaves, AnswersTrue, Winning, SlavesFresh, JobPending
<1>3. ResultTrue /\ MainKnows /\ AnswerPrinted
  BY DEF Init, ResultTrue, Reported, MainKnows, AnswerPrinted
<1>4. ThreadsGone /\ BackboneComing /\ DebugPrintsWritten
  BY DEF Init, ThreadsGone, BackboneComing, DebugPrintsWritten
<1> QED BY <1>1, <1>2, <1>3, <1>4 DEF EndInv

LEMMA EndStep == TypeOK /\ EndInv /\ [Next]_vars => EndInv'
<1>1. TypeOK /\ EndInv /\ Next => EndInv'
  BY InterruptsSlavesStep, AnswersTrueStep, ResultTrueStep, MainKnowsStep, AnswerPrintedStep,
     SlavesFreshStep, JobPendingStep, ThreadsGoneStep, BackboneComingStep,
     DebugPrintsWrittenStep
  DEF EndInv
<1>2. ASSUME EndInv, UNCHANGED vars PROVE EndInv'
  <2> USE <1>2 DEF EndInv, vars, input, mainVars, launchVars, workerVars, flags, ending
  <2>1. (InterruptsSlaves /\ AnswersTrue /\ ResultTrue /\ MainKnows)'
    BY DEF InterruptsSlaves, AnswersTrue, ResultTrue, MainKnows
  <2>2. (AnswerPrinted /\ SlavesFresh /\ JobPending)'
    BY DEF AnswerPrinted, SlavesFresh, JobPending
  <2>3. (ThreadsGone /\ BackboneComing /\ DebugPrintsWritten)'
    BY DEF ThreadsGone, BackboneComing, DebugPrintsWritten, Exited
  <2> QED BY <2>1, <2>2, <2>3
<1> QED BY <1>1, <1>2

(* The invariant that carries the properties of the end of a run, in both  *)
(* builds and with or without a timeout.                                   *)
THEOREM EndCorrect == Spec => [](TypeOK /\ EndInv)
<1>1. TypeOK /\ EndInv /\ [Next]_vars => TypeOK'
  BY TypeStep DEF EndInv
<1> QED BY <1>1, EndInit, EndStep, PTL DEF Spec

(* Type correctness: in particular a winner that interrupts the slaves one *)
(* after the other never leaves the vector of slaves.                      *)
THEOREM EndTypeCorrect == Spec => []TypeOK
BY EndCorrect, PTL

(* Main prints the truth, and UNKNOWN only once the time is up.            *)
THEOREM AnswerPrintedCorrect == Spec => []AnswerPrinted
<1>1. EndInv => AnswerPrinted
  BY DEF EndInv
<1> QED BY <1>1, EndCorrect, PTL

(* A worker solves only after its initializer reset its flags, so that no  *)
(* interrupt of a search is taken back.                                    *)
THEOREM JobAfterResetCorrect == Spec => []JobAfterReset
<1>1. EndInv => JobAfterReset
  BY DEF EndInv, JobPending, JobAfterReset
<1> QED BY <1>1, EndCorrect, PTL

(* A debug build never prints a backbone that is missing or half written:  *)
(* what is left of the finding BackboneValid there is two winners that     *)
(* write it at a time.                                                     *)
THEOREM DebugBackboneWritten == Spec => []DebugPrintsWritten
<1>1. EndInv => DebugPrintsWritten
  BY DEF EndInv
<1> QED BY <1>1, EndCorrect, PTL
=============================================================================
