--------------------------- MODULE CadiBackProofs ---------------------------
(***************************************************************************)
(* Proofs about the backbone search, for any number of workers, any        *)
(* formula, any sharing masks, orders and chunk rates.  The argument: what *)
(* a solver holds stays a consequence of the formula (ClausesSound), so    *)
(* every answer it gives is an answer about the formula, so every decision *)
(* of a worker, and every status it publishes, is true (SearchInv).        *)
(***************************************************************************)
EXTENDS CadiBack, FiniteSetTheorems, WellFoundedInduction, TLAPS
-----------------------------------------------------------------------------
(* Facts about literals and assignments. *)

(* The literals of a model are literals. *)
LEMMA LiteralsOfType ==
  ASSUME NEW m \in Assignments
  PROVE  LiteralsOf(m) \in SUBSET Lit
BY DEF LiteralsOf, Assignments, Lit

(* A model makes its own literals true and no other. *)
LEMMA LiteralsOfHold ==
  ASSUME NEW m \in Assignments, NEW l \in Lit
  PROVE  l \in LiteralsOf(m) <=> Holds(m, l)
BY DEF LiteralsOf, Assignments, Lit, Holds, VarOf, SignOf

(* An assignment makes exactly one of a literal and its negation true. *)
LEMMA NegHolds ==
  ASSUME NEW m \in Assignments, NEW l \in Lit
  PROVE  Neg(l) \in Lit /\ (Holds(m, Neg(l)) <=> ~ Holds(m, l))
BY DEF Assignments, Lit, Holds, VarOf, SignOf, Neg

(* Flipping the variable of a literal changes its truth value. *)
LEMMA FlipHolds ==
  ASSUME NEW m \in Assignments, NEW l \in Lit
  PROVE  Holds(Flip(m, VarOf(l)), l) <=> ~ Holds(m, l)
BY DEF Assignments, Lit, Holds, VarOf, SignOf, Flip

(* A literal true in one model and false in another is of a free variable. *)
LEMMA DisagreementIsFree ==
  ASSUME NEW M, NEW l \in Lit, NEW m \in M, NEW n \in M,
         Holds(m, l), ~ Holds(n, l)
  PROVE  VarOf(l) \in Vars /\ IsFree(M, VarOf(l)) /\ ~ Implied(M, l)
BY DEF Lit, Holds, VarOf, SignOf, IsFree, Implied

(* The status published for a backbone literal is true. *)
LEMMA BackboneStatusTrue ==
  ASSUME NEW M, NEW l \in Lit, Implied(M, l)
  PROVE  /\ VarOf(l) \in Vars
         /\ BackboneStatus(l) \in Status
         /\ StatusTrue(M, VarOf(l), BackboneStatus(l))
BY DEF Lit, Implied, Holds, VarOf, SignOf, BackboneStatus, StatusTrue, Status

(* A publication writes one status, and only a true one if told the truth. *)
LEMMA PublishTrue ==
  ASSUME NEW M, NEW b \in [Vars -> Status],
         \A v \in Vars : StatusTrue(M, v, b[v]),
         NEW v \in Vars, NEW s \in Status, StatusTrue(M, v, s)
  PROVE  /\ Publish(b, v, s) \in [Vars -> Status]
         /\ \A u \in Vars : StatusTrue(M, u, Publish(b, v, s)[u])
BY DEF Publish

(* What the board says of a candidate is what the candidate is. *)
LEMMA StatusOfCandidate ==
  ASSUME NEW M, NEW l \in Lit, NEW m \in M, Holds(m, l),
         NEW s \in Status, StatusTrue(M, VarOf(l), s)
  PROVE  /\ s \in {"positive", "negative"} => Implied(M, l)
         /\ s = "free" => ~ Implied(M, l)
         /\ s # BackboneStatus(Neg(l))
BY DEF Lit, Implied, Holds, VarOf, SignOf, Neg, BackboneStatus, StatusTrue, Status, IsFree
-----------------------------------------------------------------------------
(* Typing. *)

(* The solver only knows models of the formula. *)
LEMMA SolverType ==
  ASSUME TypeOK, NEW w \in Workers
  PROVE  /\ Solver(w) \in SUBSET phi
         /\ FirstModels(w) \in SUBSET Solver(w)
         /\ phi \in SUBSET Assignments
BY DEF TypeOK, Solver, FirstModels, ModelsOf

(* The chunk size never leaves size_t: the product cannot overflow. *)
LEMMA GrownSizeBound ==
  ASSUME NEW n \in 0 .. SizeMax, NEW K \in Nat \ {0}, SizeMax \in Nat,
         ~ (n > SizeMax \div K)
  PROVE  n * K \in 0 .. SizeMax
<1> DEFINE q == SizeMax \div K
<1>1. q \in Nat /\ K * q <= SizeMax
  OBVIOUS
<1>2. n \in Nat /\ n <= q
  BY <1>1
<1> HIDE DEF q
<1>3. n * K <= q * K /\ q * K = K * q /\ 0 <= n * K /\ n * K \in Nat
  BY <1>1, <1>2
<1> QED BY <1>1, <1>3

(* Publishing keeps the board a board. *)
LEMMA BoardType ==
  ASSUME TypeOK, NEW w \in Workers, NEW l \in Lit
  PROVE  /\ PublishBackbone(board, l) \in [Vars -> Status]
         /\ PublishFree(board, VarOf(l)) \in [Vars -> Status]
BY DEF TypeOK, PublishBackbone, PublishFree, Publish, BackboneStatus, Status

LEMMA AddBackboneLiteralType ==
  ASSUME TypeOK, NEW w \in Workers, NEW l \in Lit, AddBackboneLiteral(w, l)
  PROVE  /\ backbone' \in [Workers -> SUBSET Lit]
         /\ board' \in [Vars -> Status]
         /\ exported' \in [Workers -> SUBSET SUBSET Lit]
BY BoardType DEF AddBackboneLiteral, TypeOK

LEMMA TypeStep == TypeOK /\ [Next]_vars => TypeOK'
<1> SUFFICES ASSUME TypeOK, [Next]_vars PROVE TypeOK'
  OBVIOUS
<1> USE DEF Goto, Return, Visit, Drop, PC, solverVars, sharedVars, searchVars
<1>1. ASSUME NEW w \in Workers, FirstModel(w) PROVE TypeOK'
  <2>1. PICK m \in FirstModels(w) :
          IF stop[w]
          THEN /\ Return(w, "UNKNOWN")
               /\ UNCHANGED << cand, todo, sigma >>
          ELSE /\ Goto(w, "filter")
               /\ sigma' = [sigma EXCEPT ![w] = m]
               /\ cand' = [cand EXCEPT ![w] = LiteralsOf(m)]
               /\ todo' = [todo EXCEPT ![w] = LiteralsOf(m)]
               /\ UNCHANGED result
    BY <1>1 DEF FirstModel
  <2>2. m \in Assignments /\ LiteralsOf(m) \in SUBSET Lit
    BY SolverType, LiteralsOfType
  <2> QED BY <1>1, <2>1, <2>2 DEF FirstModel, TypeOK
<1>2. ASSUME NEW w \in Workers, FirstUnsat(w) PROVE TypeOK'
  BY <1>2 DEF FirstUnsat, TypeOK
<1>3. ASSUME NEW w \in Workers, CallInterrupted(w) PROVE TypeOK'
  BY <1>3 DEF CallInterrupted, TypeOK
<1>4. ASSUME NEW w \in Workers, NEW l \in Lit, FilterLiteral(w, l) PROVE TypeOK'
  <2>1. board' \in [Vars -> Status] /\ cand' \in [Workers -> SUBSET Lit]
    BY <1>4, BoardType DEF FilterLiteral, AddFreeVariable, TypeOK
  <2> QED BY <1>4, <2>1 DEF FilterLiteral, TypeOK
<1>5. ASSUME NEW w \in Workers, FilterDone(w) PROVE TypeOK'
  BY <1>5, ConstantsAssumption DEF FilterDone, StartSize, TypeOK
<1>6. ASSUME NEW w \in Workers, Loop(w) PROVE TypeOK'
  BY <1>6 DEF Loop, TypeOK
<1>7. ASSUME NEW w \in Workers, NEW l \in Lit, SyncLiteral(w, l) PROVE TypeOK'
  BY <1>7 DEF SyncLiteral, TypeOK
<1>8. ASSUME NEW w \in Workers, SyncDone(w) PROVE TypeOK'
  BY <1>8 DEF SyncDone, TypeOK
<1>9. ASSUME NEW w \in Workers, NEW l \in Lit, ExtractLiteral(w, l) PROVE TypeOK'
  <2>1. /\ backbone' \in [Workers -> SUBSET Lit]
        /\ board' \in [Vars -> Status]
        /\ exported' \in [Workers -> SUBSET SUBSET Lit]
    BY <1>9, AddBackboneLiteralType DEF ExtractLiteral, TypeOK
  <2>2. cand' \in [Workers -> SUBSET Lit]
    BY <1>9 DEF ExtractLiteral, TypeOK
  <2> QED BY <1>9, <2>1, <2>2 DEF ExtractLiteral, TypeOK
<1>10. ASSUME NEW w \in Workers, ExtractDone(w) PROVE TypeOK'
  BY <1>10 DEF ExtractDone, TypeOK
<1>11. ASSUME NEW w \in Workers, SelectChunk(w) PROVE TypeOK'
  <2>1. Prefix(w, cand[w], chunkSize[w]) \in SUBSET Lit
    BY DEF Prefix, TypeOK
  <2> QED BY <1>11, <2>1 DEF SelectChunk, ConstrainWith, TypeOK
<1>12. ASSUME NEW w \in Workers, AnswerSat(w) PROVE TypeOK'
  BY <1>12, SolverType DEF AnswerSat, Refuting, TypeOK
<1>13. ASSUME NEW w \in Workers, AnswerUnsat(w) PROVE TypeOK'
  BY <1>13 DEF AnswerUnsat, TypeOK
<1>14. ASSUME NEW w \in Workers, NEW l \in Lit, CommitLiteral(w, l) PROVE TypeOK'
  <2>1. /\ backbone' \in [Workers -> SUBSET Lit]
        /\ board' \in [Vars -> Status]
        /\ exported' \in [Workers -> SUBSET SUBSET Lit]
    BY <1>14, AddBackboneLiteralType DEF CommitLiteral
  <2>2. {l} \in SUBSET Lit
    OBVIOUS
  <2>3. clauses' \in [Workers -> SUBSET SUBSET Lit]
    BY <1>14, <2>2 DEF CommitLiteral, TypeOK
  <2> QED BY <1>14, <2>1, <2>3 DEF CommitLiteral, TypeOK
<1>15. ASSUME NEW w \in Workers, UnsatDone(w) PROVE TypeOK'
  <2>1. /\ chunkSize[w] \in 0 .. SizeMax
        /\ ChunkRate[w] \in Nat
        /\ SizeMax \in Nat
    BY ConstantsAssumption DEF TypeOK
  <2>2. GrownSize(w) \in 0 .. SizeMax
    BY <2>1, GrownSizeBound DEF GrownSize
  <2> QED BY <1>15, <2>2 DEF UnsatDone, TypeOK
<1>16. ASSUME NEW w \in Workers, SolverStep(w) PROVE TypeOK'
  <2>1. CASE \E c \in Learnable : Learn(w, c)
    BY <2>1, ConstantsAssumption DEF Learn, TypeOK
  <2>2. CASE \E c \in UNION {exported[u] : u \in Workers} : Import(w, c)
    BY <2>2 DEF Import, TypeOK
  <2>3. CASE \E l \in Lit : FixAtRoot(w, l)
    BY <2>3 DEF FixAtRoot, TypeOK
  <2> QED BY <1>16, <2>1, <2>2, <2>3 DEF SolverStep
<1>17. ASSUME NEW w \in Workers, Interrupt(w) PROVE TypeOK'
  BY <1>17 DEF Interrupt, TypeOK
<1>18. CASE UNCHANGED vars
  BY <1>18 DEF vars, TypeOK
<1> QED
  BY <1>1, <1>2, <1>3, <1>4, <1>5, <1>6, <1>7, <1>8, <1>9, <1>10, <1>11, <1>12,
     <1>13, <1>14, <1>15, <1>16, <1>17, <1>18 DEF Next, WorkerStep, CommonStep

LEMMA TypeInit == Init => TypeOK
BY ConstantsAssumption DEF Init, TypeOK, PC, EmptyBoard, Status

(* Type correctness of the search. *)
THEOREM TypeCorrect == Spec => []TypeOK
BY TypeInit, TypeStep, PTL DEF Spec
-----------------------------------------------------------------------------
(* The inductive invariant. *)

(* Sound clauses do not exclude a model: the solver works on the formula. *)
LEMMA SolverIsFormula ==
  ASSUME TypeOK, ClausesSound, NEW w \in Workers
  PROVE  Solver(w) = phi
BY DEF ClausesSound, Solver, ModelsOf

(* A worker's invariant only depends on its own state and on the formula. *)
SameKnowledge(u) ==
  /\ phi' = phi /\ backbone'[u] = backbone[u] /\ fixed'[u] = fixed[u]
  /\ result'[u] = result[u]

LEMMA OtherWorkers ==
  ASSUME NEW u \in Workers, WorkerInv(u), phi' = phi,
         pc'[u] = pc[u], cand'[u] = cand[u], todo'[u] = todo[u],
         backbone'[u] = backbone[u], chunk'[u] = chunk[u],
         sigma'[u] = sigma[u], fixed'[u] = fixed[u], result'[u] = result[u]
  PROVE  WorkerInv(u)'
BY DEF WorkerInv, CandidatesWitnessed, BackboneImplied, BackboneKept, ModelIsModel,
       FixedImplied, LoopShape, CommitShape, AnswerShape, HasModel

(* What a step does not touch.                                             *)
SameSearch(u) ==
  /\ pc'[u] = pc[u] /\ cand'[u] = cand[u] /\ todo'[u] = todo[u]
  /\ chunk'[u] = chunk[u] /\ chunkSize'[u] = chunkSize[u] /\ sigma'[u] = sigma[u]

LEMMA CommonStepOthers ==
  ASSUME TypeOK, NEW w \in Workers, CommonStep(w), NEW u \in Workers, u # w
  PROVE  SameSearch(u) /\ SameKnowledge(u)
<1> USE DEF TypeOK, SameSearch, SameKnowledge, Goto, Return, Visit, Drop,
            solverVars, sharedVars, searchVars
<1>1. CASE FirstModel(w)
  BY <1>1 DEF FirstModel
<1>2. CASE FirstUnsat(w)
  BY <1>2 DEF FirstUnsat
<1>3. CASE CallInterrupted(w)
  BY <1>3 DEF CallInterrupted
<1>4. CASE \E l \in Lit : FilterLiteral(w, l)
  BY <1>4 DEF FilterLiteral
<1>5. CASE FilterDone(w)
  BY <1>5 DEF FilterDone
<1>6. CASE Loop(w)
  BY <1>6 DEF Loop
<1>7. CASE \E l \in Lit : SyncLiteral(w, l)
  BY <1>7 DEF SyncLiteral
<1>8. CASE SyncDone(w)
  BY <1>8 DEF SyncDone
<1>9. CASE \E l \in Lit : ExtractLiteral(w, l)
  BY <1>9 DEF ExtractLiteral, AddBackboneLiteral
<1>10. CASE ExtractDone(w)
  BY <1>10 DEF ExtractDone
<1>11. CASE AnswerSat(w)
  BY <1>11 DEF AnswerSat
<1>12. CASE AnswerUnsat(w)
  BY <1>12 DEF AnswerUnsat
<1>13. CASE \E l \in Lit : CommitLiteral(w, l)
  BY <1>13 DEF CommitLiteral, AddBackboneLiteral
<1>14. CASE UnsatDone(w)
  BY <1>14 DEF UnsatDone
<1> QED
  BY <1>1, <1>2, <1>3, <1>4, <1>5, <1>6, <1>7, <1>8, <1>9, <1>10, <1>11, <1>12,
     <1>13, <1>14 DEF CommonStep

(* The solvers and the interrupts leave the loop of the search alone.      *)
LEMMA SolverStepOthers ==
  ASSUME TypeOK, NEW w \in Workers, SolverStep(w) \/ Interrupt(w), NEW u \in Workers
  PROVE  SameSearch(u) /\ (u # w => SameKnowledge(u))
BY DEF SolverStep, Learn, Import, FixAtRoot, Interrupt, SameSearch, SameKnowledge, TypeOK,
       searchVars, solverVars, sharedVars

(* All of it but what is pushed and still a candidate.                     *)
BaseInv(w) ==
  /\ CandidatesWitnessed(w) /\ BackboneImplied(w) /\ BackboneKept(w)
  /\ ModelIsModel(w) /\ FixedImplied(w)
  /\ LoopShape(w) /\ AnswerShape(w)

LEMMA WorkerSplit == \A w \in Workers : WorkerInv(w) <=> BaseInv(w) /\ CommitShape(w)
BY DEF WorkerInv, BaseInv

(* What the steps of a worker need and keep.                               *)
LocalInv(w) == BoardSound /\ ClausesSound /\ WorkerInv(w)

(* A step that changes neither what a worker knows of the formula nor its   *)
(* backbone only has to fit the place in the loop it leads to.             *)
LEMMA QuietBase ==
  ASSUME NEW w \in Workers, BaseInv(w), phi' = phi,
         cand'[w] = cand[w], backbone'[w] = backbone[w],
         sigma'[w] = sigma[w], fixed'[w] = fixed[w],
         LoopShape(w)', AnswerShape(w)'
  PROVE  BaseInv(w)'
BY DEF BaseInv, CandidatesWitnessed, BackboneImplied, BackboneKept, ModelIsModel,
       FixedImplied, HasModel

LEMMA QuietStep ==
  ASSUME NEW w \in Workers, WorkerInv(w), phi' = phi,
         cand'[w] = cand[w], backbone'[w] = backbone[w],
         sigma'[w] = sigma[w], fixed'[w] = fixed[w],
         pc[w] \notin {"unsat", "done"}, pc'[w] # "unsat",
         LoopShape(w)', AnswerShape(w)'
  PROVE  WorkerInv(w)'
<1>1. BaseInv(w)'
  BY QuietBase, WorkerSplit
<1>2. CommitShape(w)'
  BY DEF WorkerInv, CommitShape
<1> QED BY <1>1, <1>2 DEF WorkerInv, BaseInv

LEMMA FirstModelKeeps ==
  ASSUME TypeOK, NEW w \in Workers, LocalInv(w), FirstModel(w)
  PROVE  LocalInv(w)'
<1> USE DEF Goto, Return, sharedVars
<1>1. PICK m \in FirstModels(w) :
        IF stop[w]
        THEN /\ Return(w, "UNKNOWN")
             /\ UNCHANGED << cand, todo, sigma >>
        ELSE /\ Goto(w, "filter")
             /\ sigma' = [sigma EXCEPT ![w] = m]
             /\ cand' = [cand EXCEPT ![w] = LiteralsOf(m)]
             /\ todo' = [todo EXCEPT ![w] = LiteralsOf(m)]
             /\ UNCHANGED result
  BY DEF FirstModel
<1>2. m \in phi /\ m \in Assignments /\ m # NoModel
  BY SolverType, ConstantsAssumption
<1>3. /\ LiteralsOf(m) \in SUBSET Lit
      /\ \A l \in LiteralsOf(m) : Holds(m, l)
      /\ \A l \in Lit : Implied(phi, l) => l \in LiteralsOf(m)
  BY <1>2, LiteralsOfType, LiteralsOfHold DEF Implied
<1>4. BoardSound' /\ ClausesSound'
  BY DEF FirstModel, LocalInv, BoardSound, ClausesSound
<1>5. WorkerInv(w)'
  <2>1. /\ WorkerInv(w) /\ pc[w] \in {"first", "retry"}
        /\ ~ HasModel(w) /\ cand[w] = {} /\ backbone[w] = {}
    BY DEF LocalInv, FirstModel, WorkerInv, LoopShape
  <2>2. /\ backbone'[w] = backbone[w] /\ chunk'[w] = chunk[w]
        /\ fixed'[w] = fixed[w] /\ phi' = phi
    BY DEF FirstModel
  <2>3. CASE stop[w]
    <3>1. /\ pc'[w] = "done" /\ result'[w] = "UNKNOWN"
          /\ cand'[w] = cand[w] /\ sigma'[w] = sigma[w]
      BY <1>1, <2>3 DEF TypeOK
    <3>2. (LoopShape(w) /\ AnswerShape(w))'
      BY <2>1, <2>2, <3>1 DEF WorkerInv, LoopShape, AnswerShape, HasModel
    <3> QED BY <2>1, <2>2, <3>1, <3>2, QuietStep
  <2>4. CASE ~ stop[w]
    <3>1. /\ pc'[w] = "filter" /\ result'[w] = result[w] /\ sigma'[w] = m
          /\ cand'[w] = LiteralsOf(m) /\ todo'[w] = LiteralsOf(m)
      BY <1>1, <2>4 DEF TypeOK
    <3>2. (CandidatesWitnessed(w) /\ BackboneImplied(w) /\ BackboneKept(w))'
      BY <1>2, <1>3, <2>1, <2>2, <3>1
      DEF CandidatesWitnessed, BackboneImplied, BackboneKept
    <3>3. (ModelIsModel(w) /\ FixedImplied(w))'
      BY <1>2, <2>1, <2>2, <3>1 DEF WorkerInv, ModelIsModel, FixedImplied
    <3>4. (LoopShape(w) /\ CommitShape(w) /\ AnswerShape(w))'
      BY <1>2, <2>1, <2>2, <3>1
      DEF WorkerInv, LoopShape, CommitShape, AnswerShape, HasModel
    <3> QED BY <3>2, <3>3, <3>4 DEF WorkerInv
  <2> QED BY <2>3, <2>4
<1> QED BY <1>4, <1>5 DEF LocalInv

LEMMA FirstUnsatKeeps ==
  ASSUME TypeOK, NEW w \in Workers, LocalInv(w), FirstUnsat(w)
  PROVE  LocalInv(w)'
<1> USE DEF FirstUnsat, Goto, Return, solverVars, sharedVars, searchVars
<1>1. BoardSound' /\ ClausesSound'
  BY DEF LocalInv, BoardSound, ClausesSound
<1>2. WorkerInv(w)'
  <2>1. WorkerInv(w) /\ pc[w] \in {"first", "retry"}
    BY DEF LocalInv
  <2>2. /\ cand'[w] = cand[w] /\ backbone'[w] = backbone[w]
        /\ sigma'[w] = sigma[w] /\ fixed'[w] = fixed[w] /\ phi' = phi
        /\ chunk'[w] = chunk[w]
        /\ \/ pc'[w] = "retry" /\ result'[w] = result[w]
           \/ phi = {} /\ pc'[w] = "done" /\ result'[w] = "UNSAT"
    BY SolverIsFormula DEF LocalInv, TypeOK
  <2>3. LoopShape(w)'
    BY <2>1, <2>2 DEF WorkerInv, LoopShape, HasModel
  <2>4. AnswerShape(w)'
    BY <2>1, <2>2 DEF WorkerInv, AnswerShape, LoopShape, HasModel
  <2> QED BY <2>1, <2>2, <2>3, <2>4, QuietStep
<1> QED BY <1>1, <1>2 DEF LocalInv

LEMMA CallInterruptedKeeps ==
  ASSUME TypeOK, NEW w \in Workers, LocalInv(w), CallInterrupted(w)
  PROVE  LocalInv(w)'
<1> USE DEF CallInterrupted, Goto, Return, solverVars, sharedVars, searchVars
<1>1. BoardSound' /\ ClausesSound'
  BY DEF LocalInv, BoardSound, ClausesSound
<1>2. WorkerInv(w)'
  <2>1. WorkerInv(w) /\ pc[w] \notin {"unsat", "done"}
    BY DEF LocalInv, Solving
  <2>2. /\ cand'[w] = cand[w] /\ backbone'[w] = backbone[w]
        /\ sigma'[w] = sigma[w] /\ fixed'[w] = fixed[w] /\ phi' = phi
        /\ pc'[w] = "done" /\ result'[w] = "UNKNOWN"
    BY DEF TypeOK
  <2>3. LoopShape(w)'
    BY <2>1, <2>2 DEF WorkerInv, LoopShape, HasModel
  <2>4. AnswerShape(w)'
    BY <2>1, <2>2 DEF WorkerInv, AnswerShape, LoopShape, HasModel
  <2> QED BY <2>1, <2>2, <2>3, <2>4, QuietStep
<1> QED BY <1>1, <1>2 DEF LocalInv

LEMMA FilterDoneKeeps ==
  ASSUME TypeOK, NEW w \in Workers, LocalInv(w), FilterDone(w)
  PROVE  LocalInv(w)'
<1> USE DEF FilterDone, Goto, Return, solverVars, sharedVars, searchVars
<1>1. BoardSound' /\ ClausesSound'
  BY DEF LocalInv, BoardSound, ClausesSound
<1>2. WorkerInv(w)'
  <2>1. WorkerInv(w) /\ pc[w] = "filter"
    BY DEF LocalInv
  <2>2. /\ cand'[w] = cand[w] /\ backbone'[w] = backbone[w]
        /\ sigma'[w] = sigma[w] /\ fixed'[w] = fixed[w] /\ phi' = phi
        /\ pc'[w] = "loop" /\ result'[w] = result[w]
    BY DEF TypeOK
  <2>3. LoopShape(w)'
    BY <2>1, <2>2 DEF WorkerInv, LoopShape, HasModel
  <2>4. AnswerShape(w)'
    BY <2>1, <2>2 DEF WorkerInv, AnswerShape, LoopShape, HasModel
  <2> QED BY <2>1, <2>2, <2>3, <2>4, QuietStep
<1> QED BY <1>1, <1>2 DEF LocalInv

LEMMA LoopKeeps ==
  ASSUME TypeOK, NEW w \in Workers, LocalInv(w), Loop(w)
  PROVE  LocalInv(w)'
<1> USE DEF Loop, Goto, Return, solverVars, sharedVars, searchVars
<1>1. BoardSound' /\ ClausesSound'
  BY DEF LocalInv, BoardSound, ClausesSound
<1>2. WorkerInv(w)'
  <2>1. WorkerInv(w) /\ pc[w] = "loop"
    BY DEF LocalInv
  <2>2. /\ cand'[w] = cand[w] /\ backbone'[w] = backbone[w]
        /\ sigma'[w] = sigma[w] /\ fixed'[w] = fixed[w] /\ phi' = phi
        /\ \/ cand[w] = {} /\ pc'[w] = "done" /\ result'[w] = "COMPLETE"
           \/ pc'[w] = "done" /\ result'[w] = "UNKNOWN"
           \/ /\ pc'[w] \in {"sync", "fixed"} /\ result'[w] = result[w]
              /\ todo'[w] = cand[w]
    BY DEF TypeOK
  <2>3. LoopShape(w)'
    BY <2>1, <2>2 DEF WorkerInv, LoopShape, HasModel
  <2>4. AnswerShape(w)'
    BY <2>1, <2>2 DEF WorkerInv, AnswerShape, LoopShape, HasModel
  <2> QED BY <2>1, <2>2, <2>3, <2>4, QuietStep
<1> QED BY <1>1, <1>2 DEF LocalInv

LEMMA SyncDoneKeeps ==
  ASSUME TypeOK, NEW w \in Workers, LocalInv(w), SyncDone(w)
  PROVE  LocalInv(w)'
<1> USE DEF SyncDone, Goto, Return, solverVars, sharedVars, searchVars
<1>1. BoardSound' /\ ClausesSound'
  BY DEF LocalInv, BoardSound, ClausesSound
<1>2. WorkerInv(w)'
  <2>1. WorkerInv(w) /\ pc[w] = "sync"
    BY DEF LocalInv
  <2>2. /\ cand'[w] = cand[w] /\ backbone'[w] = backbone[w]
        /\ sigma'[w] = sigma[w] /\ fixed'[w] = fixed[w] /\ phi' = phi
        /\ pc'[w] = "fixed" /\ result'[w] = result[w] /\ todo'[w] = cand[w]
    BY DEF TypeOK
  <2>3. LoopShape(w)'
    BY <2>1, <2>2 DEF WorkerInv, LoopShape, HasModel
  <2>4. AnswerShape(w)'
    BY <2>1, <2>2 DEF WorkerInv, AnswerShape, LoopShape, HasModel
  <2> QED BY <2>1, <2>2, <2>3, <2>4, QuietStep
<1> QED BY <1>1, <1>2 DEF LocalInv

LEMMA ExtractDoneKeeps ==
  ASSUME TypeOK, NEW w \in Workers, LocalInv(w), ExtractDone(w)
  PROVE  LocalInv(w)'
<1> USE DEF ExtractDone, Goto, Return, solverVars, sharedVars, searchVars
<1>1. BoardSound' /\ ClausesSound'
  BY DEF LocalInv, BoardSound, ClausesSound
<1>2. WorkerInv(w)'
  <2>1. WorkerInv(w) /\ pc[w] = "fixed"
    BY DEF LocalInv
  <2>2. /\ cand'[w] = cand[w] /\ backbone'[w] = backbone[w]
        /\ sigma'[w] = sigma[w] /\ fixed'[w] = fixed[w] /\ phi' = phi
        /\ \/ cand[w] = {} /\ pc'[w] = "done" /\ result'[w] = "COMPLETE"
           \/ pc'[w] = "select" /\ result'[w] = result[w]
    BY DEF TypeOK
  <2>3. LoopShape(w)'
    BY <2>1, <2>2 DEF WorkerInv, LoopShape, HasModel
  <2>4. AnswerShape(w)'
    BY <2>1, <2>2 DEF WorkerInv, AnswerShape, LoopShape, HasModel
  <2> QED BY <2>1, <2>2, <2>3, <2>4, QuietStep
<1> QED BY <1>1, <1>2 DEF LocalInv

(* Whatever the chunk is made of, it is made of candidates.                *)
LEMMA ConstrainKeeps ==
  ASSUME TypeOK, NEW w \in Workers, LocalInv(w), pc[w] = "select",
         NEW c \in SUBSET cand[w], ConstrainWith(w, c)
  PROVE  LocalInv(w)'
<1> USE DEF ConstrainWith, Goto, solverVars, sharedVars
<1>1. BoardSound' /\ ClausesSound'
  BY DEF LocalInv, BoardSound, ClausesSound
<1>2. WorkerInv(w)'
  <2>1. WorkerInv(w) /\ pc[w] = "select"
    BY DEF LocalInv
  <2>2. /\ cand'[w] = cand[w] /\ backbone'[w] = backbone[w]
        /\ sigma'[w] = sigma[w] /\ fixed'[w] = fixed[w] /\ phi' = phi
        /\ pc'[w] \in {"loop", "solve"} /\ result'[w] = result[w]
        /\ chunk'[w] \subseteq cand[w]
    BY DEF TypeOK
  <2>3. LoopShape(w)'
    BY <2>1, <2>2 DEF WorkerInv, LoopShape, HasModel
  <2>4. AnswerShape(w)'
    BY <2>1, <2>2 DEF WorkerInv, AnswerShape, LoopShape, HasModel
  <2> QED BY <2>1, <2>2, <2>3, <2>4, QuietStep
<1> QED BY <1>1, <1>2 DEF LocalInv

LEMMA SelectChunkKeeps ==
  ASSUME TypeOK, NEW w \in Workers, LocalInv(w), SelectChunk(w)
  PROVE  LocalInv(w)'
<1>1. Prefix(w, cand[w], chunkSize[w]) \in SUBSET cand[w]
  BY DEF Prefix
<1> QED BY <1>1, ConstrainKeeps DEF SelectChunk

LEMMA UnsatDoneKeeps ==
  ASSUME TypeOK, NEW w \in Workers, LocalInv(w), UnsatDone(w)
  PROVE  LocalInv(w)'
<1> USE DEF UnsatDone, Goto, solverVars, sharedVars
<1>1. BoardSound' /\ ClausesSound'
  BY DEF LocalInv, BoardSound, ClausesSound
<1>2. WorkerInv(w)'
  <2>1. WorkerInv(w) /\ pc[w] = "unsat" /\ todo[w] = {} /\ HasModel(w)
    BY DEF LocalInv, WorkerInv, LoopShape
  <2>2. pc'[w] = "loop" /\ cand'[w] = cand[w] \ chunk[w]
    BY DEF TypeOK
  <2>3. chunk[w] \subseteq backbone[w] /\ cand[w] \intersect backbone[w] \subseteq chunk[w]
    BY <2>1 DEF WorkerInv, CommitShape
  <2>4. (CandidatesWitnessed(w) /\ BackboneImplied(w) /\ ModelIsModel(w) /\ FixedImplied(w))'
    BY <2>1, <2>2
    DEF WorkerInv, CandidatesWitnessed, BackboneImplied, ModelIsModel, FixedImplied, HasModel
  <2>5. BackboneKept(w)'
    BY <2>1, <2>2, <2>3 DEF WorkerInv, BackboneKept, HasModel
  <2>6. (LoopShape(w) /\ CommitShape(w) /\ AnswerShape(w))'
    BY <2>1, <2>2, <2>3 DEF WorkerInv, LoopShape, CommitShape, AnswerShape, HasModel, TypeOK
  <2> QED BY <2>4, <2>5, <2>6 DEF WorkerInv
<1> QED BY <1>1, <1>2 DEF LocalInv

(* A dropped literal is false, or could be flipped, in a model, and true   *)
(* in another: its variable is free.                                       *)
LEMMA FilterLiteralBase ==
  ASSUME TypeOK, NEW w \in Workers, BoardSound, ClausesSound, BaseInv(w),
         NEW l \in Lit, FilterLiteral(w, l)
  PROVE  /\ BoardSound' /\ ClausesSound' /\ BaseInv(w)'
         /\ \/ cand'[w] = cand[w]
            \/ cand'[w] = cand[w] \ {l} /\ ~ Implied(phi, l)
         /\ UNCHANGED << phi, pc, backbone, chunk, sigma >>
<1>1. PICK drop \in BOOLEAN :
        /\ drop => ~ Holds(sigma[w], l) \/ MayFlip(w, l)
        /\ ~ Holds(sigma[w], l) => drop
        /\ IF drop
           THEN Drop(w, l) /\ AddFreeVariable(w, VarOf(l))
           ELSE UNCHANGED << cand, board >>
  BY DEF FilterLiteral
<1>2. /\ pc[w] = "filter" /\ l \in todo[w] /\ pc' = pc
      /\ todo' = [todo EXCEPT ![w] = @ \ {l}]
      /\ UNCHANGED << phi, backbone, chunk, chunkSize, sigma, clauses, fixed, exported,
                      stop, result >>
  BY DEF FilterLiteral, IsNext, Visit, solverVars
<1>3. /\ HasModel(w) /\ sigma[w] \in phi /\ l \in cand[w]
      /\ phi \subseteq Assignments
  BY <1>2 DEF BaseInv, LoopShape, ModelIsModel, TypeOK
<1>4. PICK m \in phi : Holds(m, l)
  BY <1>3 DEF BaseInv, CandidatesWitnessed
<1>5. drop => \E n \in phi : ~ Holds(n, l)
  <2>1. CASE ~ Holds(sigma[w], l)
    BY <1>3, <2>1
  <2>2. CASE MayFlip(w, l) /\ Holds(sigma[w], l)
    BY <1>3, <2>2, SolverIsFormula, FlipHolds DEF MayFlip
  <2> QED BY <1>1, <2>1, <2>2
<1>6. drop => VarOf(l) \in Vars /\ IsFree(phi, VarOf(l)) /\ ~ Implied(phi, l)
  BY <1>4, <1>5, DisagreementIsFree
<1>7. BoardSound'
  <2>1. CASE drop /\ "free" \in Publishes[w]
    <3>1. board' = Publish(board, VarOf(l), "free")
      BY <1>1, <2>1 DEF AddFreeVariable, PublishFree
    <3>2. StatusTrue(phi, VarOf(l), "free") /\ "free" \in Status
      BY <1>6, <2>1 DEF StatusTrue, Status
    <3>3. \A v \in Vars : StatusTrue(phi, v, board[v])
      BY DEF BoardSound
    <3> QED BY <1>2, <1>6, <2>1, <3>1, <3>2, <3>3, PublishTrue DEF TypeOK, BoardSound
  <2>2. CASE ~ (drop /\ "free" \in Publishes[w])
    BY <1>1, <1>2, <2>2 DEF AddFreeVariable, BoardSound
  <2> QED BY <2>1, <2>2
<1>8. ClausesSound'
  BY <1>2 DEF ClausesSound
<1>9. cand'[w] = IF drop THEN cand[w] \ {l} ELSE cand[w]
  BY <1>1 DEF Drop, TypeOK
<1>10. BaseInv(w)'
  <2>1. todo'[w] = todo[w] \ {l}
    BY <1>2 DEF TypeOK
  <2>2. (CandidatesWitnessed(w) /\ BackboneImplied(w) /\ ModelIsModel(w) /\ FixedImplied(w))'
    BY <1>2, <1>3, <1>9
    DEF BaseInv, CandidatesWitnessed, BackboneImplied, ModelIsModel, FixedImplied, HasModel
  <2>3. BackboneKept(w)'
    BY <1>2, <1>3, <1>6, <1>9 DEF BaseInv, BackboneKept, HasModel
  <2>4. (LoopShape(w) /\ AnswerShape(w))'
    <3>1. drop \/ ~ drop
      OBVIOUS
    <3> QED BY <1>2, <1>3, <1>9, <2>1, <3>1 DEF BaseInv, LoopShape, AnswerShape, HasModel
  <2> QED BY <2>2, <2>3, <2>4 DEF BaseInv
<1> QED BY <1>2, <1>6, <1>7, <1>8, <1>9, <1>10

LEMMA FilterLiteralKeeps ==
  ASSUME TypeOK, NEW w \in Workers, LocalInv(w), NEW l \in Lit, FilterLiteral(w, l)
  PROVE  LocalInv(w)'
<1>1. /\ BoardSound' /\ ClausesSound' /\ BaseInv(w)'
      /\ cand'[w] \subseteq cand[w] /\ pc' = pc /\ backbone' = backbone
  BY FilterLiteralBase, WorkerSplit DEF LocalInv
<1>2. CommitShape(w)'
  BY <1>1 DEF LocalInv, WorkerInv, CommitShape, FilterLiteral
<1> QED BY <1>1, <1>2 DEF LocalInv, WorkerInv, BaseInv

(* What the board says of a candidate is true, so the worker may follow it. *)
LEMMA SyncLiteralKeeps ==
  ASSUME TypeOK, NEW w \in Workers, LocalInv(w), NEW l \in Lit, SyncLiteral(w, l)
  PROVE  LocalInv(w)'
<1> DEFINE s == board[VarOf(l)]
<1>1. /\ pc[w] = "sync" /\ l \in todo[w]
      /\ todo' = [todo EXCEPT ![w] = @ \ {l}]
      /\ UNCHANGED << phi, pc, chunk, chunkSize, sigma, fixed, exported, board, stop, result >>
  BY DEF SyncLiteral, IsNext, Visit, sharedVars
<1>2. /\ WorkerInv(w) /\ HasModel(w) /\ l \in cand[w]
      /\ phi \subseteq Assignments
      /\ cand[w] \intersect backbone[w] = {}
  BY <1>1 DEF LocalInv, WorkerInv, LoopShape, CommitShape, TypeOK
<1>3. PICK m \in phi : Holds(m, l)
  BY <1>2 DEF WorkerInv, CandidatesWitnessed
<1>4. /\ s \in Status /\ StatusTrue(phi, VarOf(l), s)
  BY DEF LocalInv, BoardSound, TypeOK, Lit, VarOf
<1>5. /\ s \in {"positive", "negative"} => Implied(phi, l)
      /\ s = "free" => ~ Implied(phi, l)
  BY <1>3, <1>4, StatusOfCandidate
<1>6. \/ /\ UNCHANGED << cand, backbone, clauses >>
      \/ /\ s = "free" /\ cand' = [cand EXCEPT ![w] = @ \ {l}]
         /\ UNCHANGED << backbone, clauses >>
      \/ /\ s \in {"positive", "negative"}
         /\ cand' = [cand EXCEPT ![w] = @ \ {l}]
         /\ backbone' = [backbone EXCEPT ![w] = @ \union {l}]
         /\ clauses' = [clauses EXCEPT ![w] = @ \union {{l}}]
  <2>1. s \in {"unknown", "positive", "negative", "free"}
    BY <1>4 DEF Status
  <2>2. CASE s = "unknown"
    BY <2>2 DEF SyncLiteral
  <2>3. CASE s = "free"
    BY <2>3 DEF SyncLiteral, Drop
  <2>4. CASE s \in {"positive", "negative"}
    BY <2>4 DEF SyncLiteral, Drop
  <2> QED BY <2>1, <2>2, <2>3, <2>4
<1> HIDE DEF s
<1>7. BoardSound'
  BY <1>1 DEF LocalInv, BoardSound
<1>8. ClausesSound'
  <2>1. ASSUME NEW n \in phi, s \in {"positive", "negative"} PROVE Satisfies(n, {l})
    BY <1>5, <2>1 DEF Implied, Satisfies
  <2>2. \A u \in Workers : \/ clauses'[u] = clauses[u]
                           \/ /\ s \in {"positive", "negative"}
                              /\ clauses'[u] = clauses[u] \union {{l}}
    BY <1>6 DEF TypeOK
  <2> QED BY <1>1, <2>1, <2>2 DEF LocalInv, ClausesSound
<1>9. WorkerInv(w)'
  <2>1. todo'[w] = todo[w] \ {l}
    BY <1>1 DEF TypeOK
  <2>2. \/ cand'[w] = cand[w] /\ backbone'[w] = backbone[w]
        \/ /\ ~ Implied(phi, l)
           /\ cand'[w] = cand[w] \ {l} /\ backbone'[w] = backbone[w]
        \/ /\ Implied(phi, l)
           /\ cand'[w] = cand[w] \ {l} /\ backbone'[w] = backbone[w] \union {l}
    BY <1>5, <1>6 DEF TypeOK
  <2>3. (CandidatesWitnessed(w) /\ BackboneImplied(w) /\ ModelIsModel(w) /\ FixedImplied(w))'
    BY <1>1, <1>2, <2>2
    DEF WorkerInv, CandidatesWitnessed, BackboneImplied, ModelIsModel, FixedImplied, HasModel
  <2>4. BackboneKept(w)'
    BY <1>1, <1>2, <2>2 DEF WorkerInv, BackboneKept, HasModel
  <2>5. (LoopShape(w) /\ CommitShape(w) /\ AnswerShape(w))'
    BY <1>1, <1>2, <2>1, <2>2
    DEF WorkerInv, LoopShape, CommitShape, AnswerShape, HasModel
  <2> QED BY <2>3, <2>4, <2>5 DEF WorkerInv
<1> QED BY <1>7, <1>8, <1>9 DEF LocalInv

(* Recording a literal that is implied keeps the board and the exports     *)
(* true.                                                                   *)
LEMMA AddBackboneLiteralSound ==
  ASSUME TypeOK, NEW w \in Workers, BoardSound, ClausesSound, NEW l \in Lit, Implied(phi, l),
         phi' = phi, AddBackboneLiteral(w, l)
  PROVE  /\ backbone' = [backbone EXCEPT ![w] = @ \union {l}]
         /\ BoardSound'
         /\ \A u \in Workers : \A c \in exported'[u] : \A m \in phi : Satisfies(m, c)
<1>1. BoardSound'
  <2>1. CASE "backbone" \in Publishes[w]
    <3>1. board' = Publish(board, VarOf(l), BackboneStatus(l))
      BY <2>1 DEF AddBackboneLiteral, PublishBackbone
    <3>2. /\ VarOf(l) \in Vars
          /\ BackboneStatus(l) \in Status
          /\ StatusTrue(phi, VarOf(l), BackboneStatus(l))
      BY BackboneStatusTrue
    <3>3. \A v \in Vars : StatusTrue(phi, v, board[v])
      BY DEF BoardSound
    <3> QED BY <3>1, <3>2, <3>3, PublishTrue DEF TypeOK, BoardSound
  <2>2. CASE "backbone" \notin Publishes[w]
    BY <2>2 DEF AddBackboneLiteral, BoardSound
  <2> QED BY <2>1, <2>2
<1>2. \A u \in Workers : exported'[u] \subseteq exported[u] \union {{l}}
  BY DEF AddBackboneLiteral, TypeOK
<1>3. \A m \in phi : Satisfies(m, {l})
  BY DEF Implied, Satisfies
<1>4. ASSUME NEW u \in Workers, NEW c \in exported'[u], NEW m \in phi
      PROVE  Satisfies(m, c)
  <2>1. CASE c \in exported[u]
    BY <2>1 DEF ClausesSound
  <2>2. CASE c = {l}
    BY <1>3, <2>2
  <2> QED BY <1>2, <1>4, <2>1, <2>2
<1> QED BY <1>1, <1>4 DEF AddBackboneLiteral

(* A root-fixed literal is implied; a candidate is never fixed to false.   *)
LEMMA ExtractLiteralKeeps ==
  ASSUME TypeOK, NEW w \in Workers, LocalInv(w), NEW l \in Lit, ExtractLiteral(w, l)
  PROVE  LocalInv(w)'
<1>1. /\ pc[w] = "fixed" /\ l \in todo[w]
      /\ todo' = [todo EXCEPT ![w] = @ \ {l}]
      /\ UNCHANGED << phi, pc, chunk, chunkSize, sigma, clauses, fixed, stop, result >>
  BY DEF ExtractLiteral, IsNext, Visit, solverVars
<1>2. /\ WorkerInv(w) /\ HasModel(w) /\ l \in cand[w]
      /\ phi \subseteq Assignments
      /\ cand[w] \intersect backbone[w] = {}
  BY <1>1 DEF LocalInv, WorkerInv, LoopShape, CommitShape, TypeOK
<1>3. l \in fixed[w] => Implied(phi, l)
  BY <1>2 DEF WorkerInv, FixedImplied
<1>4. Neg(l) \notin fixed[w]
  <2>1. PICK m \in phi : Holds(m, l)
    BY <1>2 DEF WorkerInv, CandidatesWitnessed
  <2> QED BY <1>2, <2>1, NegHolds DEF WorkerInv, FixedImplied, Implied
<1>5. \/ /\ Implied(phi, l)
         /\ cand' = [cand EXCEPT ![w] = @ \ {l}]
         /\ AddBackboneLiteral(w, l)
      \/ cand' = cand /\ UNCHANGED << backbone, board, exported >>
  BY <1>3, <1>4 DEF ExtractLiteral, Drop, TypeOK
<1>6. /\ \/ /\ Implied(phi, l)
            /\ cand' = [cand EXCEPT ![w] = @ \ {l}]
            /\ backbone' = [backbone EXCEPT ![w] = @ \union {l}]
         \/ cand' = cand /\ backbone' = backbone
      /\ BoardSound'
      /\ ClausesSound'
  <2>1. CASE /\ Implied(phi, l)
             /\ cand' = [cand EXCEPT ![w] = @ \ {l}]
             /\ AddBackboneLiteral(w, l)
    <3>1. /\ backbone' = [backbone EXCEPT ![w] = @ \union {l}]
          /\ BoardSound'
          /\ \A u \in Workers : \A c \in exported'[u] : \A m \in phi : Satisfies(m, c)
      BY <1>1, <2>1, AddBackboneLiteralSound DEF LocalInv
    <3>2. ClausesSound'
      BY <1>1, <3>1 DEF LocalInv, ClausesSound
    <3> QED BY <2>1, <3>1, <3>2
  <2>2. CASE cand' = cand /\ UNCHANGED << backbone, board, exported >>
    BY <1>1, <2>2 DEF LocalInv, BoardSound, ClausesSound
  <2> QED BY <1>5, <2>1, <2>2
<1>7. WorkerInv(w)'
  <2>1. todo'[w] = todo[w] \ {l}
    BY <1>1 DEF TypeOK
  <2>2. \/ cand'[w] = cand[w] /\ backbone'[w] = backbone[w]
        \/ /\ Implied(phi, l)
           /\ cand'[w] = cand[w] \ {l} /\ backbone'[w] = backbone[w] \union {l}
    BY <1>6 DEF TypeOK
  <2>3. (CandidatesWitnessed(w) /\ BackboneImplied(w) /\ ModelIsModel(w) /\ FixedImplied(w))'
    BY <1>1, <1>2, <2>2
    DEF WorkerInv, CandidatesWitnessed, BackboneImplied, ModelIsModel, FixedImplied, HasModel
  <2>4. BackboneKept(w)'
    BY <1>1, <1>2, <2>2 DEF WorkerInv, BackboneKept, HasModel
  <2>5. (LoopShape(w) /\ CommitShape(w) /\ AnswerShape(w))'
    BY <1>1, <1>2, <2>1, <2>2
    DEF WorkerInv, LoopShape, CommitShape, AnswerShape, HasModel
  <2> QED BY <2>3, <2>4, <2>5 DEF WorkerInv
<1> QED BY <1>6, <1>7 DEF LocalInv

LEMMA AnswerSatKeeps ==
  ASSUME TypeOK, NEW w \in Workers, LocalInv(w), AnswerSat(w)
  PROVE  LocalInv(w)'
<1> USE DEF Goto, sharedVars
<1>1. PICK m \in Refuting(w) : sigma' = [sigma EXCEPT ![w] = m]
  BY DEF AnswerSat
<1>2. m \in phi /\ m # NoModel
  BY SolverType, ConstantsAssumption DEF Refuting
<1>3. BoardSound' /\ ClausesSound'
  BY DEF AnswerSat, LocalInv, BoardSound, ClausesSound
<1>4. WorkerInv(w)'
  <2>1. WorkerInv(w) /\ pc[w] = "solve" /\ HasModel(w)
    BY DEF AnswerSat, LocalInv, WorkerInv, LoopShape
  <2>2. /\ pc'[w] = "filter" /\ todo'[w] = cand[w] /\ sigma'[w] = m
        /\ cand'[w] = cand[w] /\ backbone'[w] = backbone[w]
        /\ fixed'[w] = fixed[w] /\ phi' = phi /\ result'[w] = result[w]
    BY <1>1 DEF AnswerSat, TypeOK
  <2>3. (CandidatesWitnessed(w) /\ BackboneImplied(w) /\ BackboneKept(w))'
    BY <2>1, <2>2 DEF WorkerInv, CandidatesWitnessed, BackboneImplied, BackboneKept
  <2>4. (ModelIsModel(w) /\ FixedImplied(w))'
    BY <1>2, <2>1, <2>2 DEF WorkerInv, ModelIsModel, FixedImplied
  <2>5. (LoopShape(w) /\ CommitShape(w) /\ AnswerShape(w))'
    BY <1>2, <2>1, <2>2 DEF WorkerInv, LoopShape, CommitShape, AnswerShape, HasModel
  <2> QED BY <2>3, <2>4, <2>5 DEF WorkerInv
<1> QED BY <1>3, <1>4 DEF LocalInv

(* No model of the formula falsifies a literal of the chunk.               *)
LEMMA AnswerUnsatKeeps ==
  ASSUME TypeOK, NEW w \in Workers, LocalInv(w), AnswerUnsat(w)
  PROVE  LocalInv(w)'
<1> USE DEF AnswerUnsat, Goto, solverVars, sharedVars
<1>1. \A l \in chunk[w] : Implied(phi, l)
  BY SolverIsFormula DEF Refuting, LocalInv, Implied
<1>2. BoardSound' /\ ClausesSound'
  BY DEF LocalInv, BoardSound, ClausesSound
<1>3. WorkerInv(w)'
  <2>1. WorkerInv(w) /\ pc[w] = "solve"
    BY DEF LocalInv
  <2>2. /\ pc'[w] = "unsat" /\ todo'[w] = chunk[w] /\ chunk'[w] = chunk[w]
        /\ cand'[w] = cand[w] /\ backbone'[w] = backbone[w]
        /\ sigma'[w] = sigma[w] /\ fixed'[w] = fixed[w] /\ phi' = phi
        /\ result'[w] = result[w]
    BY DEF TypeOK
  <2>3. (CandidatesWitnessed(w) /\ BackboneImplied(w) /\ BackboneKept(w))'
    BY <2>1, <2>2 DEF WorkerInv, CandidatesWitnessed, BackboneImplied, BackboneKept, HasModel
  <2>4. (ModelIsModel(w) /\ FixedImplied(w))'
    BY <2>1, <2>2 DEF WorkerInv, ModelIsModel, FixedImplied, HasModel
  <2>5. (LoopShape(w) /\ AnswerShape(w))'
    BY <2>1, <2>2 DEF WorkerInv, LoopShape, AnswerShape, HasModel
  <2>6. CommitShape(w)'
    BY <1>1, <2>1, <2>2 DEF WorkerInv, LoopShape, CommitShape
  <2> QED BY <2>3, <2>4, <2>5, <2>6 DEF WorkerInv
<1> QED BY <1>2, <1>3 DEF LocalInv

LEMMA CommitLiteralKeeps ==
  ASSUME TypeOK, NEW w \in Workers, LocalInv(w), NEW l \in Lit, CommitLiteral(w, l)
  PROVE  LocalInv(w)'
<1>1. /\ pc[w] = "unsat" /\ l \in todo[w]
      /\ todo' = [todo EXCEPT ![w] = @ \ {l}]
      /\ clauses' = [clauses EXCEPT ![w] = @ \union {{l}}]
      /\ AddBackboneLiteral(w, l)
      /\ UNCHANGED << phi, pc, cand, chunk, chunkSize, sigma, fixed, stop, result >>
  BY DEF CommitLiteral, IsNext, Visit
<1>2. WorkerInv(w) /\ HasModel(w) /\ l \in chunk[w] /\ Implied(phi, l)
  BY <1>1 DEF LocalInv, WorkerInv, LoopShape, CommitShape
<1>3. /\ backbone' = [backbone EXCEPT ![w] = @ \union {l}]
      /\ BoardSound'
      /\ \A u \in Workers : \A c \in exported'[u] : \A m \in phi : Satisfies(m, c)
  BY <1>1, <1>2, AddBackboneLiteralSound DEF LocalInv
<1>4. ClausesSound'
  <2>1. \A u \in Workers : clauses'[u] \subseteq clauses[u] \union {{l}}
    BY <1>1 DEF TypeOK
  <2>2. \A m \in phi : Satisfies(m, {l})
    BY <1>2 DEF Implied, Satisfies
  <2>3. ASSUME NEW u \in Workers, NEW c \in clauses'[u], NEW m \in phi
        PROVE  Satisfies(m, c)
    BY <2>1, <2>2, <2>3 DEF LocalInv, ClausesSound
  <2> QED BY <1>1, <1>3, <2>3 DEF ClausesSound
<1>5. WorkerInv(w)'
  <2>1. /\ todo'[w] = todo[w] \ {l}
        /\ backbone'[w] = backbone[w] \union {l}
    BY <1>1, <1>3 DEF TypeOK
  <2>2. (CandidatesWitnessed(w) /\ BackboneImplied(w) /\ ModelIsModel(w) /\ FixedImplied(w))'
    BY <1>1, <1>2, <2>1
    DEF WorkerInv, CandidatesWitnessed, BackboneImplied, ModelIsModel, FixedImplied, HasModel
  <2>3. BackboneKept(w)'
    BY <1>1, <1>2, <2>1 DEF WorkerInv, BackboneKept, HasModel
  <2>4. (LoopShape(w) /\ AnswerShape(w))'
    BY <1>1, <1>2, <2>1 DEF WorkerInv, LoopShape, AnswerShape, HasModel
  <2>5. CommitShape(w)'
    BY <1>1, <1>2, <2>1 DEF WorkerInv, LoopShape, CommitShape
  <2> QED BY <2>2, <2>3, <2>4, <2>5 DEF WorkerInv
<1> QED BY <1>3, <1>4, <1>5 DEF LocalInv

(* What CaDiCaL and the strategies do on their own.                        *)
LEMMA SolverStepBase ==
  ASSUME TypeOK, NEW w \in Workers, BoardSound, ClausesSound, SolverStep(w) \/ Interrupt(w)
  PROVE  /\ BoardSound' /\ ClausesSound'
         /\ \A l \in fixed'[w] \ fixed[w] : Implied(phi, l)
         /\ UNCHANGED << phi, pc, searchVars, sigma, result >>
<1>1. ASSUME NEW c \in Learnable, Learn(w, c)
      PROVE  /\ BoardSound' /\ ClausesSound' /\ fixed' = fixed
             /\ UNCHANGED << phi, pc, searchVars, sigma, result >>
  <2>1. \A m \in phi : Satisfies(m, c)
    BY <1>1, SolverIsFormula DEF Learn
  <2>2. /\ exported' = [exported EXCEPT ![w] = @ \union {c}]
        /\ UNCHANGED << phi, pc, searchVars, solverVars, board, stop, result >>
    BY <1>1 DEF Learn
  <2> QED BY <2>1, <2>2 DEF BoardSound, ClausesSound, TypeOK, solverVars
<1>2. ASSUME NEW c \in UNION {exported[u] : u \in Workers}, Import(w, c)
      PROVE  /\ BoardSound' /\ ClausesSound' /\ fixed' = fixed
             /\ UNCHANGED << phi, pc, searchVars, sigma, result >>
  <2>1. \A m \in phi : Satisfies(m, c)
    BY <1>2 DEF ClausesSound
  <2>2. /\ clauses' = [clauses EXCEPT ![w] = @ \union {c}]
        /\ UNCHANGED << phi, pc, searchVars, sigma, fixed, sharedVars, stop, result >>
    BY <1>2 DEF Import
  <2> QED BY <2>1, <2>2 DEF BoardSound, ClausesSound, TypeOK, sharedVars
<1>3. ASSUME NEW l \in Lit, FixAtRoot(w, l)
      PROVE  /\ BoardSound' /\ ClausesSound'
             /\ \A k \in fixed'[w] \ fixed[w] : Implied(phi, k)
             /\ UNCHANGED << phi, pc, searchVars, sigma, result >>
  <2>1. Implied(phi, l)
    BY <1>3, SolverIsFormula DEF FixAtRoot
  <2>2. /\ fixed' = [fixed EXCEPT ![w] = @ \union {l}]
        /\ UNCHANGED << phi, pc, searchVars, sigma, clauses, sharedVars, stop, result >>
    BY <1>3 DEF FixAtRoot
  <2> QED BY <2>1, <2>2 DEF BoardSound, ClausesSound, TypeOK, sharedVars
<1>4. CASE Interrupt(w)
  BY <1>4 DEF Interrupt, BoardSound, ClausesSound, solverVars, sharedVars
<1> QED BY <1>1, <1>2, <1>3, <1>4 DEF SolverStep

LEMMA SolverStepKeeps ==
  ASSUME TypeOK, NEW w \in Workers, LocalInv(w), SolverStep(w) \/ Interrupt(w)
  PROVE  LocalInv(w)'
<1>1. /\ BoardSound' /\ ClausesSound'
      /\ \A l \in fixed'[w] \ fixed[w] : Implied(phi, l)
      /\ UNCHANGED << phi, pc, searchVars, sigma, result >>
  BY SolverStepBase DEF LocalInv
<1>2. WorkerInv(w)'
  BY <1>1
  DEF LocalInv, searchVars, WorkerInv, CandidatesWitnessed, BackboneImplied, BackboneKept,
      ModelIsModel, FixedImplied, LoopShape, CommitShape, AnswerShape, HasModel
<1> QED BY <1>1, <1>2 DEF LocalInv

(* The invariant of the acting worker carries over to the others.          *)
LEMMA CommonStepKeeps ==
  ASSUME TypeOK, NEW w \in Workers, LocalInv(w), CommonStep(w)
  PROVE  LocalInv(w)'
BY FirstModelKeeps, FirstUnsatKeeps, CallInterruptedKeeps, FilterLiteralKeeps,
   FilterDoneKeeps, LoopKeeps, SyncLiteralKeeps, SyncDoneKeeps, ExtractLiteralKeeps,
   ExtractDoneKeeps, AnswerSatKeeps, AnswerUnsatKeeps, CommitLiteralKeeps, UnsatDoneKeeps
DEF CommonStep

LEMMA OthersKeep ==
  ASSUME SearchInv, NEW w \in Workers, LocalInv(w)',
         \A u \in Workers \ {w} : SameSearch(u) /\ SameKnowledge(u)
  PROVE  SearchInv'
BY OtherWorkers DEF SearchInv, LocalInv, SameSearch, SameKnowledge

(* Every step of the search keeps the invariant.                           *)
LEMMA SearchStep == TypeOK /\ SearchInv /\ [Next]_vars => SearchInv'
<1> SUFFICES ASSUME TypeOK, SearchInv, [Next]_vars PROVE SearchInv'
  OBVIOUS
<1>1. \A w \in Workers : LocalInv(w)
  BY DEF SearchInv, LocalInv
<1>2. ASSUME NEW w \in Workers, CommonStep(w) PROVE SearchInv'
  BY <1>1, <1>2, CommonStepKeeps, CommonStepOthers, OthersKeep
<1>3. ASSUME NEW w \in Workers, SelectChunk(w) PROVE SearchInv'
  <2>1. \A u \in Workers \ {w} : SameSearch(u) /\ SameKnowledge(u)
    BY <1>3 DEF SelectChunk, ConstrainWith, Goto, TypeOK, SameSearch, SameKnowledge, solverVars
  <2> QED BY <1>1, <1>3, <2>1, SelectChunkKeeps, OthersKeep
<1>4. ASSUME NEW w \in Workers, SolverStep(w) \/ Interrupt(w) PROVE SearchInv'
  BY <1>1, <1>4, SolverStepKeeps, SolverStepOthers, OthersKeep
<1>5. CASE UNCHANGED vars
  <2>1. BoardSound' /\ ClausesSound'
    BY <1>5 DEF vars, solverVars, sharedVars, SearchInv, BoardSound, ClausesSound
  <2>2. \A u \in Workers : WorkerInv(u)'
    BY <1>5, OtherWorkers DEF vars, searchVars, solverVars, SearchInv
  <2> QED BY <2>1, <2>2 DEF SearchInv
<1> QED BY <1>2, <1>3, <1>4, <1>5 DEF Next, WorkerStep

LEMMA SearchInit == Init => SearchInv
<1> SUFFICES ASSUME Init PROVE SearchInv
  OBVIOUS
<1>1. BoardSound /\ ClausesSound
  BY DEF Init, BoardSound, ClausesSound, EmptyBoard, StatusTrue
<1>2. ASSUME NEW w \in Workers PROVE WorkerInv(w)
  BY <1>2
  DEF Init, WorkerInv, CandidatesWitnessed, BackboneImplied, BackboneKept, ModelIsModel,
      FixedImplied, LoopShape, CommitShape, AnswerShape, HasModel
<1> QED BY <1>1, <1>2 DEF SearchInv

(* The invariant that carries every safety property of the search: what    *)
(* the board, the solvers and the workers hold is true of the formula.     *)
THEOREM SearchCorrect == Spec => []SearchInv
<1>1. Spec => []TypeOK
  BY TypeCorrect
<1> QED BY <1>1, SearchInit, SearchStep, PTL DEF Spec
-----------------------------------------------------------------------------
(* The properties it implies. *)

LEMMA ResultFromSearch ==
  ASSUME TypeOK, SearchInv
  PROVE  ResultExact
<1> SUFFICES ASSUME NEW w \in Workers
             PROVE  /\ result[w] = "COMPLETE" =>
                          phi # {} /\ backbone[w] = Backbone(phi)
                    /\ result[w] = "UNSAT" => phi = {}
  BY DEF ResultExact
<1>1. WorkerInv(w) /\ backbone[w] \in SUBSET Lit
  BY DEF SearchInv, TypeOK
<1> QED BY <1>1
    DEF WorkerInv, AnswerShape, BackboneKept, BackboneImplied, ModelIsModel, Backbone

(* A worker that answers COMPLETE holds exactly the backbone, one that     *)
(* answers UNSAT refuted the formula.                                      *)
THEOREM ResultCorrect == Spec => []ResultExact
<1>1. TypeOK /\ SearchInv => ResultExact
  BY ResultFromSearch
<1> QED BY <1>1, TypeCorrect, SearchCorrect, PTL

(* No backbone literal is lost or invented on the way.                     *)
THEOREM NothingLostCorrect == Spec => []NothingLost
<1>1. TypeOK /\ SearchInv => NothingLost
  <2> SUFFICES ASSUME TypeOK, SearchInv, NEW w \in Workers
               PROVE  /\ HasModel(w) => Backbone(phi) \subseteq backbone[w] \union cand[w]
                      /\ backbone[w] \subseteq Backbone(phi)
    BY DEF NothingLost
  <2>1. WorkerInv(w) /\ backbone[w] \in SUBSET Lit
    BY DEF SearchInv, TypeOK
  <2> QED BY <2>1 DEF WorkerInv, BackboneKept, BackboneImplied, Backbone
<1> QED BY <1>1, TypeCorrect, SearchCorrect, PTL

(* The board never contradicts what a worker considers or holds: the       *)
(* assertions of publish and of syncWithBoard cannot fail.                 *)
THEOREM BoardAgreesCorrect == Spec => []BoardAgrees
<1>1. TypeOK /\ SearchInv => BoardAgrees
  <2> SUFFICES ASSUME TypeOK, SearchInv, NEW w \in Workers
               PROVE  /\ \A l \in cand[w] : board[VarOf(l)] # BackboneStatus(Neg(l))
                      /\ \A l \in backbone[w] : board[VarOf(l)] \in {"unknown", BackboneStatus(l)}
                      /\ pc[w] = "filter" =>
                           \A l \in todo[w] : ~ Holds(sigma[w], l) =>
                                                board[VarOf(l)] \in {"unknown", "free"}
    BY DEF BoardAgrees
  <2>1. /\ WorkerInv(w)
        /\ phi \subseteq Assignments
        /\ \A l \in Lit : /\ board[VarOf(l)] \in Status
                          /\ StatusTrue(phi, VarOf(l), board[VarOf(l)])
        /\ cand[w] \subseteq Lit /\ backbone[w] \subseteq Lit /\ todo[w] \subseteq Lit
    BY DEF SearchInv, BoardSound, TypeOK, Lit, VarOf
  <2>2. ASSUME NEW l \in cand[w] PROVE board[VarOf(l)] # BackboneStatus(Neg(l))
    BY <2>1, StatusOfCandidate DEF WorkerInv, CandidatesWitnessed
  <2>3. ASSUME NEW l \in backbone[w]
        PROVE  board[VarOf(l)] \in {"unknown", BackboneStatus(l)}
    <3>1. HasModel(w) /\ Implied(phi, l) /\ l \in Lit
      BY <2>1 DEF WorkerInv, LoopShape, BackboneImplied
    <3>2. PICK m \in phi : Holds(m, l)
      BY <2>1, <3>1 DEF WorkerInv, ModelIsModel, Implied
    <3>3. board[VarOf(l)] # "free" /\ board[VarOf(l)] # BackboneStatus(Neg(l))
      BY <2>1, <3>1, <3>2, StatusOfCandidate
    <3> QED BY <2>1, <3>1, <3>3 DEF Status, Lit, BackboneStatus, Neg, SignOf, VarOf
  <2>4. ASSUME pc[w] = "filter", NEW l \in todo[w], ~ Holds(sigma[w], l)
        PROVE  board[VarOf(l)] \in {"unknown", "free"}
    <3>1. l \in cand[w] /\ sigma[w] \in phi
      BY <2>1, <2>4 DEF WorkerInv, LoopShape, ModelIsModel
    <3>2. ~ Implied(phi, l) /\ \E m \in phi : Holds(m, l)
      BY <2>1, <2>4, <3>1 DEF WorkerInv, CandidatesWitnessed, Implied
    <3>3. board[VarOf(l)] \notin {"positive", "negative"}
      BY <2>1, <3>1, <3>2, StatusOfCandidate
    <3> QED BY <2>1, <3>1, <3>3 DEF Status
  <2> QED BY <2>2, <2>3, <2>4
<1> QED BY <1>1, TypeCorrect, SearchCorrect, PTL

(* extractFixed never drops a candidate as fixed to false.                 *)
THEOREM NoCandidateRefutedCorrect == Spec => []NoCandidateRefuted
<1>1. TypeOK /\ SearchInv => NoCandidateRefuted
  <2> SUFFICES ASSUME TypeOK, SearchInv, NEW w \in Workers, NEW l \in cand[w],
                      Neg(l) \in fixed[w]
               PROVE  FALSE
    BY DEF NoCandidateRefuted
  <2>1. WorkerInv(w) /\ l \in Lit /\ phi \subseteq Assignments
    BY DEF SearchInv, TypeOK
  <2>2. PICK m \in phi : Holds(m, l)
    BY <2>1 DEF WorkerInv, CandidatesWitnessed
  <2> QED BY <2>1, <2>2, NegHolds DEF WorkerInv, FixedImplied, Implied
<1> QED BY <1>1, TypeCorrect, SearchCorrect, PTL

(* No literal is recorded, and exported, twice.                            *)
THEOREM PushedOnceCorrect == Spec => []PushedOnce
<1>1. SearchInv => PushedOnce
  <2> SUFFICES ASSUME SearchInv, NEW w \in Workers, pc[w] \in {"sync", "fixed", "unsat"}
               PROVE  todo[w] \intersect backbone[w] = {}
    BY DEF PushedOnce
  <2>1. WorkerInv(w)
    BY DEF SearchInv
  <2> QED BY <2>1 DEF WorkerInv, LoopShape, CommitShape
<1> QED BY <1>1, SearchCorrect, PTL

(* Whatever the workers publish is true of the formula.                    *)
THEOREM BoardSoundCorrect == Spec => []BoardSound
<1>1. SearchInv => BoardSound
  BY DEF SearchInv
<1> QED BY <1>1, SearchCorrect, PTL

(* Clauses that are learnt under a chunk constraint, exported and imported *)
(* follow from the formula alone.                                          *)
THEOREM ClausesSoundCorrect == Spec => []ClausesSound
<1>1. SearchInv => ClausesSound
  BY DEF SearchInv
<1> QED BY <1>1, SearchCorrect, PTL
-----------------------------------------------------------------------------
(* Progress: every call decides a candidate.  Chunks are the first         *)
(* candidates in an order, so that all that is needed of the order is that *)
(* some candidate comes first; ties do not matter.                         *)

(* In every set of literals one comes first.                               *)
LEMMA FirstInOrder ==
  ASSUME NEW w \in Workers, NEW S \in SUBSET Lit, S # {}
  PROVE  \E l \in S : \A k \in S : Order[w][VarOf(l)] <= Order[w][VarOf(k)]
<1> DEFINE Below == {p \in Nat \X Nat : p[1] < p[2]}
           T == {Order[w][VarOf(l)] : l \in S}
<1>1. IsWellFoundedOn(Below, Nat)
  BY NatLessThanWellFounded DEF OpToRel
<1>2. \A l \in S : Order[w][VarOf(l)] \in Nat
  BY ConstantsAssumption DEF Lit, VarOf
<1>3. T \subseteq Nat /\ T # {}
  BY <1>2
<1>4. \E x \in T : \A y \in T : << y, x >> \notin Below
  <2> HIDE DEF Below, T
  <2> QED BY <1>1, <1>3, WFMin
<1>5. PICK l \in S : \A y \in T : << y, Order[w][VarOf(l)] >> \notin Below
  BY <1>4
<1>6. ASSUME NEW k \in S PROVE Order[w][VarOf(l)] <= Order[w][VarOf(k)]
  <2>1. << Order[w][VarOf(k)], Order[w][VarOf(l)] >> \notin Below
    BY <1>5
  <2>2. Order[w][VarOf(k)] \in Nat /\ Order[w][VarOf(l)] \in Nat
    BY <1>2
  <2> QED BY <2>1, <2>2
<1> QED BY <1>6

(* A prefix holds the literals that come first.                            *)
LEMMA FirstInPrefix ==
  ASSUME NEW w \in Workers, NEW S \in SUBSET Lit, NEW n \in Nat, n > 0, NEW l \in S,
         \A k \in S : Order[w][VarOf(l)] <= Order[w][VarOf(k)]
  PROVE  l \in Prefix(w, S, n)
<1>1. \A k \in S : Order[w][VarOf(k)] \in Nat
  BY ConstantsAssumption DEF Lit, VarOf
<1>2. {k \in S : Order[w][VarOf(k)] < Order[w][VarOf(l)]} = {}
  BY <1>1
<1>3. Cardinality({k \in S : Order[w][VarOf(k)] < Order[w][VarOf(l)]}) = 0
  BY <1>2, FS_EmptySet
<1> QED BY <1>3 DEF Prefix

(* The sizes of the chunks are never 0, up to the saturation.              *)
LEMMA SizesPositive ==
  ASSUME TypeOK, NEW w \in Workers
  PROVE  /\ StartSize(w) \in Nat /\ StartSize(w) > 0
         /\ chunkSize[w] \in Nat
         /\ chunkSize[w] > 0 => GrownSize(w) > 0
<1> DEFINE n == chunkSize[w]
           K == ChunkRate[w]
<1>1. n \in Nat /\ K \in Nat /\ SizeMax \in Nat /\ SizeMax > 0
  BY ConstantsAssumption DEF TypeOK
<1>2. n > 0 /\ K # 0 => n * K > 0
  BY <1>1
<1>3. n > 0 => GrownSize(w) > 0
  BY <1>1, <1>2 DEF GrownSize
<1> QED BY <1>1, <1>3 DEF StartSize

(* After a SAT answer a literal of the chunk is false in the model, and    *)
(* filterWithModel drops it when it comes to it.                           *)
ProgressInv(w) ==
  /\ pc[w] \in {"loop", "sync", "fixed", "select", "round", "solve", "unsat"}
       => chunkSize[w] > 0
  /\ pc[w] = "select" => cand[w] # {}
  /\ pc[w] = "solve" => chunk[w] # {}
  /\ pc[w] = "filter" /\ chunk[w] # {} =>
       \E l \in chunk[w] : ~ Holds(sigma[w], l) /\ (l \in cand[w] => l \in todo[w])

LEMMA ProgressOfOthers ==
  ASSUME NEW u \in Workers, ProgressInv(u), SameSearch(u)
  PROVE  ProgressInv(u)'
BY DEF ProgressInv, SameSearch

LEMMA CommonStepProgress ==
  ASSUME TypeOK, NEW w \in Workers, CommonStep(w), LoopShape(w), ProgressInv(w)
  PROVE  ProgressInv(w)'
<1> USE DEF TypeOK, ProgressInv, Goto, Return, Visit, Drop, solverVars, sharedVars,
            searchVars
<1>1. CASE FirstModel(w)
  <2>1. chunk'[w] = {}
    BY <1>1 DEF FirstModel, LoopShape
  <2>2. pc'[w] \in {"filter", "done"}
    BY <1>1 DEF FirstModel
  <2> QED BY <2>1, <2>2
<1>2. CASE FirstUnsat(w)
  BY <1>2 DEF FirstUnsat
<1>3. CASE CallInterrupted(w)
  BY <1>3 DEF CallInterrupted
<1>4. ASSUME NEW l \in Lit, FilterLiteral(w, l) PROVE ProgressInv(w)'
  <2>1. /\ pc[w] = "filter" /\ pc'[w] = "filter" /\ chunk'[w] = chunk[w]
        /\ sigma'[w] = sigma[w] /\ todo'[w] = todo[w] \ {l}
    BY <1>4 DEF FilterLiteral
  <2>2. cand'[w] \subseteq cand[w] /\ (~ Holds(sigma[w], l) => l \notin cand'[w])
    BY <1>4 DEF FilterLiteral
  <2>3. chunk[w] # {} =>
          \E k \in chunk[w] : ~ Holds(sigma[w], k) /\ (k \in cand'[w] => k \in todo'[w])
    BY <2>1, <2>2
  <2> QED BY <2>1, <2>3
<1>5. CASE FilterDone(w)
  BY <1>5, SizesPositive DEF FilterDone
<1>6. CASE Loop(w)
  BY <1>6 DEF Loop
<1>7. CASE \E l \in Lit : SyncLiteral(w, l)
  BY <1>7 DEF SyncLiteral
<1>8. CASE SyncDone(w)
  BY <1>8 DEF SyncDone
<1>9. CASE \E l \in Lit : ExtractLiteral(w, l)
  BY <1>9 DEF ExtractLiteral
<1>10. CASE ExtractDone(w)
  BY <1>10 DEF ExtractDone
<1>11. CASE AnswerSat(w)
  <2>1. PICK m \in Refuting(w) : sigma' = [sigma EXCEPT ![w] = m]
    BY <1>11 DEF AnswerSat
  <2>2. PICK l \in chunk[w] : ~ Holds(m, l)
    BY <2>1 DEF Refuting
  <2>3. pc[w] = "solve" /\ pc'[w] = "filter" /\ todo'[w] = cand[w] /\ cand'[w] = cand[w]
        /\ chunk'[w] = chunk[w] /\ sigma'[w] = m
    BY <1>11, <2>1 DEF AnswerSat
  <2> QED BY <2>2, <2>3
<1>12. CASE AnswerUnsat(w)
  BY <1>12 DEF AnswerUnsat
<1>13. CASE \E l \in Lit : CommitLiteral(w, l)
  BY <1>13 DEF CommitLiteral
<1>14. CASE UnsatDone(w)
  <2>1. pc[w] = "unsat" /\ pc'[w] = "loop" /\ chunkSize'[w] = GrownSize(w)
    BY <1>14 DEF UnsatDone
  <2>2. GrownSize(w) > 0
    BY <2>1, SizesPositive
  <2> QED BY <2>1, <2>2
<1> QED
  BY <1>1, <1>2, <1>3, <1>4, <1>5, <1>6, <1>7, <1>8, <1>9, <1>10, <1>11, <1>12,
     <1>13, <1>14 DEF CommonStep

(* What is in a chunk that is not empty fits the place.                    *)
LEMMA ConstrainProgress ==
  ASSUME TypeOK, NEW w \in Workers, pc[w] = "select", ProgressInv(w),
         NEW c \in SUBSET Lit, ConstrainWith(w, c), chunkSize'[w] > 0
  PROVE  ProgressInv(w)'
BY DEF ConstrainWith, Goto, ProgressInv, TypeOK

LEMMA SelectChunkProgress ==
  ASSUME TypeOK, NEW w \in Workers, SelectChunk(w), ProgressInv(w)
  PROVE  /\ ProgressInv(w)'
         /\ pc'[w] = "solve"
<1> DEFINE c == Prefix(w, cand[w], chunkSize[w])
<1>1. c \in SUBSET Lit /\ cand[w] \in SUBSET Lit
  BY DEF Prefix, TypeOK
<1>2. pc[w] = "select" /\ ConstrainWith(w, c) /\ chunkSize' = chunkSize
  BY DEF SelectChunk
<1>3. cand[w] # {} /\ chunkSize[w] \in Nat /\ chunkSize[w] > 0
  BY <1>2, SizesPositive DEF ProgressInv
<1>4. c # {}
  <2>1. PICK l \in cand[w] : \A k \in cand[w] : Order[w][VarOf(l)] <= Order[w][VarOf(k)]
    BY <1>1, <1>3, FirstInOrder
  <2> QED BY <1>1, <1>3, <2>1, FirstInPrefix
<1> HIDE DEF c
<1> QED BY <1>1, <1>2, <1>3, <1>4, ConstrainProgress DEF ConstrainWith, Goto, TypeOK

LEMMA CallsFromProgress ==
  ASSUME SearchInv, \A w \in Workers : ProgressInv(w)
  PROVE  CallsDecide
<1> SUFFICES ASSUME NEW w \in Workers
             PROVE  /\ pc[w] \in {"select", "solve"} => cand[w] # {} /\ chunkSize[w] > 0
                    /\ pc[w] = "solve" => chunk[w] # {} /\ chunk[w] \subseteq cand[w]
                    /\ pc[w] = "filter" /\ todo[w] = {} /\ chunk[w] # {} =>
                         ~ (chunk[w] \subseteq cand[w])
  BY DEF CallsDecide
<1>1. ProgressInv(w) /\ LoopShape(w)
  BY DEF SearchInv, WorkerInv
<1> QED BY <1>1 DEF ProgressInv, LoopShape

(* Each call is made under a chunk that is not empty, and a SAT answer     *)
(* decides one of its literals: the chunk loop makes at most as many calls *)
(* as there are candidates.                                                *)
THEOREM CallsDecideCorrect == Spec => []CallsDecide
<1> DEFINE P == \A w \in Workers : ProgressInv(w)
<1>1. Init => P
  BY DEF Init, ProgressInv
<1>2. TypeOK /\ SearchInv /\ P /\ [Next]_vars => P'
  <2> SUFFICES ASSUME TypeOK, SearchInv, P, [Next]_vars, NEW u \in Workers
               PROVE  ProgressInv(u)'
    OBVIOUS
  <2>1. ASSUME NEW w \in Workers, CommonStep(w) PROVE ProgressInv(u)'
    <3>1. CASE u = w
      BY <2>1, <3>1, CommonStepProgress DEF SearchInv, WorkerInv
    <3>2. CASE u # w
      BY <2>1, <3>2, CommonStepOthers, ProgressOfOthers
    <3> QED BY <3>1, <3>2
  <2>2. ASSUME NEW w \in Workers, SelectChunk(w) PROVE ProgressInv(u)'
    <3>1. CASE u = w
      BY <2>2, <3>1, SelectChunkProgress
    <3>2. CASE u # w
      <4>1. SameSearch(u)
        BY <2>2, <3>2
        DEF SelectChunk, ConstrainWith, Goto, TypeOK, SameSearch, solverVars, sharedVars
      <4> QED BY <4>1, ProgressOfOthers
    <3> QED BY <3>1, <3>2
  <2>3. ASSUME NEW w \in Workers, SolverStep(w) \/ Interrupt(w) PROVE ProgressInv(u)'
    BY <2>3, SolverStepOthers, ProgressOfOthers
  <2>4. CASE UNCHANGED vars
    BY <2>4, ProgressOfOthers DEF vars, searchVars, solverVars, SameSearch
  <2> QED BY <2>1, <2>2, <2>3, <2>4 DEF Next, WorkerStep
<1>3. SearchInv /\ P => CallsDecide
  BY CallsFromProgress
<1> QED BY <1>1, <1>2, <1>3, TypeCorrect, SearchCorrect, PTL DEF Spec
=============================================================================
