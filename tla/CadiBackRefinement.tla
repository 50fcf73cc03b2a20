------------------------- MODULE CadiBackRefinement -------------------------
(***************************************************************************)
(* The backbone search implements BackboneExtraction: seen from outside,   *)
(* the views of the workers and the board only ever leave "unknown" for    *)
(* the truth, and a worker completes when it knows every variable.  All    *)
(* facts about the code come from the invariant of CadiBackProofs.         *)
(***************************************************************************)
EXTENDS CadiBackProofs

Everyone == Workers \union {"board"}

(* What an observer says of a variable, in the vocabulary of the code.     *)
LEMMA ViewIs ==
  /\ DOMAIN SearchView = Everyone
  /\ \A v \in Vars : SearchView["board"][v] = board[v]
  /\ \A w \in Workers : SearchView[w] = ViewOf(w)
BY ConstantsAssumption DEF SearchView, Everyone

(* The two modules mean the same by a true status. *)
LEMMA SameTruth ==
  ASSUME NEW v \in Vars, NEW s \in Status
  PROVE  /\ Extraction!StatusTrue(phi, v, s) <=> StatusTrue(phi, v, s)
         /\ s \in Extraction!Status
BY DEF Extraction!StatusTrue, StatusTrue, Extraction!Implied, Implied,
       Extraction!Holds, Holds, Extraction!VarOf, VarOf, Extraction!SignOf, SignOf,
       Extraction!IsFree, IsFree, Extraction!Status, Status

(* A step in which some observers learn the truth about one variable is a  *)
(* step of the specification.                                              *)
LEMMA DecideStep ==
  ASSUME TypeOK, TypeOK', phi' = phi, result' = result,
         NEW v \in Vars, NEW s \in Status \ {"unknown"}, StatusTrue(phi, v, s),
         \A u \in Vars \ {v} : board'[u] = board[u],
         board'[v] # board[v] => board[v] = "unknown" /\ board'[v] = s,
         \A w \in Workers : \A u \in Vars \ {v} : ViewOf(w)'[u] = ViewOf(w)[u],
         \A w \in Workers : ViewOf(w)'[v] # ViewOf(w)[v] =>
                              ViewOf(w)[v] = "unknown" /\ ViewOf(w)'[v] = s
  PROVE  Extraction!Next
<1> DEFINE O == {o \in Everyone : SearchView'[o][v] # SearchView[o][v]}
<1>1. \A o \in Everyone : \A u \in Vars \ {v} : SearchView'[o][u] = SearchView[o][u]
  BY ConstantsAssumption DEF SearchView, Everyone
<1>2. \A o \in O : SearchView[o][v] = "unknown" /\ SearchView'[o][v] = s
  BY ConstantsAssumption DEF SearchView, Everyone
<1>3. \A o \in Everyone : /\ SearchView[o] = [u \in Vars |-> SearchView[o][u]]
                          /\ SearchView'[o] = [u \in Vars |-> SearchView'[o][u]]
  <2>1. /\ board = [u \in Vars |-> board[u]] /\ board' = [u \in Vars |-> board'[u]]
        /\ SearchView["board"] = board /\ SearchView'["board"] = board'
    BY ConstantsAssumption DEF SearchView, TypeOK
  <2>2. ASSUME NEW w \in Workers
        PROVE  /\ ViewOf(w) = [u \in Vars |-> ViewOf(w)[u]]
               /\ ViewOf(w)' = [u \in Vars |-> ViewOf(w)'[u]]
    BY DEF ViewOf
  <2>3. ASSUME NEW w \in Workers
        PROVE  SearchView[w] = ViewOf(w) /\ SearchView'[w] = ViewOf(w)'
    BY ConstantsAssumption DEF SearchView
  <2> QED BY <2>1, <2>2, <2>3 DEF Everyone
<1>4. \A o \in Everyone :
        SearchView'[o] = IF o \in O THEN [SearchView[o] EXCEPT ![v] = s] ELSE SearchView[o]
  <2> SUFFICES ASSUME NEW o \in Everyone
               PROVE  SearchView'[o] = IF o \in O
                                       THEN [SearchView[o] EXCEPT ![v] = s]
                                       ELSE SearchView[o]
    OBVIOUS
  <2> DEFINE old == SearchView[o]
             new == SearchView'[o]
  <2>1. /\ old = [u \in Vars |-> old[u]] /\ new = [u \in Vars |-> new[u]]
        /\ \A u \in Vars \ {v} : new[u] = old[u]
        /\ o \in O => new[v] = s
        /\ o \notin O => new[v] = old[v]
    BY <1>1, <1>2, <1>3
  <2> HIDE DEF old, new, O
  <2>2. CASE o \in O
    BY <2>1, <2>2 DEF old, new
  <2>3. CASE o \notin O
    <3>1. \A u \in Vars : new[u] = old[u]
      BY <2>1, <2>3
    <3> QED BY <2>1, <2>3, <3>1 DEF old, new
  <2> QED BY <2>2, <2>3
<1>5. SearchView' = [o \in Everyone |->
        IF o \in O THEN [SearchView[o] EXCEPT ![v] = s] ELSE SearchView[o]]
  <2>1. SearchView' = [o \in Everyone |-> SearchView'[o]]
    BY DEF SearchView, Everyone
  <2> HIDE DEF O
  <2> QED BY <1>4, <2>1
<1>6. Extraction!Decide(O, v, s)
  BY <1>2, <1>5, SameTruth DEF Extraction!Decide, Everyone
<1> HIDE DEF O
<1>7. O \in SUBSET (Workers \union {"board"})
  BY DEF O, Everyone
<1> QED BY <1>6, <1>7, SameTruth DEF Extraction!Next

(* What a worker says depends on its candidates and its backbone only.     *)
LEMMA SameView ==
  ASSUME NEW w \in Workers, cand'[w] = cand[w], backbone'[w] = backbone[w],
         HasModel(w)' <=> HasModel(w)
  PROVE  ViewOf(w)' = ViewOf(w)
BY DEF ViewOf

(* A step that changes no view and no answer is a stutter. *)
LEMMA StutterStep ==
  ASSUME phi' = phi, result' = result, board' = board,
         \A w \in Workers : ViewOf(w)' = ViewOf(w)
  PROVE  UNCHANGED Extraction!extractionVars
BY DEF Extraction!extractionVars, SearchView

(* A worker that returned changed nothing but its answer. *)
LEMMA AnswerStep ==
  ASSUME NEW w \in Workers, phi' = phi, board' = board, result[w] = "none",
         \A u \in Workers : ViewOf(u)' = ViewOf(u),
         NEW r, result' = [result EXCEPT ![w] = r],
         \/ r = "COMPLETE" /\ phi # {} /\ \A v \in Vars : ViewOf(w)[v] # "unknown"
         \/ r = "UNSAT" /\ phi = {}
         \/ r = "UNKNOWN"
  PROVE  Extraction!Next
<1>1. SearchView' = SearchView
  BY DEF SearchView
<1>2. SearchView[w] = ViewOf(w)
  BY ViewIs
<1> QED BY <1>1, <1>2
    DEF Extraction!Next, Extraction!Answer, Extraction!Complete, Extraction!Refute,
        Extraction!GiveUp
-----------------------------------------------------------------------------
(* What the view of a worker says of one of its literals. *)

LEMMA ViewOfLiteral ==
  ASSUME TypeOK, SearchInv, NEW w \in Workers, NEW l \in cand[w], l \notin backbone[w]
  PROVE  ViewOf(w)[VarOf(l)] = "unknown"
<1>1. /\ WorkerInv(w) /\ l \in Lit /\ backbone[w] \subseteq Lit
      /\ phi \subseteq Assignments
  BY DEF SearchInv, TypeOK
<1>2. PICK m \in phi : Holds(m, l)
  BY <1>1 DEF WorkerInv, CandidatesWitnessed
<1>3. Neg(l) \notin backbone[w]
  BY <1>1, <1>2, NegHolds DEF WorkerInv, BackboneImplied, Implied
<1>4. CASE SignOf(l) = 1
  BY <1>1, <1>3, <1>4 DEF ViewOf, Lit, VarOf, SignOf, Neg
<1>5. CASE SignOf(l) = -1
  BY <1>1, <1>3, <1>5 DEF ViewOf, Lit, VarOf, SignOf, Neg
<1> QED BY <1>1, <1>4, <1>5 DEF Lit, SignOf

(* A literal of the backbone is shown as one. *)
LEMMA ViewOfBackbone ==
  ASSUME TypeOK, SearchInv, NEW w \in Workers, NEW l \in backbone[w]
  PROVE  ViewOf(w)[VarOf(l)] = BackboneStatus(l)
<1>1. /\ WorkerInv(w) /\ l \in Lit /\ backbone[w] \subseteq Lit
      /\ phi \subseteq Assignments
  BY DEF SearchInv, TypeOK
<1>2. PICK m \in phi : Holds(m, l)
  BY <1>1 DEF WorkerInv, LoopShape, ModelIsModel, BackboneImplied, Implied
<1>3. Neg(l) \notin backbone[w]
  BY <1>1, <1>2, NegHolds DEF WorkerInv, BackboneImplied, Implied
<1>4. CASE SignOf(l) = 1
  BY <1>1, <1>3, <1>4 DEF ViewOf, Lit, VarOf, SignOf, Neg, BackboneStatus
<1>5. CASE SignOf(l) = -1
  BY <1>1, <1>3, <1>5 DEF ViewOf, Lit, VarOf, SignOf, Neg, BackboneStatus
<1> QED BY <1>1, <1>4, <1>5 DEF Lit, SignOf

(* A candidate that is free leaves the candidates of one worker, and the   *)
(* board may be told.                                                      *)
LEMMA DropStep ==
  ASSUME TypeOK, TypeOK', SearchInv, NEW w \in Workers, NEW l \in cand[w],
         l \notin backbone[w], IsFree(phi, VarOf(l)),
         UNCHANGED << phi, backbone, sigma, result >>,
         cand' = [cand EXCEPT ![w] = @ \ {l}],
         board' = board \/ board' = PublishFree(board, VarOf(l))
  PROVE  Extraction!Next
<1> DEFINE v == VarOf(l)
<1>1. l \in Lit /\ l = << v, SignOf(l) >> /\ v \in Vars
  BY DEF TypeOK, Lit, VarOf, SignOf
<1>2. ViewOf(w)[v] = "unknown" /\ << v, 1 >> \notin backbone[w] /\ << v, -1 >> \notin backbone[w]
  BY <1>1, ViewOfLiteral DEF ViewOf
<1>3. cand'[w] = cand[w] \ {l} /\ backbone'[w] = backbone[w] /\ HasModel(w)' = HasModel(w)
  BY DEF TypeOK, HasModel
<1> HIDE DEF v
<1>4. \A u \in Vars \ {v} : ViewOf(w)'[u] = ViewOf(w)[u]
  BY <1>1, <1>3 DEF ViewOf
<1>5. ViewOf(w)'[v] \in {"unknown", "free"}
  BY <1>1, <1>2, <1>3 DEF ViewOf
<1>6. \A u \in Workers \ {w} : ViewOf(u)' = ViewOf(u)
  BY SameView DEF TypeOK, HasModel
<1>7. /\ \A u \in Vars \ {v} : board'[u] = board[u]
      /\ board'[v] # board[v] => board[v] = "unknown" /\ board'[v] = "free"
  BY <1>1 DEF PublishFree, Publish, TypeOK, v
<1>8. StatusTrue(phi, v, "free") /\ "free" \in Status \ {"unknown"}
  BY DEF StatusTrue, Status, v
<1> QED BY <1>1, <1>2, <1>4, <1>5, <1>6, <1>7, <1>8, DecideStep

(* A candidate that is implied enters the backbone of one worker, and the  *)
(* board may be told.                                                      *)
LEMMA BackboneStep ==
  ASSUME TypeOK, TypeOK', SearchInv, NEW w \in Workers, NEW l \in cand[w],
         l \notin backbone[w], Implied(phi, l),
         UNCHANGED << phi, sigma, result >>,
         backbone' = [backbone EXCEPT ![w] = @ \union {l}],
         cand' = cand \/ cand' = [cand EXCEPT ![w] = @ \ {l}],
         board' = board \/ board' = PublishBackbone(board, l)
  PROVE  Extraction!Next
<1> DEFINE v == VarOf(l)
           s == BackboneStatus(l)
<1>1. l \in Lit /\ l = << v, SignOf(l) >> /\ v \in Vars /\ SignOf(l) \in {1, -1}
  BY DEF TypeOK, Lit, VarOf, SignOf
<1>2. ViewOf(w)[v] = "unknown" /\ << v, 1 >> \notin backbone[w] /\ << v, -1 >> \notin backbone[w]
  BY <1>1, ViewOfLiteral DEF ViewOf
<1>3. /\ cand'[w] = cand[w] \/ cand'[w] = cand[w] \ {l}
      /\ backbone'[w] = backbone[w] \union {l}
      /\ HasModel(w)' = HasModel(w)
  BY DEF TypeOK, HasModel
<1>4. StatusTrue(phi, v, s) /\ s \in Status \ {"unknown"}
  BY <1>1, BackboneStatusTrue DEF BackboneStatus, Status
<1> HIDE DEF v
<1>5. \A u \in Vars \ {v} : ViewOf(w)'[u] = ViewOf(w)[u]
  BY <1>1, <1>3 DEF ViewOf
<1>6. ViewOf(w)'[v] = s
  <2>1. CASE SignOf(l) = 1
    BY <1>1, <1>2, <1>3, <2>1 DEF ViewOf, BackboneStatus
  <2>2. CASE SignOf(l) = -1
    BY <1>1, <1>2, <1>3, <2>2 DEF ViewOf, BackboneStatus
  <2> QED BY <1>1, <2>1, <2>2
<1>7. \A u \in Workers \ {w} : ViewOf(u)' = ViewOf(u)
  BY SameView DEF TypeOK, HasModel
<1>8. /\ \A u \in Vars \ {v} : board'[u] = board[u]
      /\ board'[v] # board[v] => board[v] = "unknown" /\ board'[v] = s
  BY <1>1 DEF PublishBackbone, Publish, TypeOK, v
<1> HIDE DEF s
<1> QED BY <1>1, <1>2, <1>4, <1>5, <1>6, <1>7, <1>8, DecideStep
-----------------------------------------------------------------------------
(* Every step of the search is a step of the specification, or stutters.   *)

(* The steps of the first model change no view. *)
LEMMA FirstSteps ==
  ASSUME TypeOK, SearchInv, NEW w \in Workers,
         FirstModel(w) \/ FirstUnsat(w) \/ CallInterrupted(w)
  PROVE  Extraction!Next \/ UNCHANGED Extraction!extractionVars
<1> USE DEF Goto, Return, searchVars, solverVars, sharedVars
<1>1. result[w] = "none" /\ WorkerInv(w)
  BY DEF FirstModel, FirstUnsat, CallInterrupted, Solving, SearchInv, WorkerInv, AnswerShape
<1>2. CASE FirstModel(w)
  <2>1. PICK m \in FirstModels(w) :
          IF stop[w]
          THEN /\ Return(w, "UNKNOWN")
               /\ UNCHANGED << cand, todo, sigma >>
          ELSE /\ Goto(w, "filter")
               /\ sigma' = [sigma EXCEPT ![w] = m]
               /\ cand' = [cand EXCEPT ![w] = LiteralsOf(m)]
               /\ todo' = [todo EXCEPT ![w] = LiteralsOf(m)]
               /\ UNCHANGED result
    BY <1>2 DEF FirstModel
  <2>2. m \in Assignments /\ m # NoModel
    BY SolverType, ConstantsAssumption
  <2>3. \A u \in Workers \ {w} : ViewOf(u)' = ViewOf(u)
    BY <1>2, <2>1, SameView DEF FirstModel, TypeOK, HasModel
  <2>4. CASE stop[w]
    <3>1. ViewOf(w)' = ViewOf(w)
      BY <1>2, <2>1, <2>4, SameView DEF FirstModel, HasModel
    <3> QED BY <1>1, <1>2, <2>1, <2>3, <2>4, <3>1, AnswerStep DEF FirstModel
  <2>5. CASE ~ stop[w]
    <3>1. ~ HasModel(w) /\ backbone[w] = {} /\ backbone'[w] = {}
      BY <1>1, <1>2 DEF FirstModel, WorkerInv, LoopShape
    <3>2. cand'[w] = LiteralsOf(m)
      BY <2>1, <2>5 DEF TypeOK
    <3>3. \A v \in Vars : << v, 1 >> \in cand'[w] \/ << v, -1 >> \in cand'[w]
      BY <2>2, <3>2 DEF LiteralsOf, Assignments
    <3>4. ViewOf(w)' = ViewOf(w)
      BY <3>1, <3>3 DEF ViewOf
    <3> QED BY <1>2, <2>1, <2>3, <2>5, <3>4, StutterStep DEF FirstModel
  <2> QED BY <2>4, <2>5
<1>3. CASE FirstUnsat(w)
  <2>1. \A u \in Workers : ViewOf(u)' = ViewOf(u)
    BY <1>3, SameView DEF FirstUnsat, HasModel
  <2>2. CASE result' = result
    BY <1>3, <2>1, <2>2, StutterStep DEF FirstUnsat
  <2>3. CASE Solver(w) = {} /\ Return(w, "UNSAT")
    <3>1. phi = {}
      BY <2>3, SolverIsFormula DEF SearchInv
    <3> QED BY <1>1, <1>3, <2>1, <2>3, <3>1, AnswerStep DEF FirstUnsat
  <2> QED BY <1>3, <2>2, <2>3 DEF FirstUnsat
<1>4. CASE CallInterrupted(w)
  <2>1. \A u \in Workers : ViewOf(u)' = ViewOf(u)
    BY <1>4, SameView DEF CallInterrupted, HasModel
  <2> QED BY <1>1, <1>4, <2>1, AnswerStep DEF CallInterrupted
<1> QED BY <1>2, <1>3, <1>4

(* A worker that completes knows every variable. *)
LEMMA CompleteSteps ==
  ASSUME TypeOK, SearchInv, NEW w \in Workers, Loop(w) \/ ExtractDone(w)
  PROVE  Extraction!Next \/ UNCHANGED Extraction!extractionVars
<1> USE DEF Goto, Return, searchVars, solverVars, sharedVars
<1>1. result[w] = "none" /\ WorkerInv(w) /\ HasModel(w) /\ phi # {}
  BY DEF Loop, ExtractDone, SearchInv, WorkerInv, AnswerShape, LoopShape, ModelIsModel
<1>2. \A u \in Workers : ViewOf(u)' = ViewOf(u)
  BY SameView DEF Loop, ExtractDone, HasModel
<1>3. phi' = phi /\ board' = board
  BY DEF Loop, ExtractDone
<1>4. CASE result' = result
  BY <1>2, <1>3, <1>4, StutterStep
<1>5. CASE cand[w] = {} /\ result' = [result EXCEPT ![w] = "COMPLETE"]
  <2>1. \A v \in Vars : ViewOf(w)[v] # "unknown"
    BY <1>1, <1>5 DEF ViewOf
  <2> QED BY <1>1, <1>2, <1>3, <1>5, <2>1, AnswerStep
<1>6. CASE result' = [result EXCEPT ![w] = "UNKNOWN"]
  BY <1>1, <1>2, <1>3, <1>6, AnswerStep
<1> QED BY <1>4, <1>5, <1>6 DEF Loop, ExtractDone

(* Steps that only move the worker along change no view. *)
LEMMA QuietSteps ==
  ASSUME TypeOK, SearchInv, NEW w \in Workers,
         \/ FilterDone(w) \/ SyncDone(w) \/ SelectChunk(w)
         \/ AnswerSat(w) \/ AnswerUnsat(w) \/ UnsatDone(w)
         \/ SolverStep(w) \/ Interrupt(w)
  PROVE  UNCHANGED Extraction!extractionVars
<1> USE DEF Goto, searchVars, solverVars, sharedVars
<1>1. phi' = phi /\ result' = result /\ board' = board /\ backbone' = backbone
  BY DEF FilterDone, SyncDone, SelectChunk, ConstrainWith, AnswerSat, AnswerUnsat,
         UnsatDone, SolverStep, Learn, Import, FixAtRoot, Interrupt
<1>2. CASE AnswerSat(w)
  <2>1. PICK m \in Refuting(w) : sigma' = [sigma EXCEPT ![w] = m]
    BY <1>2 DEF AnswerSat
  <2>2. m # NoModel /\ HasModel(w)
    BY <1>2, SolverType, ConstantsAssumption
    DEF AnswerSat, Refuting, SearchInv, WorkerInv, LoopShape
  <2>3. \A u \in Workers : HasModel(u)' <=> HasModel(u)
    BY <2>1, <2>2 DEF HasModel, TypeOK
  <2>4. cand' = cand
    BY <1>2 DEF AnswerSat
  <2> QED BY <1>1, <2>3, <2>4, SameView, StutterStep
<1>3. CASE UnsatDone(w)
  <2>1. \A u \in Workers : HasModel(u)' <=> HasModel(u)
    BY <1>3 DEF UnsatDone, HasModel
  <2>2. cand' = [cand EXCEPT ![w] = @ \ chunk[w]]
    BY <1>3 DEF UnsatDone
  <2>3. chunk[w] \subseteq backbone[w]
    BY <1>3 DEF UnsatDone, SearchInv, WorkerInv, CommitShape
  <2>4. ViewOf(w)' = ViewOf(w)
    <3>1. cand'[w] = cand[w] \ chunk[w]
      BY <2>2 DEF TypeOK
    <3> QED BY <1>1, <2>1, <2>3, <3>1 DEF ViewOf
  <2>5. ASSUME NEW u \in Workers, u # w PROVE ViewOf(u)' = ViewOf(u)
    BY <1>1, <2>1, <2>2, <2>5, SameView DEF TypeOK
  <2> QED BY <1>1, <2>4, <2>5, StutterStep
<1>4. CASE cand' = cand /\ sigma' = sigma
  BY <1>1, <1>4, SameView, StutterStep DEF HasModel
<1> QED
  BY <1>2, <1>3, <1>4
  DEF FilterDone, SyncDone, SelectChunk, ConstrainWith, AnswerUnsat, SolverStep, Learn,
      Import, FixAtRoot, Interrupt

(* The steps that decide one literal. *)
LEMMA LiteralSteps ==
  ASSUME TypeOK, TypeOK', SearchInv, NEW w \in Workers, NEW l \in Lit,
         FilterLiteral(w, l) \/ SyncLiteral(w, l) \/ ExtractLiteral(w, l)
           \/ CommitLiteral(w, l)
  PROVE  Extraction!Next \/ UNCHANGED Extraction!extractionVars
<1>1. /\ WorkerInv(w) /\ l \in cand[w] /\ l \notin backbone[w] /\ HasModel(w)
      /\ phi \subseteq Assignments
      /\ UNCHANGED << phi, sigma, result >>
  BY DEF FilterLiteral, SyncLiteral, ExtractLiteral, CommitLiteral, IsNext, solverVars,
         SearchInv, WorkerInv, LoopShape, CommitShape, TypeOK
<1>2. PICK m \in phi : Holds(m, l)
  BY <1>1 DEF WorkerInv, CandidatesWitnessed
<1>3. /\ board[VarOf(l)] \in Status
      /\ StatusTrue(phi, VarOf(l), board[VarOf(l)])
  BY DEF SearchInv, BoardSound, TypeOK, Lit, VarOf
<1>4. CASE cand' = cand /\ UNCHANGED << backbone, board >>
  BY <1>1, <1>4, SameView, StutterStep DEF HasModel
<1>5. CASE FilterLiteral(w, l)
  <2>1. PICK drop \in BOOLEAN :
          /\ drop => ~ Holds(sigma[w], l) \/ MayFlip(w, l)
          /\ IF drop
             THEN Drop(w, l) /\ AddFreeVariable(w, VarOf(l))
             ELSE UNCHANGED << cand, board >>
    BY <1>5 DEF FilterLiteral
  <2>2. backbone' = backbone
    BY <1>5 DEF FilterLiteral
  <2>3. CASE drop
    <3>1. \E n \in phi : ~ Holds(n, l)
      <4>1. CASE ~ Holds(sigma[w], l)
        BY <1>1, <4>1 DEF WorkerInv, ModelIsModel
      <4>2. CASE MayFlip(w, l) /\ Holds(sigma[w], l)
        BY <1>1, <4>2, SolverIsFormula, FlipHolds
        DEF MayFlip, SearchInv, WorkerInv, ModelIsModel
      <4> QED BY <2>1, <2>3, <4>1, <4>2
    <3>2. IsFree(phi, VarOf(l))
      BY <1>2, <3>1, DisagreementIsFree
    <3> QED BY <1>1, <2>1, <2>2, <2>3, <3>2, DropStep DEF Drop, AddFreeVariable
  <2> QED BY <1>4, <2>1, <2>2, <2>3
<1>6. CASE SyncLiteral(w, l)
  <2>1. board' = board
    BY <1>6 DEF SyncLiteral, sharedVars
  <2>2. CASE board[VarOf(l)] = "unknown"
    BY <1>4, <1>6, <2>1, <2>2 DEF SyncLiteral
  <2>3. CASE board[VarOf(l)] = "free"
    <3>1. IsFree(phi, VarOf(l))
      BY <1>3, <2>3 DEF StatusTrue
    <3>2. backbone' = backbone /\ cand' = [cand EXCEPT ![w] = @ \ {l}]
      BY <1>6, <2>3 DEF SyncLiteral, Drop
    <3> QED BY <1>1, <2>1, <3>1, <3>2, DropStep
  <2>4. CASE board[VarOf(l)] \in {"positive", "negative"}
    <3>1. Implied(phi, l)
      BY <1>2, <1>3, <2>4, StatusOfCandidate
    <3>2. /\ backbone' = [backbone EXCEPT ![w] = @ \union {l}]
          /\ cand' = [cand EXCEPT ![w] = @ \ {l}]
      BY <1>6, <2>4 DEF SyncLiteral, Drop
    <3> QED BY <1>1, <2>1, <3>1, <3>2, BackboneStep
  <2> QED BY <1>3, <2>2, <2>3, <2>4 DEF Status
<1>7. CASE ExtractLiteral(w, l)
  <2>1. CASE l \in fixed[w]
    <3>1. Implied(phi, l)
      BY <1>1, <2>1 DEF WorkerInv, FixedImplied
    <3> QED BY <1>1, <1>7, <2>1, <3>1, BackboneStep
        DEF ExtractLiteral, Drop, AddBackboneLiteral
  <2>2. CASE l \notin fixed[w]
    <3>1. Neg(l) \notin fixed[w]
      BY <1>1, <1>2, NegHolds DEF WorkerInv, FixedImplied, Implied
    <3>2. cand' = cand /\ UNCHANGED << backbone, board >>
      BY <1>7, <2>2, <3>1 DEF ExtractLiteral, TypeOK
    <3> QED BY <1>4, <3>2
  <2> QED BY <2>1, <2>2
<1>8. CASE CommitLiteral(w, l)
  <2>1. Implied(phi, l)
    BY <1>1, <1>8 DEF CommitLiteral, IsNext, WorkerInv, LoopShape, CommitShape
  <2> QED BY <1>1, <1>8, <2>1, BackboneStep DEF CommitLiteral, AddBackboneLiteral
<1> QED BY <1>5, <1>6, <1>7, <1>8

LEMMA RefinementStep ==
  TypeOK /\ TypeOK' /\ SearchInv /\ [Next]_vars =>
    [Extraction!Next]_Extraction!extractionVars
<1> SUFFICES ASSUME TypeOK, TypeOK', SearchInv, [Next]_vars
             PROVE  Extraction!Next \/ UNCHANGED Extraction!extractionVars
  OBVIOUS
<1>1. CASE UNCHANGED vars
  BY <1>1, SameView, StutterStep DEF vars, searchVars, solverVars, sharedVars, HasModel
<1> QED
  BY <1>1, FirstSteps, CompleteSteps, QuietSteps, LiteralSteps
  DEF Next, WorkerStep, CommonStep

LEMMA RefinementInit == Init => Extraction!Init
<1> SUFFICES ASSUME Init PROVE Extraction!Init
  OBVIOUS
<1>1. \A w \in Workers : ViewOf(w) = EmptyBoard
  BY DEF Init, ViewOf, HasModel, EmptyBoard
<1>2. SearchView = [o \in Workers \union {"board"} |-> EmptyBoard]
  BY <1>1 DEF Init, SearchView
<1> QED BY <1>2 DEF Init, Extraction!Init, Extraction!EmptyBoard, EmptyBoard

(* The parallel search is an implementation of BackboneExtraction.         *)
THEOREM SearchRefines == Spec => ExtractionSpec
BY TypeCorrect, SearchCorrect, RefinementInit, RefinementStep, PTL
DEF Spec, ExtractionSpec, Extraction!Spec
=============================================================================
