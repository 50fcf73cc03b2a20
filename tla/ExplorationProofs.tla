-------------------------- MODULE ExplorationProofs --------------------------
(***************************************************************************)
(* Proofs about the search with the explorations that precede its chunks,  *)
(* for any workers, formulas and rounds, any rows and any answers within   *)
(* the budgets.                                                            *)
(*                                                                         *)
(* The argument: what a round proves is pushed at once but stays among the *)
(* candidates, so that the invariant of the search holds but for these     *)
(* literals (CoreShape); a core is implied, so that no model drops it, and *)
(* the round takes it off the candidates when it ends.  A round ends in a  *)
(* state of the chunk loop: the rest of the proof is that of CadiBack.     *)
(*                                                                         *)
(* The tree of the parities: the first d of m bits of a leaf are those of  *)
(* the mask when both have the same quotient by 2^(m - d) (SameBits), so a *)
(* subtree is a block of leaves.  Skipping it moves the mask to the end of *)
(* the block, and the leaves before the mask are those left behind.        *)
(***************************************************************************)
EXTENDS Exploration, CadiBackProofs

(* Where a worker with a round in progress can be, and what the round      *)
(* still knows of the candidates it began with.                            *)
RoundShape(w) ==
  /\ DOMAIN round[w] = DOMAIN NoRound /\ round[w].softs \subseteq Lit
  /\ pc[w] = "round" => InRound(w)
  /\ InRound(w) =>
       /\ stage[w] # "chunks" /\ chunkSize[w] > 0
       /\ pc[w] \in {"round", "filter", "unsat", "done"}
  /\ InRound(w) /\ pc[w] \in {"round", "filter"} =>
       /\ cand[w] \subseteq round[w].softs
       /\ \A l \in round[w].softs : Implied(phi, l) => l \in cand[w]
  /\ InRound(w) /\ pc[w] = "unsat" => cand[w] \subseteq chunk[w]
  /\ chunk[w] # {} => stage[w] = "chunks" \/ (InRound(w) /\ pc[w] = "unsat")

(* The candidates already pushed are the cores of the round, or those of   *)
(* the chunk that onUnsat commits.                                         *)
CoreShape(w) ==
  /\ round[w].cores # {} =>
       InRound(w) /\ stage[w] = "maxsat" /\ pc[w] \in {"round", "filter", "done"}
  /\ round[w].cores \subseteq cand[w] \intersect backbone[w]
  /\ pc[w] \notin {"unsat", "done"} => cand[w] \intersect backbone[w] \subseteq round[w].cores
  /\ pc[w] = "unsat" => CommitShape(w)

RoundInv(w) == BaseInv(w) /\ RoundShape(w) /\ CoreShape(w) /\ ProgressInv(w)

ExploreInv ==
  /\ TypeOK /\ BoardSound /\ ClausesSound
  /\ DOMAIN round = Workers /\ DOMAIN stage = Workers
  /\ \A w \in Workers : RoundInv(w)
-----------------------------------------------------------------------------
(* Workers that do not act. *)

SameRound(u) == round'[u] = round[u] /\ stage'[u] = stage[u]

Alone(w) ==
  /\ DOMAIN round' = Workers /\ DOMAIN stage' = Workers
  /\ \A u \in Workers \ {w} : SameSearch(u) /\ SameKnowledge(u) /\ SameRound(u)

LEMMA RoundOfOthers ==
  ASSUME NEW u \in Workers, RoundInv(u), SameSearch(u), SameKnowledge(u), SameRound(u)
  PROVE  RoundInv(u)'
<1> USE DEF SameSearch, SameKnowledge, SameRound
<1>1. BaseInv(u)'
  BY DEF RoundInv, BaseInv, CandidatesWitnessed, BackboneImplied, BackboneKept, ModelIsModel,
         FixedImplied, LoopShape, AnswerShape, HasModel
<1>2. RoundShape(u)'
  BY DEF RoundInv, RoundShape, InRound
<1>3. CoreShape(u)'
  BY DEF RoundInv, CoreShape, CommitShape, InRound
<1>4. ProgressInv(u)'
  BY ProgressOfOthers DEF RoundInv
<1> QED BY <1>1, <1>2, <1>3, <1>4 DEF RoundInv

LEMMA ActsAlone ==
  ASSUME ExploreInv, NEW w \in Workers, Alone(w), TypeOK', BoardSound', ClausesSound',
         RoundInv(w)'
  PROVE  ExploreInv'
BY RoundOfOthers DEF ExploreInv, Alone

(* Without cores the invariant is that of the search.                      *)
LEMMA NoCores ==
  ASSUME NEW w \in Workers, RoundInv(w), ~ InRound(w) \/ pc[w] = "unsat"
  PROVE  WorkerInv(w) /\ round[w].cores = {}
<1>1. round[w].cores = {}
  BY DEF RoundInv, CoreShape
<1>2. CommitShape(w)
  BY <1>1 DEF RoundInv, CoreShape, CommitShape
<1> QED BY <1>1, <1>2, WorkerSplit DEF RoundInv
-----------------------------------------------------------------------------
(* The steps of CadiBack. *)

(* No step of the chunk loop enters a round or changes the chunk.          *)
LEMMA CommonStepPlaces ==
  ASSUME TypeOK, NEW w \in Workers, CommonStep(w)
  PROVE  /\ chunk' = chunk
         /\ pc'[w] = "round" => pc[w] = "round"
<1> USE DEF TypeOK, Goto, Return, solverVars, sharedVars, searchVars
<1>1. CASE FirstModel(w) \/ FirstUnsat(w) \/ CallInterrupted(w)
  BY <1>1 DEF FirstModel, FirstUnsat, CallInterrupted
<1>2. CASE \E l \in Lit : FilterLiteral(w, l) \/ SyncLiteral(w, l) \/ ExtractLiteral(w, l)
                          \/ CommitLiteral(w, l)
  BY <1>2 DEF FilterLiteral, SyncLiteral, ExtractLiteral, CommitLiteral
<1>3. CASE FilterDone(w) \/ SyncDone(w) \/ ExtractDone(w) \/ UnsatDone(w)
  BY <1>3 DEF FilterDone, SyncDone, ExtractDone, UnsatDone
<1>4. CASE Loop(w) \/ AnswerSat(w) \/ AnswerUnsat(w)
  BY <1>4 DEF Loop, AnswerSat, AnswerUnsat
<1> QED BY <1>1, <1>2, <1>3, <1>4 DEF CommonStep

LEMMA CommonStepAlone ==
  ASSUME ExploreInv, NEW w \in Workers, CommonStep(w), UNCHANGED exploreVars
  PROVE  Alone(w) /\ TypeOK' /\ ProgressInv(w)'
<1>1. TypeOK'
  BY TypeStep DEF ExploreInv, Next, WorkerStep
<1>2. ProgressInv(w)'
  BY CommonStepProgress DEF ExploreInv, RoundInv, BaseInv
<1>3. Alone(w)
  BY CommonStepOthers DEF ExploreInv, Alone, SameRound, exploreVars
<1> QED BY <1>1, <1>2, <1>3

LEMMA OutsideKeeps ==
  ASSUME ExploreInv, NEW w \in Workers, CommonStep(w), ~ InRound(w), UNCHANGED exploreVars
  PROVE  ExploreInv'
<1>1. TypeOK /\ LocalInv(w) /\ round[w].cores = {}
  BY NoCores DEF ExploreInv, LocalInv
<1>2. LocalInv(w)' /\ Alone(w) /\ TypeOK' /\ ProgressInv(w)'
  BY <1>1, CommonStepKeeps, CommonStepAlone
<1>3. /\ chunk' = chunk /\ pc[w] # "round" /\ pc'[w] # "round"
      /\ round' = round /\ stage' = stage
      /\ RoundShape(w) /\ WorkerInv(w)'
  BY <1>1, <1>2, CommonStepPlaces DEF ExploreInv, RoundInv, RoundShape, exploreVars, LocalInv
<1>4. RoundShape(w)'
  BY <1>3 DEF RoundShape, InRound
<1>5. CoreShape(w)'
  BY <1>1, <1>3 DEF CoreShape, CommitShape, WorkerInv
<1>6. RoundInv(w)'
  BY <1>2, <1>3, <1>4, <1>5 DEF RoundInv, WorkerInv, BaseInv
<1> QED BY <1>2, <1>6, ActsAlone DEF LocalInv

LEMMA ChunkKeeps ==
  ASSUME ExploreInv, NEW w \in Workers, SelectChunk(w), stage[w] = "chunks",
         UNCHANGED exploreVars
  PROVE  ExploreInv'
<1>1. TypeOK /\ RoundInv(w) /\ ~ InRound(w)
  BY DEF ExploreInv, RoundInv, RoundShape
<1>2. LocalInv(w) /\ round[w].cores = {}
  BY <1>1, NoCores DEF ExploreInv, LocalInv
<1>3. LocalInv(w)' /\ ProgressInv(w)' /\ pc'[w] = "solve" /\ TypeOK'
  BY <1>1, <1>2, SelectChunkKeeps, SelectChunkProgress, TypeStep DEF RoundInv, Next, WorkerStep
<1>4. Alone(w) /\ round' = round /\ stage' = stage
  BY DEF SelectChunk, ConstrainWith, Goto, ExploreInv, TypeOK, Alone, SameSearch,
         SameKnowledge, SameRound, exploreVars, solverVars
<1>5. RoundShape(w)' /\ CoreShape(w)'
  BY <1>1, <1>2, <1>3, <1>4
  DEF RoundInv, RoundShape, CoreShape, InRound, LocalInv, WorkerInv, CommitShape
<1>6. RoundInv(w)'
  BY <1>3, <1>5 DEF RoundInv, LocalInv, WorkerInv, BaseInv
<1> QED BY <1>3, <1>4, <1>6, ActsAlone DEF LocalInv

(* A model of a round drops no core.                                       *)
LEMMA RoundFilterKeeps ==
  ASSUME ExploreInv, NEW w \in Workers, InRound(w), NEW l \in Lit, FilterLiteral(w, l),
         UNCHANGED exploreVars
  PROVE  ExploreInv'
<1>1. TypeOK /\ RoundInv(w) /\ pc[w] = "filter"
  BY DEF ExploreInv, FilterLiteral
<1>2. /\ BoardSound' /\ ClausesSound' /\ BaseInv(w)'
      /\ \/ cand'[w] = cand[w]
         \/ cand'[w] = cand[w] \ {l} /\ ~ Implied(phi, l)
      /\ UNCHANGED << phi, pc, backbone, chunk, chunkSize, sigma >>
  BY <1>1, FilterLiteralBase DEF ExploreInv, RoundInv, FilterLiteral
<1>3. Alone(w) /\ TypeOK' /\ ProgressInv(w)' /\ round' = round /\ stage' = stage
  BY CommonStepAlone DEF CommonStep, exploreVars
<1>4. RoundShape(w)'
  BY <1>1, <1>2, <1>3 DEF RoundInv, RoundShape, InRound
<1>5. \A k \in round[w].cores : k \in cand[w] /\ k \in backbone[w] /\ Implied(phi, k)
  BY <1>1 DEF RoundInv, CoreShape, BaseInv, BackboneImplied
<1>6. CoreShape(w)'
  BY <1>1, <1>2, <1>3, <1>5 DEF RoundInv, CoreShape, InRound
<1>7. RoundInv(w)'
  BY <1>2, <1>3, <1>4, <1>6 DEF RoundInv
<1> QED BY <1>2, <1>3, <1>7, ActsAlone

LEMMA RoundCommitKeeps ==
  ASSUME ExploreInv, NEW w \in Workers, InRound(w), NEW l \in Lit, CommitLiteral(w, l),
         UNCHANGED exploreVars
  PROVE  ExploreInv'
<1>1. TypeOK /\ RoundInv(w) /\ pc[w] = "unsat"
  BY DEF ExploreInv, CommitLiteral
<1>2. LocalInv(w) /\ round[w].cores = {}
  BY <1>1, NoCores DEF ExploreInv, LocalInv
<1>3. LocalInv(w)' /\ WorkerInv(w)'
  BY <1>1, <1>2, CommitLiteralKeeps DEF LocalInv
<1>4. Alone(w) /\ TypeOK' /\ ProgressInv(w)' /\ round' = round /\ stage' = stage
  BY CommonStepAlone DEF CommonStep, exploreVars
<1>5. UNCHANGED << phi, pc, cand, chunk, chunkSize >>
  BY DEF CommitLiteral
<1>6. RoundShape(w)' /\ CoreShape(w)'
  BY <1>1, <1>2, <1>3, <1>4, <1>5 DEF RoundInv, RoundShape, CoreShape, InRound, WorkerInv
<1>7. RoundInv(w)'
  BY <1>3, <1>4, <1>6 DEF RoundInv, WorkerInv, BaseInv
<1> QED BY <1>3, <1>4, <1>7, ActsAlone DEF LocalInv

LEMMA RoundInterruptedKeeps ==
  ASSUME ExploreInv, NEW w \in Workers, CallInterrupted(w), UNCHANGED exploreVars
  PROVE  ExploreInv'
<1>1. TypeOK /\ RoundInv(w) /\ pc[w] \notin {"unsat", "done"}
  BY DEF ExploreInv, CallInterrupted, Solving
<1>2. Alone(w) /\ TypeOK' /\ ProgressInv(w)' /\ round' = round /\ stage' = stage
  BY CommonStepAlone DEF CommonStep, exploreVars
<1>3. /\ UNCHANGED << phi, cand, todo, backbone, chunk, chunkSize, sigma, fixed, clauses, board,
                      exported >>
      /\ pc'[w] = "done" /\ result'[w] = "UNKNOWN"
  BY <1>1 DEF CallInterrupted, Return, Goto, TypeOK, searchVars, solverVars, sharedVars
<1>4. BoardSound' /\ ClausesSound'
  BY <1>3 DEF ExploreInv, BoardSound, ClausesSound
<1>5. LoopShape(w)' /\ AnswerShape(w)'
  BY <1>1, <1>3 DEF RoundInv, BaseInv, LoopShape, AnswerShape, HasModel
<1>6. BaseInv(w)'
  BY <1>1, <1>3, <1>5, QuietBase DEF RoundInv
<1>7. RoundShape(w)' /\ CoreShape(w)'
  BY <1>1, <1>2, <1>3 DEF RoundInv, RoundShape, CoreShape, InRound
<1>8. RoundInv(w)'
  BY <1>2, <1>6, <1>7 DEF RoundInv
<1> QED BY <1>2, <1>4, <1>8, ActsAlone
-----------------------------------------------------------------------------
(* The steps of the rounds that leave the candidates alone. *)

LEMMA EndRoundEffect ==
  ASSUME ExploreInv, NEW w \in Workers, NEW b, EndRound(w, b)
  PROVE  /\ pc' = [pc EXCEPT ![w] = "loop"] /\ result' = result
         /\ round'[w] = NoRound
         /\ DOMAIN round' = Workers /\ DOMAIN stage' = Workers
         /\ \A u \in Workers \ {w} : SameRound(u)
BY DEF ExploreInv, EndRound, SetRound, Goto, SameRound

LEMMA SetRoundEffect ==
  ASSUME ExploreInv, NEW w \in Workers, NEW r, SetRound(w, r), UNCHANGED stage
  PROVE  /\ round'[w] = r /\ stage'[w] = stage[w]
         /\ DOMAIN round' = Workers /\ DOMAIN stage' = Workers
         /\ \A u \in Workers \ {w} : SameRound(u)
BY DEF ExploreInv, SetRound, SameRound

(* A round that begins, goes on or is left between two calls.              *)
LEMMA QuietRoundKeeps ==
  ASSUME ExploreInv, NEW w \in Workers, pc[w] \in {"select", "round", "filter"},
         UNCHANGED << phi, cand, todo, backbone, chunk, chunkSize, solverVars, sharedVars, stop >>,
         NEW p \in {"round", "loop", "done"}, pc' = [pc EXCEPT ![w] = p],
         result' = IF p = "done" THEN [result EXCEPT ![w] = "UNKNOWN"] ELSE result,
         DOMAIN round' = Workers, DOMAIN stage' = Workers,
         \A u \in Workers \ {w} : SameRound(u),
         RoundShape(w)', CoreShape(w)', p # "done" => chunkSize[w] > 0
  PROVE  ExploreInv'
<1>1. TypeOK /\ RoundInv(w)
  BY DEF ExploreInv
<1>2. TypeOK'
  BY <1>1 DEF TypeOK, PC, solverVars, sharedVars
<1>3. BoardSound' /\ ClausesSound'
  BY DEF ExploreInv, BoardSound, ClausesSound, solverVars, sharedVars
<1>4. pc'[w] = p /\ result'[w] = IF p = "done" THEN "UNKNOWN" ELSE result[w]
  BY <1>1 DEF TypeOK
<1>5. LoopShape(w)' /\ AnswerShape(w)'
  BY <1>1, <1>4 DEF RoundInv, BaseInv, LoopShape, AnswerShape, HasModel, solverVars
<1>6. BaseInv(w)'
  BY <1>1, <1>5, QuietBase DEF RoundInv, solverVars
<1>7. ProgressInv(w)'
  BY <1>4 DEF ProgressInv
<1>8. Alone(w)
  <2>1. ASSUME NEW u \in Workers \ {w}
        PROVE  pc'[u] = pc[u] /\ result'[u] = result[u]
    BY <1>1 DEF TypeOK
  <2> QED BY <2>1 DEF Alone, SameSearch, SameKnowledge, solverVars
<1> QED BY <1>2, <1>3, <1>6, <1>7, <1>8, ActsAlone DEF RoundInv

(* A round that ends with no core leaves the worker in the chunk loop.     *)
LEMMA LeaveRoundKeeps ==
  ASSUME ExploreInv, NEW w \in Workers, pc[w] \in {"select", "round"},
         stage[w] # "chunks", round[w].cores = {},
         UNCHANGED << phi, cand, todo, backbone, chunk, chunkSize, solverVars, sharedVars, stop >>,
         NEW p \in {"loop", "done"}, pc' = [pc EXCEPT ![w] = p],
         result' = IF p = "done" THEN [result EXCEPT ![w] = "UNKNOWN"] ELSE result,
         round'[w] = NoRound,
         DOMAIN round' = Workers, DOMAIN stage' = Workers,
         \A u \in Workers \ {w} : SameRound(u)
  PROVE  ExploreInv'
<1>1. TypeOK /\ RoundInv(w) /\ chunkSize[w] > 0 /\ chunk[w] = {}
  BY DEF ExploreInv, RoundInv, RoundShape, ProgressInv
<1>2. NoRound.softs = {} /\ NoRound.cores = {}
  BY DEF NoRound
<1>3. RoundShape(w)'
  BY <1>1, <1>2 DEF RoundShape, InRound, TypeOK
<1>4. CoreShape(w)'
  BY <1>1, <1>2 DEF RoundInv, CoreShape, InRound, TypeOK
<1> QED BY <1>1, <1>3, <1>4, QuietRoundKeeps

(* A round that goes on with another node or another count of calls.       *)
LEMMA NextCallKeeps ==
  ASSUME ExploreInv, NEW w \in Workers, pc[w] \in {"round", "filter"}, InRound(w),
         NEW r, DOMAIN r = DOMAIN NoRound, r.softs = round[w].softs, r.cores = round[w].cores,
         SetRound(w, r), pc' = [pc EXCEPT ![w] = "round"],
         UNCHANGED << phi, cand, todo, backbone, chunk, chunkSize, solverVars, sharedVars, stop,
                      result, stage >>
  PROVE  ExploreInv'
<1>1. TypeOK /\ RoundInv(w) /\ chunkSize[w] > 0
  BY DEF ExploreInv, RoundInv, RoundShape
<1>2. pc'[w] = "round"
  BY <1>1 DEF TypeOK
<1>3. /\ round'[w] = r /\ DOMAIN round' = Workers /\ DOMAIN stage' = Workers
      /\ \A u \in Workers \ {w} : SameRound(u)
  BY SetRoundEffect
<1>4. RoundShape(w)'
  BY <1>1, <1>2, <1>3 DEF RoundInv, RoundShape, InRound
<1>5. CoreShape(w)'
  BY <1>1, <1>2, <1>3 DEF RoundInv, CoreShape, InRound
<1> QED BY <1>1, <1>3, <1>4, <1>5, QuietRoundKeeps

(* A round begins with all the candidates.                                 *)
LEMMA EnterRoundKeeps ==
  ASSUME ExploreInv, NEW w \in Workers, pc[w] = "select", stage[w] # "chunks",
         NEW r, DOMAIN r = DOMAIN NoRound, r.softs = cand[w], r.cores = {},
         SetRound(w, r), pc' = [pc EXCEPT ![w] = "round"],
         UNCHANGED << phi, cand, todo, backbone, chunk, chunkSize, solverVars, sharedVars, stop,
                      result, stage >>
  PROVE  ExploreInv'
<1>1. /\ TypeOK /\ RoundInv(w) /\ chunkSize[w] > 0 /\ cand[w] # {} /\ chunk[w] = {}
      /\ ~ InRound(w) /\ HasModel(w)
  BY DEF ExploreInv, RoundInv, RoundShape, ProgressInv, BaseInv, LoopShape
<1>2. pc'[w] = "round" /\ cand[w] \subseteq Lit
  BY <1>1 DEF TypeOK
<1>3. /\ round'[w] = r /\ stage'[w] = stage[w]
      /\ DOMAIN round' = Workers /\ DOMAIN stage' = Workers
      /\ \A u \in Workers \ {w} : SameRound(u)
  BY SetRoundEffect
<1>4. cand[w] \intersect backbone[w] = {}
  BY <1>1, NoCores DEF WorkerInv, CommitShape
<1>5. RoundShape(w)'
  BY <1>1, <1>2, <1>3 DEF RoundShape, InRound
<1>6. CoreShape(w)'
  BY <1>2, <1>3, <1>4 DEF CoreShape
<1> QED BY <1>1, <1>3, <1>5, <1>6, QuietRoundKeeps

(* A model of a call of the round is a model of the formula.               *)
LEMMA UseModelKeeps ==
  ASSUME ExploreInv, NEW w \in Workers, pc[w] = "round", NEW m \in Solver(w), UseModel(w, m),
         DOMAIN round' = Workers, \A u \in Workers \ {w} : SameRound(u),
         DOMAIN round'[w] = DOMAIN NoRound, round'[w].softs = round[w].softs,
         round'[w].cores = round[w].cores
  PROVE  ExploreInv'
<1>1. TypeOK /\ RoundInv(w) /\ InRound(w)
  BY DEF ExploreInv, RoundInv, RoundShape
<1>2. m \in phi /\ m \in Assignments /\ m # NoModel
  BY <1>1, SolverType, ConstantsAssumption
<1>3. /\ pc' = [pc EXCEPT ![w] = "filter"] /\ sigma' = [sigma EXCEPT ![w] = m]
      /\ todo' = [todo EXCEPT ![w] = cand[w]]
      /\ UNCHANGED << phi, cand, backbone, chunk, chunkSize, clauses, fixed, exported, board,
                      stop, result, stage >>
  BY DEF UseModel, Goto, sharedVars
<1>4. TypeOK'
  BY <1>1, <1>2, <1>3 DEF TypeOK, PC
<1>5. BoardSound' /\ ClausesSound'
  BY <1>3 DEF ExploreInv, BoardSound, ClausesSound
<1>6. pc'[w] = "filter" /\ sigma'[w] = m /\ todo'[w] = cand[w]
  BY <1>1, <1>3 DEF TypeOK
<1>7. BaseInv(w)'
  <2>1. HasModel(w)
    BY <1>1 DEF RoundInv, BaseInv, LoopShape
  <2>2. (CandidatesWitnessed(w) /\ BackboneImplied(w) /\ BackboneKept(w) /\ FixedImplied(w))'
    BY <1>1, <1>3, <2>1
    DEF RoundInv, BaseInv, CandidatesWitnessed, BackboneImplied, BackboneKept, FixedImplied
  <2>3. (ModelIsModel(w) /\ LoopShape(w) /\ AnswerShape(w))'
    BY <1>1, <1>2, <1>3, <1>6, <2>1
    DEF RoundInv, BaseInv, ModelIsModel, LoopShape, AnswerShape, HasModel
  <2> QED BY <2>2, <2>3 DEF BaseInv
<1>8. RoundShape(w)' /\ CoreShape(w)'
  BY <1>1, <1>3, <1>6 DEF RoundInv, RoundShape, CoreShape, InRound
<1>9. ProgressInv(w)'
  BY <1>1, <1>3, <1>6 DEF RoundInv, RoundShape, ProgressInv
<1>10. Alone(w)
  BY <1>1, <1>3 DEF ExploreInv, TypeOK, Alone, SameSearch, SameKnowledge, SameRound
<1> QED BY <1>4, <1>5, <1>7, <1>8, <1>9, <1>10, ActsAlone DEF RoundInv
-----------------------------------------------------------------------------
(* The rounds of XORs. *)

LEMMA XorStepKeeps ==
  ASSUME ExploreInv, NEW w \in Workers, XorStep(w)
  PROVE  ExploreInv'
<1>1. /\ TypeOK /\ RoundInv(w)
      /\ DOMAIN round[w] = DOMAIN NoRound /\ "xor" # "chunks"
      /\ stage[w] = "xor" => round[w].cores = {}
      /\ pc[w] = "round" => InRound(w)
  BY DEF ExploreInv, RoundInv, RoundShape, CoreShape
<1>2. CASE StartXorRound(w)
  <2>1. PICK xs \in Draws(w) :
          \/ xs = << >> /\ EndRound(w, FALSE)
          \/ /\ xs # << >>
             /\ SetRound(w, [NoRound EXCEPT !.softs = cand[w], !.xors = xs,
                                            !.depth = FirstDepth(w, xs)])
             /\ Goto(w, "round")
             /\ UNCHANGED << result, stage, rounds >>
    BY <1>2 DEF StartXorRound
  <2>2. /\ pc[w] = "select" /\ stage[w] = "xor"
        /\ UNCHANGED << phi, searchVars, solverVars, sharedVars, stop >>
    BY <1>2 DEF StartXorRound
  <2>3. CASE EndRound(w, FALSE)
    BY <1>1, <2>2, <2>3, EndRoundEffect, LeaveRoundKeeps DEF searchVars
  <2>4. CASE /\ SetRound(w, [NoRound EXCEPT !.softs = cand[w], !.xors = xs,
                                            !.depth = FirstDepth(w, xs)])
             /\ Goto(w, "round")
             /\ UNCHANGED << result, stage, rounds >>
    <3> DEFINE r == [NoRound EXCEPT !.softs = cand[w], !.xors = xs,
                                    !.depth = FirstDepth(w, xs)]
    <3>1. DOMAIN r = DOMAIN NoRound /\ r.softs = cand[w] /\ r.cores = {}
      BY DEF NoRound
    <3>2. SetRound(w, r) /\ pc' = [pc EXCEPT ![w] = "round"]
      BY <2>4 DEF Goto
    <3> HIDE DEF r
    <3> QED BY <1>1, <2>2, <2>4, <3>1, <3>2, EnterRoundKeeps DEF searchVars
  <2> QED BY <2>1, <2>3, <2>4
<1>3. CASE NodeSat(w)
  <2>1. PICK m \in PathModels(w, round[w].depth) : UseModel(w, m)
    BY <1>3 DEF NodeSat
  <2>2. m \in Solver(w)
    BY DEF PathModels
  <2>3. pc[w] = "round" /\ round' = round /\ stage' = stage
    BY <1>3, <2>1 DEF NodeSat, AtNode, UseModel
  <2> QED BY <1>1, <2>1, <2>2, <2>3, UseModelKeeps DEF ExploreInv, SameRound
<1>4. ASSUME NEW d, Skip(w, d), pc[w] \in {"round", "filter"}, InRound(w),
             pc' = [pc EXCEPT ![w] = "round"],
             UNCHANGED << phi, searchVars, solverVars, sharedVars, stop, result, stage >>
      PROVE  ExploreInv'
  <2> DEFINE r == [round[w] EXCEPT !.mask = NextNode(w, d)[1], !.depth = NextNode(w, d)[2],
                                   !.covered = @ \union Subtree(w, d)]
  <2>1. DOMAIN r = DOMAIN NoRound /\ r.softs = round[w].softs /\ r.cores = round[w].cores
    BY <1>1
  <2>2. SetRound(w, r)
    BY <1>4 DEF Skip
  <2> HIDE DEF r
  <2> QED BY <1>4, <2>1, <2>2, NextCallKeeps DEF searchVars
<1>5. CASE NodeFiltered(w)
  <2>1. /\ pc[w] = "filter" /\ InRound(w) /\ pc' = [pc EXCEPT ![w] = "round"]
        /\ UNCHANGED << phi, searchVars, solverVars, sharedVars, stop, result, stage >>
    BY <1>5 DEF NodeFiltered, Goto
  <2>2. CASE Skip(w, round[w].depth)
    BY <1>4, <2>1, <2>2
  <2>3. CASE SetRound(w, [round[w] EXCEPT !.depth = @ + 1])
    <3> DEFINE r == [round[w] EXCEPT !.depth = @ + 1]
    <3>1. DOMAIN r = DOMAIN NoRound /\ r.softs = round[w].softs /\ r.cores = round[w].cores
      BY <1>1
    <3>2. SetRound(w, r)
      BY <2>3
    <3> HIDE DEF r
    <3> QED BY <2>1, <3>1, <3>2, NextCallKeeps DEF searchVars
  <2> QED BY <1>5, <2>2, <2>3 DEF NodeFiltered
<1>6. ASSUME AtNode(w), NEW d, Skip(w, d), UNCHANGED << vars, stage, rounds >>
      PROVE  ExploreInv'
  <2>1. pc[w] = "round" /\ pc' = [pc EXCEPT ![w] = "round"]
    BY <1>1, <1>6 DEF AtNode, vars, TypeOK
  <2> QED BY <1>1, <1>4, <1>6, <2>1 DEF vars
<1>7. CASE NodeUnknown(w)
  BY <1>6, <1>7 DEF NodeUnknown
<1>8. CASE \E d \in 1 .. XorCount : NodeUnsat(w, d)
  BY <1>6, <1>8 DEF NodeUnsat
<1>9. CASE XorRoundDone(w)
  <2>1. /\ pc[w] = "round" /\ stage[w] = "xor"
        /\ UNCHANGED << phi, searchVars, solverVars, sharedVars, stop >>
    BY <1>9 DEF XorRoundDone
  <2>2. ASSUME NEW b, EndRound(w, b) PROVE ExploreInv'
    BY <1>1, <2>1, <2>2, EndRoundEffect, LeaveRoundKeeps DEF searchVars
  <2>3. CASE Return(w, "UNKNOWN") /\ SetRound(w, NoRound) /\ UNCHANGED << stage, rounds >>
    <3>1. /\ pc' = [pc EXCEPT ![w] = "done"]
          /\ result' = [result EXCEPT ![w] = "UNKNOWN"]
      BY <2>3 DEF Return, Goto
    <3>2. /\ round'[w] = NoRound /\ DOMAIN round' = Workers /\ DOMAIN stage' = Workers
          /\ \A u \in Workers \ {w} : SameRound(u)
      BY <2>3, SetRoundEffect
    <3> QED BY <1>1, <2>1, <3>1, <3>2, LeaveRoundKeeps DEF searchVars
  <2> QED BY <1>9, <2>2, <2>3 DEF XorRoundDone
<1> QED BY <1>2, <1>3, <1>5, <1>7, <1>8, <1>9 DEF XorStep
-----------------------------------------------------------------------------
(* The rounds of MaxSAT. *)

(* A unit core is implied; its literal is still a candidate, since no      *)
(* model could drop it, and stays one.                                     *)
LEMMA UnitCoreKeeps ==
  ASSUME ExploreInv, NEW w \in Workers, NEW l \in Lit, UnitCore(w, l)
  PROVE  ExploreInv'
<1>1. /\ TypeOK /\ RoundInv(w) /\ BoardSound /\ ClausesSound
      /\ pc[w] = "round" /\ stage[w] = "maxsat" /\ InRound(w)
      /\ l \in round[w].softs /\ DOMAIN round[w] = DOMAIN NoRound
  BY DEF ExploreInv, UnitCore, Optimizing, RoundInv, RoundShape
<1>2. Implied(phi, l)
  BY <1>1, SolverIsFormula DEF UnitCore, IsUnitCore
<1>3. l \in cand[w] /\ HasModel(w) /\ chunk[w] = {}
  BY <1>1, <1>2 DEF RoundInv, RoundShape, BaseInv, LoopShape
<1>4. /\ AddBackboneLiteral(w, l)
      /\ clauses' = [clauses EXCEPT ![w] = @ \union {{l}}]
      /\ UNCHANGED << phi, pc, cand, todo, chunk, chunkSize, sigma, fixed, stop, result, stage >>
  BY DEF UnitCore
<1>5. /\ backbone' = [backbone EXCEPT ![w] = @ \union {l}]
      /\ BoardSound'
      /\ \A u \in Workers : \A c \in exported'[u] : \A m \in phi : Satisfies(m, c)
  BY <1>1, <1>2, <1>4, AddBackboneLiteralSound
<1>6. TypeOK'
  <2>1. /\ backbone' \in [Workers -> SUBSET Lit]
        /\ board' \in [Vars -> Status]
        /\ exported' \in [Workers -> SUBSET SUBSET Lit]
    BY <1>1, <1>4, AddBackboneLiteralType
  <2>2. {l} \in SUBSET Lit
    OBVIOUS
  <2>3. clauses' \in [Workers -> SUBSET SUBSET Lit]
    BY <1>1, <1>4, <2>2 DEF TypeOK
  <2> QED BY <1>1, <1>4, <2>1, <2>3 DEF TypeOK
<1>7. ClausesSound'
  <2>1. \A u \in Workers : clauses'[u] \subseteq clauses[u] \union {{l}}
    BY <1>1, <1>4 DEF TypeOK
  <2>2. \A m \in phi : Satisfies(m, {l})
    BY <1>2 DEF Implied, Satisfies
  <2>3. ASSUME NEW u \in Workers, NEW c \in clauses'[u], NEW m \in phi
        PROVE  Satisfies(m, c)
    BY <1>1, <2>1, <2>2, <2>3 DEF ClausesSound
  <2> QED BY <1>4, <1>5, <2>3 DEF ClausesSound
<1>8. backbone'[w] = backbone[w] \union {l}
  BY <1>1, <1>5 DEF TypeOK
<1>9. BaseInv(w)'
  <2>1. (CandidatesWitnessed(w) /\ BackboneImplied(w) /\ ModelIsModel(w) /\ FixedImplied(w))'
    BY <1>1, <1>2, <1>4, <1>8
    DEF RoundInv, BaseInv, CandidatesWitnessed, BackboneImplied, ModelIsModel, FixedImplied,
        HasModel
  <2>2. BackboneKept(w)'
    BY <1>1, <1>4, <1>8 DEF RoundInv, BaseInv, BackboneKept, HasModel
  <2>3. (LoopShape(w) /\ AnswerShape(w))'
    BY <1>1, <1>3, <1>4, <1>8 DEF RoundInv, BaseInv, LoopShape, AnswerShape, HasModel
  <2> QED BY <2>1, <2>2, <2>3 DEF BaseInv
<1>10. PICK r : /\ SetRound(w, r) /\ DOMAIN r = DOMAIN NoRound
               /\ r.softs = round[w].softs /\ r.cores = round[w].cores \union {l}
  <2> DEFINE r == [round[w] EXCEPT !.cores = @ \union {l}, !.calls = CallsAfter(w, @)]
  <2>1. /\ DOMAIN r = DOMAIN NoRound
        /\ r.softs = round[w].softs /\ r.cores = round[w].cores \union {l}
    BY <1>1 DEF NoRound
  <2>2. SetRound(w, r)
    BY DEF UnitCore
  <2> HIDE DEF r
  <2> QED BY <2>1, <2>2
<1>11. /\ round'[w] = r /\ DOMAIN round' = Workers /\ DOMAIN stage' = Workers
       /\ \A u \in Workers \ {w} : SameRound(u)
  BY <1>4, <1>10, SetRoundEffect
<1>12. RoundShape(w)'
  BY <1>1, <1>4, <1>10, <1>11 DEF RoundInv, RoundShape, InRound
<1>13. CoreShape(w)'
  BY <1>1, <1>3, <1>4, <1>8, <1>10, <1>11 DEF RoundInv, CoreShape, InRound
<1>14. ProgressInv(w)'
  BY <1>1, <1>4 DEF RoundInv, ProgressInv
<1>15. Alone(w)
  <2>1. ASSUME NEW u \in Workers \ {w} PROVE backbone'[u] = backbone[u]
    BY <1>1, <1>5 DEF TypeOK
  <2> QED BY <1>4, <1>11, <2>1 DEF Alone, SameSearch, SameKnowledge
<1> QED BY <1>5, <1>6, <1>7, <1>9, <1>12, <1>13, <1>14, <1>15, ActsAlone DEF RoundInv

(* The round takes its cores off the candidates: they are pushed.          *)
LEMMA LeaveCores ==
  ASSUME ExploreInv, NEW w \in Workers, pc[w] = "round", stage[w] = "maxsat",
         cand' = [cand EXCEPT ![w] = LeftAfterRound(w)],
         UNCHANGED << phi, todo, backbone, chunk, chunkSize, solverVars, sharedVars, stop, result >>,
         pc' = [pc EXCEPT ![w] = "loop"], round'[w] = NoRound,
         DOMAIN round' = Workers, DOMAIN stage' = Workers,
         \A u \in Workers \ {w} : SameRound(u)
  PROVE  ExploreInv'
<1>1. /\ TypeOK /\ RoundInv(w) /\ InRound(w) /\ chunkSize[w] > 0 /\ chunk[w] = {}
      /\ HasModel(w) /\ cand[w] \intersect backbone[w] = round[w].cores
  BY DEF ExploreInv, RoundInv, RoundShape, CoreShape, BaseInv, LoopShape
<1>2. /\ cand'[w] = cand[w] \ round[w].cores /\ pc'[w] = "loop"
      /\ LeftAfterRound(w) \in SUBSET Lit
  BY <1>1 DEF LeftAfterRound, TypeOK
<1>3. TypeOK'
  BY <1>1, <1>2 DEF TypeOK, PC, solverVars, sharedVars
<1>4. BoardSound' /\ ClausesSound'
  BY DEF ExploreInv, BoardSound, ClausesSound, solverVars, sharedVars
<1>5. BaseInv(w)'
  <2>1. (CandidatesWitnessed(w) /\ BackboneImplied(w) /\ ModelIsModel(w) /\ FixedImplied(w))'
    BY <1>1, <1>2
    DEF RoundInv, BaseInv, CandidatesWitnessed, BackboneImplied, ModelIsModel, FixedImplied,
        HasModel, solverVars
  <2>2. BackboneKept(w)'
    BY <1>1, <1>2 DEF RoundInv, BaseInv, BackboneKept, HasModel, solverVars
  <2>3. (LoopShape(w) /\ AnswerShape(w))'
    BY <1>1, <1>2 DEF RoundInv, BaseInv, LoopShape, AnswerShape, HasModel, solverVars
  <2> QED BY <2>1, <2>2, <2>3 DEF BaseInv
<1>6. NoRound.softs = {} /\ NoRound.cores = {}
  BY DEF NoRound
<1>7. RoundShape(w)' /\ CoreShape(w)'
  BY <1>1, <1>2, <1>6 DEF RoundShape, CoreShape, InRound
<1>8. ProgressInv(w)'
  BY <1>1, <1>2 DEF ProgressInv
<1>9. Alone(w)
  <2>1. ASSUME NEW u \in Workers \ {w} PROVE pc'[u] = pc[u] /\ cand'[u] = cand[u]
    BY <1>1 DEF TypeOK
  <2> QED BY <2>1 DEF Alone, SameSearch, SameKnowledge, solverVars
<1> QED BY <1>3, <1>4, <1>5, <1>7, <1>8, <1>9, ActsAlone DEF RoundInv

(* The optimum satisfies no soft literal: no model falsifies any of the    *)
(* candidates at the start of the round.                                   *)
LEMMA OptimumImplies ==
  ASSUME ExploreInv, NEW w \in Workers, NEW best \in Solver(w), Optimal(w, best),
         SatisfiedSofts(w, best) = 0, NEW l \in round[w].softs
  PROVE  Implied(phi, l)
<1>1. IsFiniteSet(round[w].softs)
  <2>1. IsFiniteSet(Lit)
    <3>1. IsFiniteSet({1, -1})
      <4>1. IsFiniteSet({1})
        BY FS_Singleton
      <4>2. IsFiniteSet({1} \union {-1})
        BY <4>1, FS_AddElement
      <4>3. {1} \union {-1} = {1, -1}
        OBVIOUS
      <4> QED BY <4>2, <4>3
    <3> QED BY <3>1, ExplorationAssumption, FS_Product DEF Lit
  <2> QED BY <2>1, FS_Subset DEF ExploreInv, RoundInv, RoundShape
<1>2. SUFFICES ASSUME NEW m \in phi, ~ Holds(m, l) PROVE FALSE
  BY DEF Implied
<1> DEFINE S == {k \in round[w].softs : ~ Holds(m, k)}
<1>3. m \in Solver(w)
  BY SolverIsFormula DEF ExploreInv
<1>4. IsFiniteSet(S) /\ l \in S
  BY <1>1, <1>2, FS_Subset
<1>5. Cardinality(S) <= 0
  BY <1>3 DEF Optimal, SatisfiedSofts
<1> HIDE DEF S
<1>6. Cardinality(S) \in Nat
  BY <1>4, FS_CardinalityType
<1>7. Cardinality(S) = 0
  BY <1>5, <1>6
<1>8. S = {}
  BY <1>4, <1>7, FS_EmptySet
<1> QED BY <1>4, <1>8

(* Then what is left is committed like a chunk that was refuted.           *)
LEMMA CommitLeftKeeps ==
  ASSUME ExploreInv, NEW w \in Workers, pc[w] = "round", stage[w] = "maxsat",
         \A l \in round[w].softs : Implied(phi, l),
         cand' = [cand EXCEPT ![w] = LeftAfterRound(w)],
         chunk' = [chunk EXCEPT ![w] = LeftAfterRound(w)],
         todo' = [todo EXCEPT ![w] = LeftAfterRound(w)],
         pc' = [pc EXCEPT ![w] = "unsat"],
         SetRound(w, [round[w] EXCEPT !.cores = {}]),
         UNCHANGED << phi, backbone, chunkSize, solverVars, sharedVars, stop, result, stage >>
  PROVE  ExploreInv'
<1>1. /\ TypeOK /\ RoundInv(w) /\ InRound(w) /\ chunkSize[w] > 0
      /\ HasModel(w) /\ cand[w] \intersect backbone[w] = round[w].cores
      /\ cand[w] \subseteq round[w].softs /\ DOMAIN round[w] = DOMAIN NoRound
  BY DEF ExploreInv, RoundInv, RoundShape, CoreShape, BaseInv, LoopShape
<1> DEFINE left == LeftAfterRound(w)
           r == [round[w] EXCEPT !.cores = {}]
<1>2. left = cand[w] \ round[w].cores /\ left \in SUBSET Lit
  BY <1>1 DEF LeftAfterRound, TypeOK
<1>3. DOMAIN r = DOMAIN NoRound /\ r.softs = round[w].softs /\ r.cores = {}
  BY <1>1 DEF NoRound
<1>4. SetRound(w, r)
  OBVIOUS
<1> HIDE DEF left, r
<1>5. /\ cand' = [cand EXCEPT ![w] = left] /\ chunk' = [chunk EXCEPT ![w] = left]
      /\ todo' = [todo EXCEPT ![w] = left]
  BY DEF left
<1>6. /\ cand'[w] = left /\ chunk'[w] = left /\ todo'[w] = left /\ pc'[w] = "unsat"
  BY <1>1, <1>5 DEF TypeOK
<1>7. TypeOK'
  BY <1>1, <1>2, <1>5 DEF TypeOK, PC, solverVars, sharedVars
<1>8. BoardSound' /\ ClausesSound'
  BY DEF ExploreInv, BoardSound, ClausesSound, solverVars, sharedVars
<1>9. BaseInv(w)'
  <2>1. (CandidatesWitnessed(w) /\ BackboneImplied(w) /\ ModelIsModel(w) /\ FixedImplied(w))'
    BY <1>1, <1>2, <1>6
    DEF RoundInv, BaseInv, CandidatesWitnessed, BackboneImplied, ModelIsModel, FixedImplied,
        HasModel, solverVars
  <2>2. BackboneKept(w)'
    BY <1>1, <1>2, <1>6 DEF RoundInv, BaseInv, BackboneKept, HasModel, solverVars
  <2>3. (LoopShape(w) /\ AnswerShape(w))'
    BY <1>1, <1>6 DEF RoundInv, BaseInv, LoopShape, AnswerShape, HasModel, solverVars
  <2> QED BY <2>1, <2>2, <2>3 DEF BaseInv
<1>10. /\ round'[w] = r /\ stage'[w] = stage[w]
       /\ DOMAIN round' = Workers /\ DOMAIN stage' = Workers
       /\ \A u \in Workers \ {w} : SameRound(u)
  BY <1>4, SetRoundEffect
<1>11. RoundShape(w)'
  BY <1>1, <1>3, <1>6, <1>10 DEF RoundInv, RoundShape, InRound
<1>12. CoreShape(w)'
  BY <1>1, <1>2, <1>3, <1>6, <1>10 DEF CoreShape, CommitShape
<1>13. ProgressInv(w)'
  BY <1>1, <1>6 DEF ProgressInv
<1>14. Alone(w)
  <2>1. ASSUME NEW u \in Workers \ {w}
        PROVE  /\ pc'[u] = pc[u] /\ cand'[u] = cand[u] /\ chunk'[u] = chunk[u]
               /\ todo'[u] = todo[u]
    BY <1>1, <1>5 DEF TypeOK
  <2> QED BY <1>10, <2>1 DEF Alone, SameSearch, SameKnowledge, solverVars
<1> QED BY <1>7, <1>8, <1>9, <1>11, <1>12, <1>13, <1>14, ActsAlone DEF RoundInv

(* All that was left is pushed: nothing is a candidate any more.           *)
LEMMA AllCommittedKeeps ==
  ASSUME ExploreInv, NEW w \in Workers, AllCommitted(w)
  PROVE  ExploreInv'
<1>1. /\ TypeOK /\ RoundInv(w) /\ InRound(w) /\ pc[w] = "unsat" /\ todo[w] = {}
      /\ WorkerInv(w) /\ HasModel(w) /\ chunkSize[w] > 0 /\ cand[w] \subseteq chunk[w]
  BY NoCores DEF ExploreInv, AllCommitted, RoundInv, RoundShape, BaseInv, LoopShape
<1>2. cand[w] \subseteq backbone[w]
  BY <1>1 DEF WorkerInv, CommitShape
<1>3. /\ cand' = [cand EXCEPT ![w] = {}] /\ chunk' = [chunk EXCEPT ![w] = {}]
      /\ EndRound(w, TRUE)
      /\ UNCHANGED << phi, todo, backbone, chunkSize, solverVars, sharedVars, stop >>
  BY DEF AllCommitted
<1>4. /\ pc' = [pc EXCEPT ![w] = "loop"] /\ result' = result /\ round'[w] = NoRound
      /\ DOMAIN round' = Workers /\ DOMAIN stage' = Workers
      /\ \A u \in Workers \ {w} : SameRound(u)
  BY <1>3, EndRoundEffect
<1>5. cand'[w] = {} /\ chunk'[w] = {} /\ pc'[w] = "loop"
  BY <1>1, <1>3, <1>4 DEF TypeOK
<1>6. TypeOK'
  BY <1>1, <1>3, <1>4 DEF TypeOK, PC, solverVars, sharedVars
<1>7. BoardSound' /\ ClausesSound'
  BY <1>3 DEF ExploreInv, BoardSound, ClausesSound, solverVars, sharedVars
<1>8. BaseInv(w)'
  <2>1. (CandidatesWitnessed(w) /\ BackboneImplied(w) /\ ModelIsModel(w) /\ FixedImplied(w))'
    BY <1>1, <1>3, <1>5
    DEF RoundInv, BaseInv, CandidatesWitnessed, BackboneImplied, ModelIsModel, FixedImplied,
        HasModel, solverVars
  <2>2. BackboneKept(w)'
    BY <1>1, <1>2, <1>3 DEF RoundInv, BaseInv, BackboneKept, HasModel, solverVars
  <2>3. (LoopShape(w) /\ AnswerShape(w))'
    BY <1>1, <1>3, <1>4, <1>5 DEF RoundInv, BaseInv, LoopShape, AnswerShape, HasModel, solverVars
  <2> QED BY <2>1, <2>2, <2>3 DEF BaseInv
<1>9. NoRound.softs = {} /\ NoRound.cores = {}
  BY DEF NoRound
<1>10. RoundShape(w)' /\ CoreShape(w)'
  BY <1>4, <1>5, <1>9 DEF RoundShape, CoreShape, InRound
<1>11. ProgressInv(w)'
  BY <1>1, <1>3, <1>5 DEF ProgressInv
<1>12. Alone(w)
  <2>1. ASSUME NEW u \in Workers \ {w}
        PROVE  pc'[u] = pc[u] /\ cand'[u] = cand[u] /\ chunk'[u] = chunk[u]
    BY <1>1, <1>3, <1>4 DEF TypeOK
  <2> QED BY <1>3, <1>4, <2>1 DEF Alone, SameSearch, SameKnowledge, solverVars
<1> QED BY <1>6, <1>7, <1>8, <1>10, <1>11, <1>12, ActsAlone DEF RoundInv

LEMMA MaxSatStepKeeps ==
  ASSUME ExploreInv, NEW w \in Workers, MaxSatStep(w)
  PROVE  ExploreInv'
<1>1. TypeOK /\ RoundInv(w) /\ DOMAIN round[w] = DOMAIN NoRound
  BY DEF ExploreInv, RoundInv, RoundShape
<1>2. CASE StartMaxSatRound(w)
  <2> DEFINE r == [NoRound EXCEPT !.softs = cand[w]]
  <2>1. DOMAIN r = DOMAIN NoRound /\ r.softs = cand[w] /\ r.cores = {}
    BY DEF NoRound
  <2>2. SetRound(w, r) /\ pc' = [pc EXCEPT ![w] = "round"]
    BY <1>2 DEF StartMaxSatRound, Goto
  <2> HIDE DEF r
  <2> QED BY <1>2, <2>1, <2>2, EnterRoundKeeps DEF StartMaxSatRound, searchVars
<1>3. CASE RoundModel(w)
  <2> DEFINE r == [round[w] EXCEPT !.before = cand[w]]
  <2>1. PICK m \in Solver(w) : UseModel(w, m)
    BY <1>3 DEF RoundModel
  <2>2. DOMAIN r = DOMAIN NoRound /\ r.softs = round[w].softs /\ r.cores = round[w].cores
    BY <1>1
  <2>3. SetRound(w, r) /\ pc[w] = "round" /\ UNCHANGED stage
    BY <1>3, <2>1 DEF RoundModel, Optimizing, UseModel
  <2> HIDE DEF r
  <2>4. /\ round'[w] = r /\ DOMAIN round' = Workers
        /\ \A u \in Workers \ {w} : SameRound(u)
    BY <2>3, SetRoundEffect
  <2> QED BY <2>1, <2>2, <2>3, <2>4, UseModelKeeps
<1>4. CASE RoundFiltered(w)
  <2> DEFINE r == [round[w] EXCEPT
                     !.before = {},
                     !.calls = CallsAfter(w, IF cand[w] # round[w].before THEN 0 ELSE @)]
  <2>1. DOMAIN r = DOMAIN NoRound /\ r.softs = round[w].softs /\ r.cores = round[w].cores
    BY <1>1
  <2>2. SetRound(w, r) /\ pc' = [pc EXCEPT ![w] = "round"]
    BY <1>4 DEF RoundFiltered, Goto
  <2> HIDE DEF r
  <2> QED BY <1>4, <2>1, <2>2, NextCallKeeps DEF RoundFiltered, searchVars
<1>5. CASE OtherAnswer(w)
  <2> DEFINE r == [round[w] EXCEPT !.calls = CallsAfter(w, @)]
  <2>1. DOMAIN r = DOMAIN NoRound /\ r.softs = round[w].softs /\ r.cores = round[w].cores
    BY <1>1
  <2>2. SetRound(w, r) /\ UNCHANGED vars /\ pc[w] = "round" /\ InRound(w) /\ UNCHANGED stage
    BY <1>5 DEF OtherAnswer, Optimizing
  <2> HIDE DEF r
  <2>3. pc' = [pc EXCEPT ![w] = "round"]
    BY <1>1, <2>2 DEF vars, TypeOK
  <2> QED BY <2>1, <2>2, <2>3, NextCallKeeps DEF vars, searchVars
<1>6. CASE \E l \in Lit : UnitCore(w, l)
  BY <1>6, UnitCoreKeeps
<1>7. CASE AbandonRound(w)
  BY <1>7, EndRoundEffect, LeaveCores DEF AbandonRound
<1>8. CASE RoundOptimum(w)
  <2>1. PICK best \in Solver(w) :
          /\ Optimal(w, best)
          /\ cand' = [cand EXCEPT ![w] = LeftAfterRound(w)]
          /\ IF SatisfiedSofts(w, best) = 0
             THEN /\ chunk' = [chunk EXCEPT ![w] = LeftAfterRound(w)]
                  /\ todo' = [todo EXCEPT ![w] = LeftAfterRound(w)]
                  /\ Goto(w, "unsat")
                  /\ SetRound(w, [round[w] EXCEPT !.cores = {}])
                  /\ UNCHANGED << result, stage, rounds >>
             ELSE /\ EndRound(w, cand[w] = round[w].softs)
                  /\ UNCHANGED << chunk, todo >>
    BY <1>8 DEF RoundOptimum
  <2>2. /\ pc[w] = "round" /\ stage[w] = "maxsat"
        /\ UNCHANGED << phi, backbone, chunkSize, solverVars, sharedVars, stop >>
    BY <1>8 DEF RoundOptimum, Optimizing
  <2>3. CASE SatisfiedSofts(w, best) = 0
    <3>1. \A l \in round[w].softs : Implied(phi, l)
      BY <2>1, <2>3, OptimumImplies
    <3> QED BY <2>1, <2>2, <2>3, <3>1, CommitLeftKeeps DEF Goto
  <2>4. CASE SatisfiedSofts(w, best) # 0
    BY <2>1, <2>2, <2>4, EndRoundEffect, LeaveCores
  <2> QED BY <2>3, <2>4
<1>9. CASE AllCommitted(w)
  BY <1>9, AllCommittedKeeps
<1> QED BY <1>2, <1>3, <1>4, <1>5, <1>6, <1>7, <1>8, <1>9 DEF MaxSatStep
-----------------------------------------------------------------------------
(* The theorems. *)

(* The others publish the truth.                                           *)
LEMMA OthersPublishKeeps ==
  ASSUME ExploreInv, NEW v \in Vars, NEW s \in Status, OthersPublish(v, s)
  PROVE  ExploreInv'
<1>1. board \in [Vars -> Status] /\ \A u \in Vars : StatusTrue(phi, u, board[u])
  BY DEF ExploreInv, TypeOK, BoardSound
<1>2. board' \in [Vars -> Status] /\ \A u \in Vars : StatusTrue(phi, u, board'[u])
  BY <1>1, PublishTrue DEF OthersPublish
<1>3. UNCHANGED << phi, pc, searchVars, solverVars, exported, stop, result, stage, round >>
  BY DEF OthersPublish, exploreVars
<1>4. TypeOK' /\ BoardSound' /\ ClausesSound'
  BY <1>2, <1>3 DEF ExploreInv, TypeOK, BoardSound, ClausesSound, searchVars, solverVars
<1>5. \A u \in Workers : RoundInv(u)'
  BY <1>3, RoundOfOthers
  DEF ExploreInv, SameSearch, SameKnowledge, SameRound, searchVars, solverVars
<1> QED BY <1>3, <1>4, <1>5 DEF ExploreInv

LEMMA SolverKeepsRound ==
  ASSUME ExploreInv, NEW w \in Workers, SolverStep(w) \/ Interrupt(w), UNCHANGED exploreVars
  PROVE  ExploreInv'
<1>1. TypeOK /\ TypeOK' /\ RoundInv(w)
  BY TypeStep DEF ExploreInv, Next
<1>2. /\ BoardSound' /\ ClausesSound'
      /\ \A l \in fixed'[w] \ fixed[w] : Implied(phi, l)
      /\ UNCHANGED << phi, pc, searchVars, sigma, result, round, stage >>
  BY <1>1, SolverStepBase DEF ExploreInv, exploreVars
<1>3. BaseInv(w)'
  BY <1>1, <1>2
  DEF RoundInv, searchVars, BaseInv, CandidatesWitnessed, BackboneImplied, BackboneKept,
      ModelIsModel, FixedImplied, LoopShape, AnswerShape, HasModel
<1>4. RoundShape(w)' /\ CoreShape(w)' /\ ProgressInv(w)'
  BY <1>1, <1>2
  DEF RoundInv, RoundShape, CoreShape, CommitShape, ProgressInv, InRound, searchVars
<1>5. Alone(w)
  BY <1>1, <1>2, SolverStepOthers DEF ExploreInv, Alone, SameRound
<1> QED BY <1>1, <1>2, <1>3, <1>4, <1>5, ActsAlone DEF RoundInv

LEMMA ExploreStepKeeps == ExploreInv /\ [ExploreNext]_exploreAllVars => ExploreInv'
<1> SUFFICES ASSUME ExploreInv, [ExploreNext]_exploreAllVars PROVE ExploreInv'
  OBVIOUS
<1>1. ASSUME NEW w \in Workers, InheritedStep(w) PROVE ExploreInv'
  BY <1>1, OutsideKeeps, ChunkKeeps, RoundFilterKeeps, RoundCommitKeeps, RoundInterruptedKeeps
  DEF InheritedStep
<1>2. CASE UNCHANGED exploreAllVars
  <2>1. TypeOK' /\ BoardSound' /\ ClausesSound'
    BY <1>2 DEF ExploreInv, TypeOK, BoardSound, ClausesSound, exploreAllVars, vars, searchVars,
                solverVars, sharedVars
  <2>2. \A u \in Workers : RoundInv(u)'
    BY <1>2, RoundOfOthers
    DEF ExploreInv, SameSearch, SameKnowledge, SameRound, exploreAllVars, vars, searchVars,
        solverVars, exploreVars
  <2> QED BY <1>2, <2>1, <2>2 DEF ExploreInv, exploreAllVars, exploreVars
<1> QED
  BY <1>1, <1>2, XorStepKeeps, MaxSatStepKeeps, SolverKeepsRound, OthersPublishKeeps
  DEF ExploreNext, ExploreStep

LEMMA ExploreInitially == ExploreInit => ExploreInv
<1> SUFFICES ASSUME ExploreInit PROVE ExploreInv
  OBVIOUS
<1>1. TypeOK /\ SearchInv
  BY SearchInit, TypeInit DEF ExploreInit
<1>2. ASSUME NEW w \in Workers PROVE RoundInv(w)
  <2>1. /\ pc[w] = "first" /\ chunk[w] = {} /\ cand[w] = {} /\ round[w] = NoRound
    BY DEF ExploreInit, Init
  <2>2. NoRound.softs = {} /\ NoRound.cores = {}
    BY DEF NoRound
  <2>3. RoundShape(w) /\ CoreShape(w) /\ ProgressInv(w)
    BY <2>1, <2>2 DEF RoundShape, CoreShape, ProgressInv, InRound
  <2> QED BY <1>1, <2>3 DEF RoundInv, SearchInv, WorkerInv, BaseInv
<1> QED BY <1>1, <1>2 DEF ExploreInv, SearchInv, ExploreInit

(* Whatever the rounds find, prove or abandon, the search stays right.     *)
THEOREM ExploreCorrect == ExploreSpec => []ExploreInv
BY ExploreInitially, ExploreStepKeeps, PTL DEF ExploreSpec

(* A literal proven by a unit core is a candidate until its round ends:    *)
(* the numbers that roundExhausted compares mean what they should          *)
(* (MaxSatBackbone.cpp).                                                   *)
THEOREM CoresStayCorrect == ExploreSpec => []CoresStay
<1>1. ExploreInv => CoresStay
  BY DEF ExploreInv, RoundInv, CoreShape, CoresStay
<1> QED BY <1>1, ExploreCorrect, PTL

(* No round loses or invents a backbone literal, not even an abandoned one. *)
THEOREM ExploreNothingLost == ExploreSpec => []NothingLost
<1>1. ExploreInv => NothingLost
  <2> SUFFICES ASSUME ExploreInv, NEW w \in Workers
               PROVE  /\ HasModel(w) => Backbone(phi) \subseteq backbone[w] \union cand[w]
                      /\ backbone[w] \subseteq Backbone(phi)
    BY DEF NothingLost
  <2>1. BaseInv(w) /\ backbone[w] \in SUBSET Lit
    BY DEF ExploreInv, RoundInv, TypeOK
  <2> QED BY <2>1 DEF BaseInv, BackboneKept, BackboneImplied, Backbone
<1> QED BY <1>1, ExploreCorrect, PTL

(* A core that its round pushed is not pushed again by the chunk loop, nor *)
(* by the commit of what the optimum leaves.                               *)
THEOREM ExplorePushedOnce == ExploreSpec => []PushedOnce
<1>1. ExploreInv => PushedOnce
  <2> SUFFICES ASSUME ExploreInv, NEW w \in Workers, pc[w] \in {"sync", "fixed", "unsat"}
               PROVE  todo[w] \intersect backbone[w] = {}
    BY DEF PushedOnce
  <2>1. RoundInv(w) /\ (~ InRound(w) \/ pc[w] = "unsat")
    BY DEF ExploreInv, RoundInv, RoundShape
  <2> QED BY <2>1, NoCores DEF WorkerInv, LoopShape, CommitShape
<1> QED BY <1>1, ExploreCorrect, PTL

(* The answer after the explorations is exact.                             *)
THEOREM ExploreResultCorrect == ExploreSpec => []ResultExact
<1>1. ExploreInv => ResultExact
  <2> SUFFICES ASSUME ExploreInv, NEW w \in Workers
               PROVE  /\ result[w] = "COMPLETE" =>
                            phi # {} /\ backbone[w] = Backbone(phi)
                      /\ result[w] = "UNSAT" => phi = {}
    BY DEF ResultExact
  <2>1. BaseInv(w) /\ backbone[w] \in SUBSET Lit
    BY DEF ExploreInv, RoundInv, TypeOK
  <2> QED BY <2>1 DEF BaseInv, AnswerShape, BackboneKept, BackboneImplied, ModelIsModel, Backbone
<1> QED BY <1>1, ExploreCorrect, PTL

(* The explorations leave no chunk behind, so that every call of the chunk *)
(* loop still decides a candidate.                                         *)
THEOREM ExploreCallsDecide == ExploreSpec => []CallsDecide
<1>1. ExploreInv => CallsDecide
  <2> SUFFICES ASSUME ExploreInv, NEW w \in Workers
               PROVE  /\ pc[w] \in {"select", "solve"} => cand[w] # {} /\ chunkSize[w] > 0
                      /\ pc[w] = "solve" => chunk[w] # {} /\ chunk[w] \subseteq cand[w]
                      /\ pc[w] = "filter" /\ todo[w] = {} /\ chunk[w] # {} =>
                           ~ (chunk[w] \subseteq cand[w])
    BY DEF CallsDecide
  <2>1. ProgressInv(w) /\ LoopShape(w)
    BY DEF ExploreInv, RoundInv, BaseInv
  <2> QED BY <2>1 DEF ProgressInv, LoopShape
<1> QED BY <1>1, ExploreCorrect, PTL
-----------------------------------------------------------------------------
(* Powers of two, quotients and bits. *)

(* A set of numbers has a smallest one: what a proof by induction needs.   *)
LEMMA SmallestOf ==
  ASSUME NEW X \in SUBSET Nat, X # {}
  PROVE  \E n \in X : \A m \in X : n <= m
<1> DEFINE Y == {0 .. n : n \in X}
<1>1. Y \subseteq FiniteSubsetsOf(Nat) /\ Y # {}
  <2>1. ASSUME NEW n \in X PROVE 0 .. n \in FiniteSubsetsOf(Nat)
    <3>1. n \in Int /\ 0 \in Int /\ 0 .. n \in SUBSET Nat
      OBVIOUS
    <3> QED BY <3>1, FS_Interval DEF FiniteSubsetsOf
  <2> QED BY <2>1
<1>2. PICK s \in Y : \A u \in Y : ~ (<< u, s >> \in StrictSubsetOrdering(Nat))
  <2> HIDE DEF Y
  <2> QED BY <1>1, FS_StrictSubsetOrderingWellFounded, WFMin
<1>3. PICK n \in X : s = 0 .. n
  OBVIOUS
<1>4. ASSUME NEW m \in X, m < n PROVE FALSE
  <2>1. 0 .. m \in Y /\ 0 .. m \in SUBSET Nat /\ 0 .. n \in SUBSET Nat
    OBVIOUS
  <2>2. n \in 0 .. n /\ n \notin 0 .. m /\ 0 .. m \subseteq 0 .. n
    BY <1>4
  <2> QED BY <1>2, <1>3, <2>1, <2>2 DEF StrictSubsetOrdering
<1> QED BY <1>4

(* The powers of two, counted as the subsets of an interval.               *)
LEMMA PowerIsSubsets ==
  ASSUME NEW n \in Nat
  PROVE  /\ IsFiniteSet(SUBSET (1 .. n)) /\ Cardinality(SUBSET (1 .. n)) = 2^n
         /\ 2^n \in Nat /\ 2^n > 0
<1>1. IsFiniteSet(1 .. n) /\ Cardinality(1 .. n) = n
  BY FS_Interval
<1>2. IsFiniteSet(SUBSET (1 .. n)) /\ Cardinality(SUBSET (1 .. n)) = 2^n
  BY <1>1, FS_SUBSET
<1>3. Cardinality(SUBSET (1 .. n)) \in Nat
  BY <1>2, FS_CardinalityType
<1>4. SUBSET (1 .. n) # {}
  OBVIOUS
<1>5. Cardinality(SUBSET (1 .. n)) # 0
  BY <1>2, <1>4, FS_EmptySet
<1> QED BY <1>2, <1>3, <1>5

LEMMA PowerDouble ==
  ASSUME NEW n \in Nat
  PROVE  2^(n + 1) = 2 * 2^n
<1> DEFINE A == SUBSET (1 .. n)
           B == {s \union {n + 1} : s \in A}
           f == [s \in A |-> s \union {n + 1}]
<1>1. IsFiniteSet(A) /\ Cardinality(A) = 2^n /\ 2^n \in Nat
  BY PowerIsSubsets
<1>2. ExistsBijection(A, B)
  <2>1. f \in Bijection(A, B)
    <3>1. f \in [A -> B]
      OBVIOUS
    <3>2. ASSUME NEW s \in A, NEW t \in A, f[s] = f[t] PROVE s = t
      <4>1. n + 1 \notin s /\ n + 1 \notin t
        OBVIOUS
      <4>2. s \union {n + 1} = t \union {n + 1}
        BY <3>2
      <4> QED BY <4>1, <4>2
    <3>3. \A t \in B : \E s \in A : f[s] = t
      OBVIOUS
    <3> HIDE DEF f, A, B
    <3> QED BY <3>1, <3>2, <3>3 DEF Bijection, Injection, Surjection, IsInjective
  <2> QED BY <2>1 DEF ExistsBijection
<1>3. IsFiniteSet(B) /\ Cardinality(B) = 2^n
  <2> HIDE DEF A, B
  <2> QED BY <1>1, <1>2, FS_Bijection
<1>4. A \cap B = {}
  <2> SUFFICES ASSUME NEW s \in A, NEW t \in A, s = t \union {n + 1} PROVE FALSE
    OBVIOUS
  <2>1. n + 1 \in s /\ n + 1 \notin 1 .. n
    OBVIOUS
  <2> QED BY <2>1
<1>5. A \cup B = SUBSET (1 .. n + 1)
  <2>1. ASSUME NEW s \in SUBSET (1 .. n + 1) PROVE s \in A \cup B
    <3>1. CASE n + 1 \in s
      <4>1. s \ {n + 1} \in A /\ s = (s \ {n + 1}) \union {n + 1}
        BY <3>1
      <4> QED BY <4>1
    <3>2. CASE n + 1 \notin s
      BY <3>2
    <3> QED BY <3>1, <3>2
  <2>2. ASSUME NEW s \in A \cup B PROVE s \in SUBSET (1 .. n + 1)
    <3>1. CASE s \in A
      BY <3>1
    <3>2. CASE s \in B
      <4>1. PICK t \in A : s = t \union {n + 1}
        BY <3>2
      <4> QED BY <4>1
    <3> QED BY <2>2, <3>1, <3>2
  <2> QED BY <2>1, <2>2
<1>6. Cardinality(SUBSET (1 .. n + 1)) = 2^(n + 1)
  <2>1. n + 1 \in Nat
    OBVIOUS
  <2> QED BY <2>1, PowerIsSubsets
<1>7. Cardinality(A \cup B) = 2^n + 2^n - Cardinality({})
  <2> HIDE DEF A, B
  <2>1. Cardinality(A \cup B) = Cardinality(A) + Cardinality(B) - Cardinality(A \cap B)
    BY <1>1, <1>3, FS_Union
  <2>2. Cardinality(A \cap B) = Cardinality({})
    BY <1>4, Zenon
  <2> QED BY <1>1, <1>3, <2>1, <2>2
<1>8. Cardinality({}) = 0
  BY FS_EmptySet
<1>9. Cardinality(A \cup B) = 2^(n + 1)
  BY <1>5, <1>6
<1> HIDE DEF A, B
<1> QED BY <1>1, <1>7, <1>8, <1>9

LEMMA PowerZero == 2^0 = 1
<1>1. SUBSET (1 .. 0) = {{}}
  OBVIOUS
<1>2. Cardinality(SUBSET (1 .. 0)) = 2^0
  BY PowerIsSubsets
<1>3. Cardinality({{}}) = 1
  BY FS_Singleton
<1> QED BY <1>1, <1>2, <1>3

LEMMA PowerSum ==
  ASSUME NEW a \in Nat, NEW b \in Nat
  PROVE  2^(a + b) = 2^a * 2^b
<1> DEFINE X == {k \in Nat : 2^(a + k) # 2^a * 2^k}
<1> SUFFICES ASSUME X # {} PROVE FALSE
  OBVIOUS
<1>1. PICK k \in X : \A j \in X : k <= j
  <2>1. X \in SUBSET Nat
    OBVIOUS
  <2> HIDE DEF X
  <2> QED BY <2>1, SmallestOf
<1>2. 2^a \in Nat
  BY PowerIsSubsets
<1>3. k # 0
  <2>1. a + 0 = a /\ 2^a * 1 = 2^a
    BY <1>2
  <2> QED BY <2>1, PowerZero
<1> DEFINE j == k - 1
<1>4. j \in Nat /\ k = j + 1 /\ a + j \in Nat /\ a + k = (a + j) + 1
  BY <1>3
<1>5. 2^(a + j) = 2^a * 2^j
  BY <1>1, <1>4
<1>6. 2^k = 2 * 2^j /\ 2^(a + k) = 2 * 2^(a + j) /\ 2^j \in Nat
  <2>1. 2^(j + 1) = 2 * 2^j /\ 2^j \in Nat
    BY <1>4, PowerDouble, PowerIsSubsets
  <2>2. 2^((a + j) + 1) = 2 * 2^(a + j)
    BY <1>4, PowerDouble
  <2> QED BY <1>4, <2>1, <2>2
<1>7. \A p, q \in Nat : 2 * (p * q) = p * (2 * q)
  OBVIOUS
<1> QED BY <1>2, <1>5, <1>6, <1>7

LEMMA PowerOrder ==
  ASSUME NEW a \in Nat, NEW b \in Nat, a < b
  PROVE  2^a < 2^b
<1>1. b - a - 1 \in Nat /\ b = (a + 1) + (b - a - 1) /\ a + 1 \in Nat
  OBVIOUS
<1>2. 2^b = 2^(a + 1) * 2^(b - a - 1)
  BY <1>1, PowerSum
<1>3. /\ 2^(a + 1) = 2 * 2^a /\ 2^a \in Nat /\ 2^a > 0
      /\ 2^(b - a - 1) \in Nat /\ 2^(b - a - 1) > 0
  BY <1>1, PowerDouble, PowerIsSubsets
<1>4. \A p, q \in Nat : p > 0 /\ q > 0 => p < (2 * p) * q
  OBVIOUS
<1> QED BY <1>2, <1>3, <1>4

(* A quotient and its remainder, and what they are unique for.             *)
LEMMA Divides ==
  ASSUME NEW x \in Nat, NEW c \in Nat, c > 0
  PROVE  /\ x \div c \in Nat /\ x % c \in Nat /\ x % c < c
         /\ x = c * (x \div c) + (x % c)
OBVIOUS

LEMMA QuotientIs ==
  ASSUME NEW x \in Nat, NEW c \in Nat, NEW q \in Nat, c > 0, c * q <= x, x < c * (q + 1)
  PROVE  x \div c = q /\ x % c = x - c * q
OBVIOUS

LEMMA BelowDivisor ==
  ASSUME NEW x \in Nat, NEW c \in Nat, x < c
  PROVE  x \div c = 0 /\ x % c = x
<1>1. c * 0 = 0 /\ c * (0 + 1) = c
  OBVIOUS
<1> QED BY <1>1, QuotientIs

(* Dividing by 2^(i + 1) is dividing by 2^i and then by 2.                 *)
LEMMA ShiftOnce ==
  ASSUME NEW x \in Nat, NEW i \in Nat
  PROVE  /\ x \div 2^i \in Nat /\ Bit(x, i) \in {0, 1}
         /\ x \div 2^i = 2 * (x \div 2^(i + 1)) + Bit(x, i)
<1> DEFINE c == 2^i
           q == x \div c
           p == q \div 2
<1>1. c \in Nat /\ c > 0 /\ 2^(i + 1) = 2 * c
  BY PowerIsSubsets, PowerDouble
<1> HIDE DEF c
<1>2. q \in Nat /\ x % c \in Nat /\ x % c < c /\ x = c * q + (x % c)
  BY <1>1, Divides
<1> HIDE DEF q
<1>3. p \in Nat /\ q % 2 \in {0, 1} /\ q = 2 * p + (q % 2)
  BY <1>2
<1> HIDE DEF p
<1>4. 2 * c \in Nat /\ 2 * c > 0 /\ (2 * c) * p <= x /\ x < (2 * c) * (p + 1)
  <2>1. CASE q = 2 * p
    BY <1>1, <1>2, <1>3, <2>1
  <2>2. CASE q = 2 * p + 1
    BY <1>1, <1>2, <1>3, <2>2
  <2> QED BY <1>3, <2>1, <2>2
<1>5. x \div (2 * c) = p
  BY <1>3, <1>4, QuotientIs
<1> QED BY <1>1, <1>2, <1>3, <1>5 DEF Bit, c, q

(* The numbers with the same first d of m bits are those with the same     *)
(* quotient by 2^(m - d).                                                  *)
LEMMA SameBits ==
  ASSUME NEW m \in Nat, NEW x \in 0 .. 2^m - 1, NEW y \in 0 .. 2^m - 1, NEW d \in 0 .. m
  PROVE  (\A j \in 0 .. d - 1 : Rhs(x, m, j) = Rhs(y, m, j))
           <=> x \div 2^(m - d) = y \div 2^(m - d)
<1> DEFINE Same(k) == \A j \in 0 .. k - 1 : Rhs(x, m, j) = Rhs(y, m, j)
           Close(k) == x \div 2^(m - k) = y \div 2^(m - k)
           X == {k \in 0 .. m : ~ (Same(k) <=> Close(k))}
<1> SUFFICES ASSUME X # {} PROVE FALSE
  OBVIOUS
<1>1. PICK k \in X : \A n \in X : k <= n
  <2>1. X \in SUBSET Nat
    OBVIOUS
  <2> HIDE DEF X
  <2> QED BY <2>1, SmallestOf
<1>2. 2^m \in Nat /\ 2^m > 0 /\ x \in Nat /\ y \in Nat
  BY PowerIsSubsets
<1>3. k # 0
  <2>1. Same(0)
    OBVIOUS
  <2>2. Close(0)
    <3>1. x < 2^m /\ y < 2^m /\ m - 0 = m
      BY <1>2
    <3> QED BY <1>2, <3>1, BelowDivisor
  <2>3. 0 \in X => ~ (Same(0) <=> Close(0))
    OBVIOUS
  <2> QED BY <1>1, <2>1, <2>2, <2>3
<1> DEFINE j == k - 1
           i == m - k
<1>4. j \in 0 .. m /\ j < k /\ i \in Nat /\ m - j = i + 1 /\ m - 1 - j = i
  BY <1>1, <1>3
<1>5. Same(j) <=> Close(j)
  <2>1. ASSUME j \in X PROVE FALSE
    <3>1. k <= j
      <4> HIDE DEF j, X
      <4> QED BY <1>1, <2>1
    <3> QED BY <1>1, <1>4, <3>1
  <2> HIDE DEF Same, Close, j
  <2> QED BY <1>4, <2>1
<1>6. Same(k) <=> Same(j) /\ Rhs(x, m, j) = Rhs(y, m, j)
  <2>1. 0 .. k - 1 = (0 .. j - 1) \union {j}
    BY <1>1, <1>3
  <2> HIDE DEF j, i
  <2> QED BY <2>1
<1>7. /\ x \div 2^i \in Nat /\ y \div 2^i \in Nat /\ x \div 2^(i + 1) \in Nat
      /\ y \div 2^(i + 1) \in Nat
      /\ Bit(x, i) \in {0, 1} /\ Bit(y, i) \in {0, 1}
      /\ x \div 2^i = 2 * (x \div 2^(i + 1)) + Bit(x, i)
      /\ y \div 2^i = 2 * (y \div 2^(i + 1)) + Bit(y, i)
  <2>1. i + 1 \in Nat
    BY <1>4
  <2> HIDE DEF i
  <2> QED BY <1>2, <1>4, <2>1, ShiftOnce
<1>8. Rhs(x, m, j) = Bit(x, i) /\ Rhs(y, m, j) = Bit(y, i)
  BY <1>4 DEF Rhs
<1>9. Close(j) <=> x \div 2^(i + 1) = y \div 2^(i + 1)
  BY <1>4
<1>10. Close(k) <=> Close(j) /\ Rhs(x, m, j) = Rhs(y, m, j)
  <2> HIDE DEF j
  <2>1. Close(k) <=> x \div 2^i = y \div 2^i
    OBVIOUS
  <2> HIDE DEF Close, i
  <2> QED BY <1>7, <1>8, <1>9, <2>1
<1>11. ~ (Same(k) <=> Close(k))
  BY <1>1
<1> HIDE DEF Same, Close
<1> QED BY <1>5, <1>6, <1>10, <1>11

(* The bounds of the block of c numbers that holds x.                      *)
LEMMA BlockIs ==
  ASSUME NEW x \in Nat, NEW c \in Nat, c > 0, NEW y \in Nat
  PROVE  /\ x - (x % c) \in Nat /\ x - (x % c) <= x /\ x < x - (x % c) + c
         /\ x \div c = y \div c <=> x - (x % c) <= y /\ y < x - (x % c) + c
<1> DEFINE q == x \div c
<1>1. q \in Nat /\ x % c \in Nat /\ x % c < c /\ x = c * q + (x % c)
  BY Divides
<1>2. y \div c \in Nat /\ y % c \in Nat /\ y % c < c /\ y = c * (y \div c) + (y % c)
  BY Divides
<1>3. c * q \in Nat /\ x - (x % c) = c * q /\ c * (q + 1) = c * q + c
  BY <1>1
<1>4. ASSUME c * q <= y, y < c * q + c PROVE y \div c = q
  <2>1. y < c * (q + 1)
    BY <1>3, <1>4
  <2> HIDE DEF q
  <2> QED BY <1>1, <1>4, <2>1, QuotientIs
<1> HIDE DEF q
<1> QED BY <1>1, <1>2, <1>3, <1>4 DEF q

(* The block of x ends within any multiple of its size that is above x.    *)
LEMMA BlockFits ==
  ASSUME NEW x \in Nat, NEW c \in Nat, c > 0, NEW k \in Nat, x < c * k
  PROVE  x - (x % c) + c <= c * k
<1> DEFINE q == x \div c
<1>1. q \in Nat /\ x % c \in Nat /\ x = c * q + (x % c)
  BY Divides
<1> HIDE DEF q
<1>2. ASSUME k <= q PROVE FALSE
  <2>1. q - k \in Nat /\ c * (q - k) \in Nat /\ c * q = c * k + c * (q - k)
    BY <1>1, <1>2
  <2> QED BY <1>1, <2>1
<1>3. k - (q + 1) \in Nat
  BY <1>1, <1>2
<1>4. c * (k - (q + 1)) \in Nat /\ c * k = c * (q + 1) + c * (k - (q + 1))
  BY <1>1, <1>3
<1>5. c * (q + 1) = c * q + c /\ c * q \in Nat
  BY <1>1
<1> QED BY <1>1, <1>4, <1>5

(* A number below 2^m has its lowest one below bit m.                      *)
LEMMA TrailingZerosIs ==
  ASSUME NEW m \in 0 .. WordBits, NEW n \in Nat, n > 0, n < 2^m
  PROVE  TrailingZeros(n) \in 0 .. m - 1
<1> USE ExplorationAssumption
<1> DEFINE X == {k \in Nat : n % (2^k) # 0}
           Lowest(i) == n % (2^i) = 0 /\ Bit(n, i) = 1
<1>1. m \in Nat /\ 2^m \in Nat
  BY PowerIsSubsets
<1>2. m \in X
  <2>1. n % (2^m) = n
    BY <1>1, BelowDivisor
  <2> QED BY <1>1, <2>1
<1>3. PICK k \in X : \A j \in X : k <= j
  <2>1. X \in SUBSET Nat
    OBVIOUS
  <2> HIDE DEF X
  <2> QED BY <1>2, <2>1, SmallestOf
<1>4. k \in Nat /\ k <= m /\ k # 0 /\ n % (2^k) # 0
  <2>1. n % 1 = 0
    OBVIOUS
  <2>2. k <= m
    BY <1>2, <1>3
  <2> QED BY <1>3, <2>1, <2>2, PowerZero
<1> DEFINE i == k - 1
           c == 2^i
<1>5. i \in Nat /\ i < m /\ i + 1 = k /\ i \in 0 .. WordBits
  BY <1>1, <1>4
<1>6. n % c = 0
  <2>1. ASSUME i \in X PROVE FALSE
    <3>1. k <= i
      <4> HIDE DEF X, i
      <4> QED BY <1>3, <2>1
    <3> QED BY <1>4, <3>1
  <2> QED BY <1>5, <2>1
<1>7. c \in Nat /\ c > 0 /\ 2^k = 2 * c
  BY <1>5, PowerIsSubsets, PowerDouble
<1>8. Bit(n, i) = 1
  <2>1. Bit(n, i) \in {0, 1} /\ n \div c = 2 * (n \div 2^k) + Bit(n, i)
    BY <1>5, ShiftOnce
  <2> DEFINE p == n \div 2^k
  <2>2. p \in Nat /\ n = 2^k * p + (n % (2^k)) /\ n % (2^k) \in Nat
    BY <1>7, Divides
  <2>3. n = c * (n \div c) + (n % c)
    BY <1>7, Divides
  <2> HIDE DEF p, c, i
  <2>4. CASE Bit(n, i) = 0
    <3>1. n \div c = 2 * p
      BY <2>1, <2>2, <2>4 DEF p
    <3>2. n = c * (2 * p)
      BY <1>6, <1>7, <2>2, <2>3, <3>1
    <3>3. c * (2 * p) = (2 * c) * p
      BY <1>7, <2>2
    <3>4. n = 2^k * p
      BY <1>7, <3>2, <3>3
    <3> QED BY <1>4, <1>7, <2>2, <3>4
  <2> QED BY <2>1, <2>4
<1>9. \E h \in 0 .. WordBits : Lowest(h)
  BY <1>5, <1>6, <1>8
<1>10. TrailingZeros(n) \in 0 .. WordBits /\ Lowest(TrailingZeros(n))
  <2> DEFINE t == CHOOSE h \in 0 .. WordBits : Lowest(h)
  <2>1. t \in 0 .. WordBits /\ Lowest(t)
    <3> HIDE DEF Lowest
    <3> QED BY <1>9
  <2> QED BY <2>1 DEF TrailingZeros
<1> DEFINE t == TrailingZeros(n)
<1> HIDE DEF t
<1>11. ASSUME t >= m PROVE FALSE
  <2>1. t \in Nat /\ n % (2^t) = 0
    BY <1>10 DEF t
  <2>2. 2^t \in Nat /\ 2^t >= 2^m
    <3>1. t = m \/ m < t
      BY <1>1, <1>11, <2>1
    <3>2. 2^t \in Nat /\ (m < t => 2^m < 2^t)
      BY <1>1, <2>1, PowerIsSubsets, PowerOrder
    <3> QED BY <1>1, <3>1, <3>2
  <2>3. n < 2^t
    BY <1>1, <2>2
  <2>4. n % (2^t) = n
    BY <2>2, <2>3, BelowDivisor
  <2> QED BY <2>1, <2>4
<1> QED BY <1>1, <1>10, <1>11 DEF t

-----------------------------------------------------------------------------
(* The search over the tree of the parities. *)

(* A node of the tree of worker w.                                         *)
NodeShape(w) ==
  LET m == Len(round[w].xors)
  IN /\ m \in 1 .. XorCount
     /\ round[w].mask \in 0 .. 2^m - 1
     /\ round[w].depth \in 0 .. m

(* The first leaf after the subtree at depth d.                            *)
SubtreeEnd(w, d) ==
  LET width == 2^(Len(round[w].xors) - d)
  IN round[w].mask - (round[w].mask % width) + width

(* The subtree is the block of leaves around the mask that ends there.     *)
LEMMA SubtreeIs ==
  ASSUME NEW w \in Workers, NodeShape(w), NEW d \in 1 .. Len(round[w].xors)
  PROVE  /\ SubtreeEnd(w, d) \in Nat /\ round[w].mask < SubtreeEnd(w, d)
         /\ SubtreeEnd(w, d) <= 2^Len(round[w].xors)
         /\ {x \in Leaves(w) : x < round[w].mask} \union Subtree(w, d)
              = {x \in Leaves(w) : x < SubtreeEnd(w, d)}
<1> USE ExplorationAssumption
<1> DEFINE m == Len(round[w].xors)
           k == round[w].mask
           c == 2^(m - d)
           lo == k - (k % c)
<1>1. m \in Nat /\ d \in 0 .. m /\ m - d \in Nat /\ d \in Nat /\ 2^m \in Nat
  BY PowerIsSubsets DEF NodeShape
<1>2. k \in 0 .. 2^m - 1 /\ k \in Nat
  BY <1>1 DEF NodeShape
<1>3. c \in Nat /\ c > 0 /\ 2^d \in Nat /\ 2^m = c * 2^d
  <2>1. m = (m - d) + d
    BY <1>1
  <2> QED BY <1>1, <2>1, PowerSum, PowerIsSubsets
<1>4. SubtreeEnd(w, d) = lo + c
  BY DEF SubtreeEnd
<1> HIDE DEF c, k
<1>5. lo \in Nat /\ lo <= k /\ k < lo + c
  BY <1>2, <1>3, BlockIs
<1>6. lo + c <= 2^m
  <2>1. k < c * 2^d
    BY <1>1, <1>2, <1>3
  <2> HIDE DEF m
  <2> QED BY <1>2, <1>3, <2>1, BlockFits
<1>7. ASSUME NEW x \in Leaves(w) PROVE x \in Subtree(w, d) <=> lo <= x /\ x < lo + c
  <2>1. x \in 0 .. 2^m - 1 /\ x \in Nat
    BY <1>1 DEF Leaves
  <2>2. x \in Subtree(w, d) <=> \A j \in 0 .. d - 1 : Rhs(x, m, j) = Rhs(k, m, j)
    BY DEF Subtree, k
  <2>3. (\A j \in 0 .. d - 1 : Rhs(x, m, j) = Rhs(k, m, j))
          <=> x \div 2^(m - d) = k \div 2^(m - d)
    <3> HIDE DEF m
    <3> QED BY <1>1, <1>2, <2>1, SameBits
  <2>4. k \div c = x \div c <=> lo <= x /\ x < lo + c
    BY <1>2, <1>3, <2>1, BlockIs
  <2> HIDE DEF lo
  <2> QED BY <2>2, <2>3, <2>4 DEF c
<1>8. Leaves(w) \subseteq Nat /\ Subtree(w, d) \subseteq Leaves(w)
  BY <1>1 DEF Leaves, Subtree
<1>9. {x \in Leaves(w) : x < k} \union Subtree(w, d) = {x \in Leaves(w) : x < lo + c}
  <2> HIDE DEF lo
  <2>1. ASSUME NEW x \in Leaves(w)
        PROVE  x < k \/ x \in Subtree(w, d) <=> x < lo + c
    BY <1>2, <1>3, <1>5, <1>7, <1>8
  <2> QED BY <1>8, <2>1
<1> QED BY <1>3, <1>4, <1>5, <1>6, <1>9 DEF k

(* The next node is the one that starts at the end of the subtree; the     *)
(* search is over when that is the end of the tree.                        *)
LEMMA NextNodeIs ==
  ASSUME NEW w \in Workers, NodeShape(w), NEW d \in 1 .. Len(round[w].xors)
  PROVE  LET m == Len(round[w].xors)
             next == SubtreeEnd(w, d)
         IN /\ next = 2^m => NextNode(w, d) = << 0, 0 >>
            /\ next < 2^m => NextNode(w, d)[1] = next /\ NextNode(w, d)[2] \in 1 .. m
<1> DEFINE m == Len(round[w].xors)
           next == SubtreeEnd(w, d)
           word == next % (2^WordBits)
           past == IF m = WordBits THEN word = 0 ELSE word \div (2^m) # 0
<1>1. m \in Nat /\ m \in 1 .. WordBits /\ m \in 0 .. WordBits /\ WordBits \in Nat
  BY ExplorationAssumption DEF NodeShape
<1>2. next \in Nat /\ next > 0 /\ next <= 2^m
  <2>1. 2^m \in Nat
    BY <1>1, PowerIsSubsets
  <2>2. round[w].mask \in Nat
    BY <2>1 DEF NodeShape
  <2> QED BY <2>2, SubtreeIs
<1>3. NextNode(w, d) = IF past THEN << 0, 0 >>
                       ELSE << word, IF Adaptive[w] THEN m - TrailingZeros(word) ELSE m >>
  BY DEF NextNode, SubtreeEnd
<1> SUFFICES /\ next = 2^m => NextNode(w, d) = << 0, 0 >>
             /\ next < 2^m => NextNode(w, d)[1] = next /\ NextNode(w, d)[2] \in 1 .. m
  OBVIOUS
<1> HIDE DEF next, m
<1>4. 2^m \in Nat /\ 2^m > 0 /\ 2^WordBits \in Nat /\ (m # WordBits => 2^m < 2^WordBits)
  <2>1. 2^m \in Nat /\ 2^m > 0 /\ 2^WordBits \in Nat
    BY <1>1, PowerIsSubsets
  <2>2. m # WordBits => 2^m < 2^WordBits
    <3>1. m # WordBits => m < WordBits
      BY <1>1
    <3> QED BY <1>1, <3>1, PowerOrder
  <2> QED BY <2>1, <2>2
<1>5. ASSUME next < 2^WordBits PROVE word = next
  BY <1>2, <1>4, <1>5, BelowDivisor
<1>6. CASE next = 2^m
  <2>1. 2^m \div 2^m = 1 /\ 2^m % 2^m = 0
    <3>1. 2^m * 1 = 2^m /\ 2^m < 2^m * (1 + 1)
      BY <1>4
    <3> QED BY <1>4, <3>1, QuotientIs
  <2>2. past
    <3>1. CASE m = WordBits
      BY <1>6, <2>1, <3>1
    <3>2. CASE m # WordBits
      <4>1. word = 2^m
        BY <1>4, <1>5, <1>6, <3>2
      <4> HIDE DEF word
      <4> QED BY <2>1, <3>2, <4>1
    <3> QED BY <3>1, <3>2
  <2> HIDE DEF past, word
  <2> QED BY <1>3, <1>4, <1>6, <2>2
<1>7. CASE next < 2^m
  <2>1. word = next
    <3>1. next < 2^WordBits
      BY <1>2, <1>4, <1>7
    <3> QED BY <1>5, <3>1
  <2>2. ~ past
    <3>1. next \div 2^m = 0
      BY <1>2, <1>4, <1>7, BelowDivisor
    <3> HIDE DEF word
    <3> QED BY <1>2, <2>1, <3>1
  <2>3. TrailingZeros(next) \in 0 .. m - 1
    BY <1>1, <1>2, <1>7, TrailingZerosIs
  <2>4. NextNode(w, d) = << next, IF Adaptive[w] THEN m - TrailingZeros(next) ELSE m >>
    <3> HIDE DEF past, word
    <3> QED BY <1>3, <2>1, <2>2
  <2>5. (IF Adaptive[w] THEN m - TrailingZeros(next) ELSE m) \in 1 .. m
    BY <1>1, <2>3
  <2> HIDE DEF past, word
  <2> QED BY <1>2, <1>4, <1>7, <2>4, <2>5
<1> HIDE DEF past, word
<1> QED BY <1>6, <1>7

(* The leaves left behind are those before the mask; a model is only       *)
(* looked for at a node.                                                   *)
TreeShape(w) ==
  InRound(w) /\ stage[w] = "xor" =>
    /\ NodeShape(w)
    /\ pc[w] = "filter" => round[w].depth > 0
    /\ round[w].covered =
         IF round[w].depth = 0 THEN Leaves(w) ELSE {x \in Leaves(w) : x < round[w].mask}

TreeInv == \A w \in Workers : TreeShape(w)

LEMMA TreeOfOthers ==
  ASSUME NEW u \in Workers, TreeShape(u), SameRound(u),
         InRound(u) /\ stage[u] = "xor" /\ pc'[u] = "filter" => pc[u] = "filter"
  PROVE  TreeShape(u)'
BY DEF TreeShape, SameRound, InRound, NodeShape, Leaves

(* Skipping a subtree leaves the leaves before its end behind.             *)
LEMMA SkipKeepsTree ==
  ASSUME ExploreInv, NEW w \in Workers, InRound(w), stage[w] = "xor", TreeShape(w),
         NEW d \in 1 .. Len(round[w].xors), round[w].depth > 0,
         Skip(w, d), UNCHANGED stage, pc'[w] = "round"
  PROVE  TreeShape(w)'
<1> DEFINE m == Len(round[w].xors)
           next == SubtreeEnd(w, d)
           n == NextNode(w, d)
<1>1. /\ DOMAIN round[w] = DOMAIN NoRound /\ NodeShape(w) /\ m \in Nat /\ 2^m \in Nat
      /\ round[w].covered = {x \in Leaves(w) : x < round[w].mask}
  <2>1. NodeShape(w) /\ m \in Nat
    BY ExplorationAssumption DEF TreeShape, NodeShape
  <2>2. round[w].covered = {x \in Leaves(w) : x < round[w].mask}
    BY DEF TreeShape
  <2>3. DOMAIN round[w] = DOMAIN NoRound
    BY DEF ExploreInv, RoundInv, RoundShape
  <2> QED BY <2>1, <2>2, <2>3, PowerIsSubsets
<1>2. /\ next \in Nat /\ round[w].mask < next /\ next <= 2^m
      /\ {x \in Leaves(w) : x < round[w].mask} \union Subtree(w, d)
           = {x \in Leaves(w) : x < next}
  BY <1>1, SubtreeIs
<1>3. /\ next = 2^m => n = << 0, 0 >>
      /\ next < 2^m => n[1] = next /\ n[2] \in 1 .. m
  BY <1>1, NextNodeIs
<1>4. /\ round'[w].softs = round[w].softs /\ round'[w].xors = round[w].xors
      /\ round'[w].mask = n[1] /\ round'[w].depth = n[2]
      /\ round'[w].covered = round[w].covered \union Subtree(w, d)
  BY <1>1, SetRoundEffect DEF Skip, SetRound, ExploreInv, NoRound
<1>5. round'[w].covered = {x \in Leaves(w) : x < next} /\ Leaves(w)' = Leaves(w)
  BY <1>1, <1>2, <1>4 DEF Leaves
<1>6. Leaves(w) = 0 .. 2^m - 1 /\ m \in 1 .. XorCount
  BY <1>1 DEF Leaves, NodeShape
<1> HIDE DEF next, n
<1>7. CASE next = 2^m
  <2>1. n[1] = 0 /\ n[2] = 0
    BY <1>3, <1>7
  <2>2. {x \in Leaves(w) : x < next} = Leaves(w)
    BY <1>1, <1>6, <1>7
  <2>3. NodeShape(w)'
    BY <1>1, <1>2, <1>4, <1>6, <1>7, <2>1 DEF NodeShape
  <2> QED BY <1>4, <1>5, <2>1, <2>2, <2>3 DEF TreeShape
<1>8. CASE next < 2^m
  <2>1. n[1] = next /\ n[2] \in 1 .. m
    BY <1>3, <1>8
  <2>2. NodeShape(w)'
    BY <1>1, <1>2, <1>4, <1>6, <1>8, <2>1 DEF NodeShape
  <2>3. n[2] # 0
    BY <2>1
  <2> QED BY <1>4, <1>5, <2>1, <2>2, <2>3 DEF TreeShape
<1> QED BY <1>1, <1>2, <1>7, <1>8

LEMMA InheritedKeepsTree ==
  ASSUME ExploreInv, TreeInv, NEW w \in Workers, InheritedStep(w)
  PROVE  TreeInv'
<1>1. TypeOK /\ \A u \in Workers : TreeShape(u) /\ SameRound(u)
  BY DEF ExploreInv, TreeInv, InheritedStep, exploreVars, SameRound
<1>2. CASE CommonStep(w) /\ ~ InRound(w)
  <2>1. \A u \in Workers : u # w => pc'[u] = pc[u]
    BY <1>1, <1>2, CommonStepOthers DEF SameSearch
  <2> QED BY <1>1, <1>2, <2>1, TreeOfOthers DEF TreeInv
<1>3. CASE SelectChunk(w) /\ stage[w] = "chunks"
  <2>1. \A u \in Workers : u # w => pc'[u] = pc[u]
    BY <1>1, <1>3 DEF SelectChunk, ConstrainWith, Goto, TypeOK
  <2> QED BY <1>1, <1>3, <2>1, TreeOfOthers DEF TreeInv
<1>4. CASE \E l \in Lit : FilterLiteral(w, l) \/ CommitLiteral(w, l)
  <2>1. pc' = pc
    BY <1>4 DEF FilterLiteral, CommitLiteral
  <2> QED BY <1>1, <2>1, TreeOfOthers DEF TreeInv
<1>5. CASE CallInterrupted(w)
  <2>1. pc' = [pc EXCEPT ![w] = "done"]
    BY <1>5 DEF CallInterrupted, Return, Goto
  <2>2. \A u \in Workers : pc'[u] = pc[u] \/ pc'[u] = "done"
    BY <1>1, <2>1 DEF TypeOK
  <2> QED BY <1>1, <2>2, TreeOfOthers DEF TreeInv
<1> QED BY <1>2, <1>3, <1>4, <1>5 DEF InheritedStep

(* The other workers of a step of a round.                                 *)
LEMMA TreeAlone ==
  ASSUME ExploreInv, TreeInv, NEW w \in Workers, TreeShape(w)',
         \A u \in Workers \ {w} : SameRound(u), NEW p, pc' = [pc EXCEPT ![w] = p]
  PROVE  TreeInv'
<1>1. \A u \in Workers \ {w} : pc'[u] = pc[u]
  BY DEF ExploreInv, TypeOK
<1>2. \A u \in Workers \ {w} : TreeShape(u)'
  BY <1>1, TreeOfOthers DEF TreeInv
<1> QED BY <1>2 DEF TreeInv

LEMMA XorStepKeepsTree ==
  ASSUME ExploreInv, TreeInv, NEW w \in Workers, XorStep(w)
  PROVE  TreeInv'
<1>1. /\ TypeOK /\ RoundInv(w) /\ DOMAIN round[w] = DOMAIN NoRound /\ TreeShape(w)
      /\ pc[w] = "round" => InRound(w)
      /\ pc = [pc EXCEPT ![w] = pc[w]]
  BY DEF ExploreInv, RoundInv, RoundShape, TreeInv, TypeOK
<1>2. ASSUME NEW b, EndRound(w, b) PROVE TreeInv'
  <2>1. ~ InRound(w)'
    BY <1>2, EndRoundEffect DEF InRound, NoRound
  <2> QED BY <1>2, <2>1, EndRoundEffect, TreeAlone DEF TreeShape
<1>3. CASE StartXorRound(w)
  <2>1. PICK xs \in Draws(w) :
          \/ xs = << >> /\ EndRound(w, FALSE)
          \/ /\ xs # << >>
             /\ SetRound(w, [NoRound EXCEPT !.softs = cand[w], !.xors = xs,
                                            !.depth = FirstDepth(w, xs)])
             /\ Goto(w, "round")
             /\ UNCHANGED << result, stage, rounds >>
    BY <1>3 DEF StartXorRound
  <2>2. CASE /\ xs # << >>
             /\ SetRound(w, [NoRound EXCEPT !.softs = cand[w], !.xors = xs,
                                            !.depth = FirstDepth(w, xs)])
             /\ Goto(w, "round")
             /\ UNCHANGED << result, stage, rounds >>
    <3> DEFINE r == [NoRound EXCEPT !.softs = cand[w], !.xors = xs,
                                    !.depth = FirstDepth(w, xs)]
    <3>1. /\ r.xors = xs /\ r.mask = 0 /\ r.depth = FirstDepth(w, xs) /\ r.covered = {}
      BY DEF NoRound
    <3>2. SetRound(w, r) /\ UNCHANGED stage /\ pc' = [pc EXCEPT ![w] = "round"]
      BY <2>2 DEF Goto
    <3> HIDE DEF r
    <3>3. round'[w] = r /\ pc'[w] = "round" /\ \A u \in Workers \ {w} : SameRound(u)
      BY <1>1, <3>2, SetRoundEffect DEF TypeOK
    <3>4. Len(xs) \in 1 .. XorCount
      <4>1. PICK k \in 0 .. XorCount : xs \in [1 .. k -> SUBSET {VarOf(l) : l \in cand[w]}]
        BY DEF Draws
      <4>2. k # 0
        BY <2>2, <4>1
      <4>3. Len(xs) = k
        BY <4>1, ExplorationAssumption
      <4> QED BY <4>2, <4>3, ExplorationAssumption
    <3>5. Len(xs) \in Nat /\ 2^Len(xs) \in Nat /\ 2^Len(xs) > 0
      <4>1. Len(xs) \in Nat
        BY <3>4, ExplorationAssumption
      <4> QED BY <4>1, PowerIsSubsets
    <3>6. FirstDepth(w, xs) \in 1 .. Len(xs)
      BY <3>4, <3>5 DEF FirstDepth
    <3>7. NodeShape(w)'
      BY <3>1, <3>3, <3>4, <3>5, <3>6 DEF NodeShape
    <3>8. round'[w].depth # 0 /\ {x \in Leaves(w)' : x < round'[w].mask} = {}
      BY <3>1, <3>3, <3>5, <3>6 DEF Leaves
    <3>9. TreeShape(w)'
      BY <3>1, <3>3, <3>7, <3>8 DEF TreeShape
    <3> QED BY <3>2, <3>3, <3>9, TreeAlone
  <2> QED BY <1>2, <2>1, <2>2
<1>4. CASE NodeSat(w)
  <2>1. /\ pc' = [pc EXCEPT ![w] = "filter"] /\ stage' = stage /\ round' = round
        /\ round[w].depth > 0
    BY <1>4 DEF NodeSat, AtNode, UseModel, Goto
  <2>2. TreeShape(w)'
    BY <1>1, <2>1 DEF TreeShape, InRound, NodeShape, Leaves
  <2> QED BY <2>1, <2>2, TreeAlone DEF SameRound
<1>5. ASSUME NEW d \in 1 .. Len(round[w].xors), Skip(w, d), InRound(w), stage[w] = "xor",
             round[w].depth > 0, pc' = [pc EXCEPT ![w] = "round"], UNCHANGED stage
      PROVE  TreeInv'
  <2>1. \A u \in Workers \ {w} : SameRound(u)
    BY <1>5, SetRoundEffect DEF Skip
  <2>2. TreeShape(w)'
    BY <1>1, <1>5, SkipKeepsTree DEF TypeOK
  <2> QED BY <1>5, <2>1, <2>2, TreeAlone
<1>6. ASSUME InRound(w), stage[w] = "xor"
      PROVE  /\ NodeShape(w) /\ Len(round[w].xors) \in Nat
             /\ \A d \in 1 .. round[w].depth : d \in 1 .. Len(round[w].xors)
             /\ round[w].depth > 0 => round[w].depth \in 1 .. round[w].depth
  <2> DEFINE m == Len(round[w].xors)
             k == round[w].depth
  <2>1. NodeShape(w) /\ m \in 1 .. XorCount /\ k \in 0 .. m
    BY <1>1, <1>6 DEF TreeShape, NodeShape
  <2>2. XorCount \in Nat
    BY ExplorationAssumption
  <2> HIDE DEF m, k
  <2>3. m \in Nat /\ k \in Nat /\ k <= m
    BY <2>1, <2>2
  <2>4. /\ \A d \in 1 .. k : d \in 1 .. m
        /\ k > 0 => k \in 1 .. k
    BY <2>3
  <2> QED BY <2>1, <2>3, <2>4 DEF m, k
<1>7. CASE NodeFiltered(w)
  <2>1. /\ pc[w] = "filter" /\ InRound(w) /\ stage[w] = "xor" /\ UNCHANGED stage
        /\ pc' = [pc EXCEPT ![w] = "round"] /\ round[w].depth > 0
    BY <1>1, <1>7 DEF NodeFiltered, Goto, TreeShape
  <2>2. CASE Skip(w, round[w].depth)
    BY <1>5, <1>6, <2>1, <2>2
  <2>3. CASE /\ round[w].depth < Len(round[w].xors)
             /\ SetRound(w, [round[w] EXCEPT !.depth = @ + 1])
    <3> DEFINE r == [round[w] EXCEPT !.depth = @ + 1]
    <3>1. /\ r.depth = round[w].depth + 1 /\ r.softs = round[w].softs
          /\ r.xors = round[w].xors /\ r.mask = round[w].mask
          /\ r.covered = round[w].covered
      BY <1>1 DEF NoRound
    <3>2. SetRound(w, r)
      BY <2>3
    <3> HIDE DEF r
    <3>3. round'[w] = r /\ pc'[w] = "round" /\ \A u \in Workers \ {w} : SameRound(u)
      BY <1>1, <2>1, <3>2, SetRoundEffect DEF TypeOK
    <3>4. NodeShape(w)'
      BY <1>6, <2>1, <2>3, <3>1, <3>3 DEF NodeShape
    <3>5. round[w].depth # 0 /\ round'[w].depth # 0
      BY <1>6, <2>1, <3>1, <3>3 DEF NodeShape
    <3>6. Leaves(w)' = Leaves(w)
      BY <3>1, <3>3 DEF Leaves
    <3>7. TreeShape(w)'
      BY <1>1, <2>1, <3>1, <3>3, <3>4, <3>5, <3>6 DEF TreeShape
    <3> QED BY <2>1, <3>3, <3>7, TreeAlone
  <2> QED BY <1>7, <2>2, <2>3 DEF NodeFiltered
<1>8. ASSUME AtNode(w), NEW d \in 1 .. round[w].depth, Skip(w, d),
             UNCHANGED << vars, stage, rounds >>
      PROVE  TreeInv'
  <2>1. /\ pc[w] = "round" /\ InRound(w) /\ stage[w] = "xor" /\ round[w].depth > 0
        /\ pc' = pc
    BY <1>1, <1>8 DEF AtNode, vars
  <2>2. d \in 1 .. Len(round[w].xors)
    BY <1>6, <2>1
  <2>3. pc' = [pc EXCEPT ![w] = "round"]
    BY <1>1, <2>1
  <2> QED BY <1>5, <1>8, <2>1, <2>2, <2>3
<1>9. CASE NodeUnknown(w)
  <2>1. InRound(w) /\ stage[w] = "xor" /\ round[w].depth > 0
    BY <1>1, <1>9 DEF NodeUnknown, AtNode
  <2> QED BY <1>6, <1>8, <1>9, <2>1 DEF NodeUnknown
<1>10. CASE \E d \in 1 .. XorCount : NodeUnsat(w, d)
  BY <1>8, <1>10 DEF NodeUnsat
<1>11. CASE XorRoundDone(w)
  <2>1. CASE Return(w, "UNKNOWN") /\ SetRound(w, NoRound) /\ UNCHANGED << stage, rounds >>
    <3>1. pc' = [pc EXCEPT ![w] = "done"]
      BY <2>1 DEF Return, Goto
    <3>2. round'[w] = NoRound /\ \A u \in Workers \ {w} : SameRound(u)
      BY <2>1, SetRoundEffect
    <3>3. TreeShape(w)'
      BY <3>2 DEF TreeShape, InRound, NoRound
    <3> QED BY <3>1, <3>2, <3>3, TreeAlone
  <2> QED BY <1>2, <1>11, <2>1 DEF XorRoundDone
<1> QED BY <1>3, <1>4, <1>7, <1>9, <1>10, <1>11 DEF XorStep

(* A round of MaxSAT searches no tree.                                     *)
LEMMA MaxSatStepKeepsTree ==
  ASSUME ExploreInv, TreeInv, NEW w \in Workers, MaxSatStep(w)
  PROVE  TreeInv'
<1>1. TypeOK /\ "maxsat" # "xor" /\ pc = [pc EXCEPT ![w] = pc[w]]
  BY DEF ExploreInv, TypeOK
<1>2. ASSUME NEW b, EndRound(w, b) PROVE TreeInv'
  <2>1. ~ InRound(w)'
    BY <1>2, EndRoundEffect DEF InRound, NoRound
  <2> QED BY <1>2, <2>1, EndRoundEffect, TreeAlone DEF TreeShape
<1>3. ASSUME NEW r, SetRound(w, r), stage[w] = "maxsat", UNCHANGED stage,
             NEW p, pc' = [pc EXCEPT ![w] = p]
      PROVE  TreeInv'
  <2>1. stage'[w] = "maxsat" /\ \A u \in Workers \ {w} : SameRound(u)
    BY <1>3, SetRoundEffect
  <2>2. TreeShape(w)'
    BY <1>1, <2>1 DEF TreeShape
  <2> QED BY <1>3, <2>1, <2>2, TreeAlone
<1>4. CASE StartMaxSatRound(w)
  BY <1>3, <1>4 DEF StartMaxSatRound, Goto
<1>5. CASE RoundModel(w)
  BY <1>3, <1>5 DEF RoundModel, Optimizing, UseModel, Goto
<1>6. CASE RoundFiltered(w)
  BY <1>3, <1>6 DEF RoundFiltered, Goto
<1>7. CASE OtherAnswer(w)
  <2>1. pc' = [pc EXCEPT ![w] = pc[w]]
    BY <1>1, <1>7 DEF OtherAnswer, vars
  <2> QED BY <1>3, <1>7, <2>1 DEF OtherAnswer, Optimizing
<1>8. ASSUME NEW l \in Lit, UnitCore(w, l) PROVE TreeInv'
  <2>1. pc' = [pc EXCEPT ![w] = pc[w]]
    BY <1>1, <1>8 DEF UnitCore
  <2> QED BY <1>3, <1>8, <2>1 DEF UnitCore, Optimizing
<1>9. CASE AbandonRound(w)
  BY <1>2, <1>9 DEF AbandonRound
<1>10. CASE RoundOptimum(w)
  BY <1>2, <1>3, <1>10 DEF RoundOptimum, Optimizing, Goto
<1>11. CASE AllCommitted(w)
  BY <1>2, <1>11 DEF AllCommitted
<1> QED BY <1>4, <1>5, <1>6, <1>7, <1>8, <1>9, <1>10, <1>11 DEF MaxSatStep

LEMMA TreeStep ==
  ExploreInv /\ TreeInv /\ [ExploreNext]_exploreAllVars => TreeInv'
<1> SUFFICES ASSUME ExploreInv, TreeInv, [ExploreNext]_exploreAllVars PROVE TreeInv'
  OBVIOUS
<1>1. ASSUME pc' = pc, round' = round, stage' = stage PROVE TreeInv'
  BY <1>1, TreeOfOthers DEF TreeInv, SameRound
<1>2. ASSUME NEW w \in Workers, SolverStep(w) \/ Interrupt(w), UNCHANGED exploreVars
      PROVE  TreeInv'
  <2>1. pc' = pc
    BY <1>2, SolverStepBase DEF ExploreInv
  <2> QED BY <1>1, <1>2, <2>1 DEF exploreVars
<1>3. ASSUME NEW v \in Vars, NEW s \in Status, OthersPublish(v, s) PROVE TreeInv'
  BY <1>1, <1>3 DEF OthersPublish, exploreVars
<1>4. CASE UNCHANGED exploreAllVars
  BY <1>1, <1>4 DEF exploreAllVars, vars, exploreVars
<1> QED
  BY <1>2, <1>3, <1>4, InheritedKeepsTree, XorStepKeepsTree, MaxSatStepKeepsTree
  DEF ExploreNext, ExploreStep

(* The search over the parities of the XORs leaves each leaf behind once,  *)
(* from left to right, whatever the answers, and none at its end           *)
(* (XorSampler.hpp:56), in words of any width and for any number of XORs.  *)
THEOREM LeavesInOrderCorrect == ExploreSpec => []LeavesInOrder
<1>1. ExploreInit => TreeInv
  BY DEF ExploreInit, TreeInv, TreeShape, InRound, NoRound
<1>2. ExploreInv /\ TreeInv => LeavesInOrder
  BY DEF TreeInv, TreeShape, LeavesInOrder
<1> QED BY <1>1, <1>2, TreeStep, ExploreCorrect, PTL DEF ExploreSpec
-----------------------------------------------------------------------------
(* Types. *)

(* Only a round of XORs uses the tree.                                     *)
RoundTyped(r, w) ==
  /\ r.cores \subseteq r.softs /\ r.before \subseteq Lit /\ r.calls \in 0 .. Patience[w]
  /\ r.softs = {} \/ stage[w] # "xor" => r.xors = << >> /\ r.mask = 0 /\ r.depth = 0

RoundsTyped ==
  /\ stage \in [Workers -> {"xor", "maxsat", "chunks"}]
  /\ rounds \in [Workers -> Nat]
  /\ \A w \in Workers : RoundTyped(round[w], w)

LEMMA NoRoundTyped ==
  ASSUME NEW w \in Workers
  PROVE  RoundTyped(NoRound, w) /\ RoundTyped(NoRound, w)'
BY ExplorationAssumption DEF RoundTyped, NoRound

LEMMA EndRoundTyped ==
  ASSUME ExploreInv, RoundsTyped, NEW w \in Workers, NEW b, EndRound(w, b)
  PROVE  RoundsTyped'
<1>1. /\ round'[w] = NoRound
      /\ \A u \in Workers \ {w} : round'[u] = round[u] /\ stage'[u] = stage[u]
  BY EndRoundEffect DEF SameRound
<1>2. stage' \in [Workers -> {"xor", "maxsat", "chunks"}] /\ rounds' \in [Workers -> Nat]
  BY DEF EndRound, RoundsTyped, StageAfter
<1>3. \A u \in Workers \ {w} : RoundTyped(round[u], u)'
  BY <1>1 DEF RoundsTyped, RoundTyped
<1>4. RoundTyped(round[w], w)'
  BY <1>1, NoRoundTyped DEF RoundTyped
<1> QED BY <1>2, <1>3, <1>4 DEF RoundsTyped

LEMMA SetRoundTyped ==
  ASSUME ExploreInv, RoundsTyped, NEW w \in Workers, NEW r, SetRound(w, r),
         RoundTyped(r, w), UNCHANGED << stage, rounds >>
  PROVE  RoundsTyped'
<1>1. round'[w] = r /\ \A u \in Workers \ {w} : round'[u] = round[u]
  BY SetRoundEffect DEF SameRound
<1>2. \A u \in Workers : RoundTyped(round[u], u)'
  BY <1>1 DEF RoundsTyped, RoundTyped
<1> QED BY <1>2 DEF RoundsTyped

LEMMA CallsBounded ==
  ASSUME NEW w \in Workers, NEW n \in 0 .. Patience[w]
  PROVE  CallsAfter(w, n) \in 0 .. Patience[w]
BY ExplorationAssumption DEF CallsAfter

LEMMA XorStepTyped ==
  ASSUME ExploreInv, RoundsTyped, NEW w \in Workers, XorStep(w)
  PROVE  RoundsTyped'
<1>1. /\ DOMAIN round[w] = DOMAIN NoRound /\ RoundTyped(round[w], w)
      /\ pc[w] = "round" => InRound(w)
      /\ pc[w] = "select" => cand[w] # {}
  BY DEF ExploreInv, RoundInv, RoundShape, RoundsTyped, ProgressInv, BaseInv, LoopShape
<1>2. CASE StartXorRound(w)
  <2>1. PICK xs \in Draws(w) :
          \/ xs = << >> /\ EndRound(w, FALSE)
          \/ /\ xs # << >>
             /\ SetRound(w, [NoRound EXCEPT !.softs = cand[w], !.xors = xs,
                                            !.depth = FirstDepth(w, xs)])
             /\ Goto(w, "round")
             /\ UNCHANGED << result, stage, rounds >>
    BY <1>2 DEF StartXorRound
  <2> DEFINE r == [NoRound EXCEPT !.softs = cand[w], !.xors = xs, !.depth = FirstDepth(w, xs)]
  <2>2. r.softs = cand[w] /\ r.cores = {} /\ r.before = {} /\ r.calls = 0
    BY DEF NoRound
  <2> HIDE DEF r
  <2>3. RoundTyped(r, w)
    BY <1>1, <1>2, <2>2, ExplorationAssumption DEF RoundTyped, StartXorRound
  <2>4. (SetRound(w, r) /\ UNCHANGED << stage, rounds >>) \/ EndRound(w, FALSE)
    BY <2>1 DEF r
  <2> QED BY <2>3, <2>4, SetRoundTyped, EndRoundTyped
<1>3. CASE NodeSat(w)
  <2>1. UNCHANGED << round, stage, rounds >>
    BY <1>3 DEF NodeSat, UseModel
  <2> QED BY <2>1 DEF RoundsTyped, RoundTyped
<1>4. ASSUME NEW d, Skip(w, d), InRound(w), stage[w] = "xor", UNCHANGED << stage, rounds >>
      PROVE  RoundsTyped'
  <2> DEFINE r == [round[w] EXCEPT !.mask = NextNode(w, d)[1], !.depth = NextNode(w, d)[2],
                                   !.covered = @ \union Subtree(w, d)]
  <2>1. /\ r.softs = round[w].softs /\ r.cores = round[w].cores
        /\ r.before = round[w].before /\ r.calls = round[w].calls
    BY <1>1 DEF NoRound
  <2>2. SetRound(w, r)
    BY <1>4 DEF Skip
  <2> HIDE DEF r
  <2>3. RoundTyped(r, w)
    BY <1>1, <1>4, <2>1 DEF RoundTyped, InRound
  <2> QED BY <1>4, <2>2, <2>3, SetRoundTyped
<1>5. CASE NodeFiltered(w)
  <2> DEFINE r == [round[w] EXCEPT !.depth = @ + 1]
  <2>1. /\ r.softs = round[w].softs /\ r.cores = round[w].cores
        /\ r.before = round[w].before /\ r.calls = round[w].calls
    BY <1>1 DEF NoRound
  <2>2. /\ SetRound(w, r) \/ Skip(w, round[w].depth)
        /\ InRound(w) /\ stage[w] = "xor" /\ UNCHANGED << stage, rounds >>
    BY <1>5 DEF NodeFiltered
  <2> HIDE DEF r
  <2>3. RoundTyped(r, w)
    BY <1>1, <2>1, <2>2 DEF RoundTyped, InRound
  <2> QED BY <1>4, <2>2, <2>3, SetRoundTyped
<1>6. CASE NodeUnknown(w) \/ \E d \in 1 .. XorCount : NodeUnsat(w, d)
  BY <1>1, <1>4, <1>6 DEF NodeUnknown, NodeUnsat, AtNode
<1>7. CASE XorRoundDone(w)
  BY <1>7, NoRoundTyped, SetRoundTyped, EndRoundTyped DEF XorRoundDone
<1> QED BY <1>2, <1>3, <1>5, <1>6, <1>7 DEF XorStep

LEMMA MaxSatStepTyped ==
  ASSUME ExploreInv, RoundsTyped, NEW w \in Workers, MaxSatStep(w)
  PROVE  RoundsTyped'
<1> DEFINE now == round[w]
<1>1. /\ DOMAIN now = DOMAIN NoRound /\ RoundTyped(now, w) /\ cand[w] \subseteq Lit
      /\ \A n \in 0 .. Patience[w] : CallsAfter(w, n) \in 0 .. Patience[w]
      /\ 0 \in 0 .. Patience[w] /\ "maxsat" # "xor"
  BY CallsBounded, ExplorationAssumption
  DEF ExploreInv, RoundInv, RoundShape, RoundsTyped, TypeOK
<1>2. CASE StartMaxSatRound(w)
  <2> DEFINE r == [NoRound EXCEPT !.softs = cand[w]]
  <2>1. /\ r.cores = {} /\ r.before = {} /\ r.calls = 0
        /\ r.xors = << >> /\ r.mask = 0 /\ r.depth = 0
    BY DEF NoRound
  <2>2. SetRound(w, r) /\ UNCHANGED << stage, rounds >>
    BY <1>2 DEF StartMaxSatRound
  <2> HIDE DEF r
  <2>3. RoundTyped(r, w)
    BY <1>1, <2>1 DEF RoundTyped
  <2> QED BY <2>2, <2>3, SetRoundTyped
<1>3. ASSUME NEW r, SetRound(w, r), stage[w] = "maxsat", UNCHANGED << stage, rounds >>,
             r.xors = now.xors, r.mask = now.mask, r.depth = now.depth, r.softs = now.softs,
             r.cores \subseteq r.softs, r.before \subseteq Lit, r.calls \in 0 .. Patience[w]
      PROVE  RoundsTyped'
  <2>1. RoundTyped(r, w)
    BY <1>1, <1>3 DEF RoundTyped
  <2> QED BY <1>3, <2>1, SetRoundTyped
<1>4. CASE RoundModel(w)
  <2> DEFINE r == [now EXCEPT !.before = cand[w]]
  <2>1. /\ r.xors = now.xors /\ r.mask = now.mask /\ r.depth = now.depth
        /\ r.softs = now.softs /\ r.cores = now.cores /\ r.before = cand[w]
        /\ r.calls = now.calls
    BY <1>1 DEF NoRound
  <2>2. SetRound(w, r) /\ stage[w] = "maxsat" /\ UNCHANGED << stage, rounds >>
    BY <1>4 DEF RoundModel, Optimizing, UseModel
  <2> HIDE DEF r
  <2> QED BY <1>1, <1>3, <2>1, <2>2 DEF RoundTyped
<1>5. CASE RoundFiltered(w)
  <2> DEFINE n == IF cand[w] # now.before THEN 0 ELSE now.calls
             r == [now EXCEPT
                     !.before = {},
                     !.calls = CallsAfter(w, IF cand[w] # round[w].before THEN 0 ELSE @)]
  <2>1. /\ r.xors = now.xors /\ r.mask = now.mask /\ r.depth = now.depth
        /\ r.softs = now.softs /\ r.cores = now.cores /\ r.before = {}
        /\ r.calls = CallsAfter(w, n)
    BY <1>1 DEF NoRound
  <2>2. SetRound(w, r) /\ stage[w] = "maxsat" /\ UNCHANGED << stage, rounds >>
    BY <1>5 DEF RoundFiltered
  <2>3. n \in 0 .. Patience[w]
    BY <1>1 DEF RoundTyped
  <2> HIDE DEF r, n
  <2> QED BY <1>1, <1>3, <2>1, <2>2, <2>3 DEF RoundTyped
<1>6. CASE OtherAnswer(w)
  <2> DEFINE r == [now EXCEPT !.calls = CallsAfter(w, @)]
  <2>1. /\ r.xors = now.xors /\ r.mask = now.mask /\ r.depth = now.depth
        /\ r.softs = now.softs /\ r.cores = now.cores /\ r.before = now.before
        /\ r.calls = CallsAfter(w, now.calls)
    BY <1>1 DEF NoRound
  <2>2. SetRound(w, r) /\ stage[w] = "maxsat" /\ UNCHANGED << stage, rounds >>
    BY <1>6 DEF OtherAnswer, Optimizing
  <2> HIDE DEF r
  <2> QED BY <1>1, <1>3, <2>1, <2>2 DEF RoundTyped
<1>7. ASSUME NEW l \in Lit, UnitCore(w, l) PROVE RoundsTyped'
  <2> DEFINE r == [now EXCEPT !.cores = @ \union {l}, !.calls = CallsAfter(w, @)]
  <2>1. /\ r.xors = now.xors /\ r.mask = now.mask /\ r.depth = now.depth
        /\ r.softs = now.softs /\ r.cores = now.cores \union {l} /\ r.before = now.before
        /\ r.calls = CallsAfter(w, now.calls)
    BY <1>1 DEF NoRound
  <2>2. /\ SetRound(w, r) /\ stage[w] = "maxsat" /\ UNCHANGED << stage, rounds >>
        /\ l \in now.softs
    BY <1>7 DEF UnitCore, Optimizing
  <2> HIDE DEF r
  <2> QED BY <1>1, <1>3, <2>1, <2>2 DEF RoundTyped
<1>8. CASE AbandonRound(w) \/ AllCommitted(w)
  BY <1>8, EndRoundTyped DEF AbandonRound, AllCommitted
<1>9. CASE RoundOptimum(w)
  <2> DEFINE r == [now EXCEPT !.cores = {}]
  <2>1. /\ r.xors = now.xors /\ r.mask = now.mask /\ r.depth = now.depth
        /\ r.softs = now.softs /\ r.cores = {} /\ r.before = now.before
        /\ r.calls = now.calls
    BY <1>1 DEF NoRound
  <2>2. /\ stage[w] = "maxsat"
        /\ \/ SetRound(w, r) /\ UNCHANGED << stage, rounds >>
           \/ \E b : EndRound(w, b)
    BY <1>9 DEF RoundOptimum, Optimizing
  <2> HIDE DEF r
  <2> QED BY <1>1, <1>3, <2>1, <2>2, EndRoundTyped DEF RoundTyped
<1> QED BY <1>2, <1>4, <1>5, <1>6, <1>7, <1>8, <1>9 DEF MaxSatStep

LEMMA TypedStep ==
  ExploreInv /\ RoundsTyped /\ [ExploreNext]_exploreAllVars => RoundsTyped'
<1> SUFFICES ASSUME ExploreInv, RoundsTyped, [ExploreNext]_exploreAllVars PROVE RoundsTyped'
  OBVIOUS
<1>1. CASE UNCHANGED exploreVars
  BY <1>1 DEF RoundsTyped, RoundTyped, exploreVars
<1>2. ASSUME NEW w \in Workers, InheritedStep(w) PROVE UNCHANGED exploreVars
  BY <1>2 DEF InheritedStep
<1>3. ASSUME NEW v \in Vars, NEW s \in Status, OthersPublish(v, s) PROVE UNCHANGED exploreVars
  BY <1>3 DEF OthersPublish
<1> QED
  BY <1>1, <1>2, <1>3, XorStepTyped, MaxSatStepTyped
  DEF ExploreNext, ExploreStep, exploreAllVars

(* Every variable of the explorations keeps its type: the node of the      *)
(* search is one of the tree, also where the mask is as wide as a word.    *)
THEOREM ExploreTypeCorrect == ExploreSpec => []ExploreTypeOK
<1>1. ExploreInit => TreeInv
  BY DEF ExploreInit, TreeInv, TreeShape, InRound, NoRound
<1>2. ExploreInit => RoundsTyped
  BY NoRoundTyped, ExplorationAssumption DEF ExploreInit, RoundsTyped, StageAfter
<1>3. ExploreInv /\ TreeInv /\ RoundsTyped => ExploreTypeOK
  <2> SUFFICES ASSUME ExploreInv, TreeInv, RoundsTyped, NEW w \in Workers
               PROVE  /\ DOMAIN round[w] = DOMAIN NoRound /\ round[w].softs \subseteq Lit
                      /\ round[w].mask \in Leaves(w)
                      /\ round[w].depth \in 0 .. Len(round[w].xors)
    BY DEF ExploreTypeOK, ExploreInv, RoundsTyped, RoundTyped
  <2>1. CASE InRound(w) /\ stage[w] = "xor"
    BY <2>1 DEF TreeInv, TreeShape, NodeShape, Leaves, ExploreInv, RoundInv, RoundShape
  <2>2. CASE ~ (InRound(w) /\ stage[w] = "xor")
    <3>1. round[w].xors = << >> /\ round[w].mask = 0 /\ round[w].depth = 0
      BY <2>2 DEF RoundsTyped, RoundTyped, InRound
    <3>2. Len(round[w].xors) = 0
      BY <3>1
    <3>3. 0 \in 0 .. 2^0 - 1
      BY PowerZero
    <3> QED BY <3>1, <3>2, <3>3 DEF Leaves, ExploreInv, RoundInv, RoundShape
  <2> QED BY <2>1, <2>2
<1> QED BY <1>1, <1>2, <1>3, TreeStep, TypedStep, ExploreCorrect, PTL DEF ExploreSpec
=============================================================================
