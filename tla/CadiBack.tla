------------------------------ MODULE CadiBack ------------------------------
(***************************************************************************)
(* The backbone search of CadiBackBase::solve, run by several workers of   *)
(* one process that share a candidate board (-bb-share-cand), backbone     *)
(* units (-bb-share-units) and learnt clauses (-bb-share-learnt).          *)
(*                                                                         *)
(* A worker's CaDiCaL is external.  What is modelled of it is its contract *)
(* with the code: the clauses it holds, an answer to each solve call under *)
(* one clause constraint, the literals it has fixed at the root, and a     *)
(* "flippable" that may only say yes when the flipped assignment is still  *)
(* a model.  Everything the code decides from these answers is modelled,   *)
(* with one step for each access to shared state.                          *)
(***************************************************************************)
EXTENDS CandidateBoard, FiniteSets

CONSTANTS Workers,        \* the backbone solvers of the process
          Formulas,       \* the formulas, each given by the set of its models
          NoModel,        \* the absence of a model
          Learnable,      \* bound: the clauses that conflict analysis may learn
          Order,          \* [Workers -> [Vars -> Nat]], the order of -bb-order
          Publishes,      \* [Workers -> SUBSET {"backbone", "free"}]
          Consumers,      \* the workers that read the board
          UnitSharers,    \* the workers that export their backbone units
          LearntSharers,  \* the workers that export learnt clauses
          UseFlip,        \* FALSE with -bb-no-flip
          ChunkRate,      \* [Workers -> Nat], K of -bb-chunk
          SizeMax,        \* the largest size_t
          InitialModel    \* [Workers -> SUBSET Lit], -model ({}: none)

ASSUME ConstantsAssumption ==
  /\ Formulas \subseteq SUBSET Assignments
  /\ NoModel \notin Assignments
  /\ Learnable \subseteq SUBSET Lit
  /\ Order \in [Workers -> [Vars -> Nat]]
  /\ Publishes \in [Workers -> SUBSET {"backbone", "free"}]
  /\ Consumers \subseteq Workers
  /\ UnitSharers \subseteq Workers
  /\ LearntSharers \subseteq Workers
  /\ UseFlip \in BOOLEAN
  /\ ChunkRate \in [Workers -> Nat]
  /\ SizeMax \in Nat \ {0}
  /\ InitialModel \in [Workers -> SUBSET Lit]
  /\ "board" \notin Workers

VARIABLES
  phi,        \* the models of the formula every worker loaded
  pc,         \* where each worker is in solve()
  cand,       \* candidates: the literals not decided yet
  todo,       \* the literals that the current loop has not visited yet
  backbone,   \* m_backbone
  chunk,      \* the candidates whose negations form the constraint
  chunkSize,  \* m_chunkSize
  sigma,      \* the model that solver->val reads
  clauses,    \* clauses the solver holds beside the formula (units, imports)
  fixed,      \* the literals fixed at the root of the solver
  exported,   \* the clauses each worker gave to the sharing strategies
  board,      \* the candidate board
  stop,       \* stopSolver
  result      \* the BackboneResult solve() returned, "none" before

searchVars == << cand, todo, backbone, chunk, chunkSize >>
solverVars == << sigma, clauses, fixed >>
sharedVars == << exported, board >>
vars == << phi, pc, searchVars, solverVars, sharedVars, stop, result >>

(* "round" is a call of an exploration (Exploration.tla).                  *)
PC == {"first", "retry", "filter", "loop", "sync", "fixed", "select",
       "round", "solve", "unsat", "done"}

TypeOK ==
  /\ phi \in SUBSET Assignments
  /\ pc \in [Workers -> PC]
  /\ cand \in [Workers -> SUBSET Lit]
  /\ todo \in [Workers -> SUBSET Lit]
  /\ backbone \in [Workers -> SUBSET Lit]
  /\ chunk \in [Workers -> SUBSET Lit]
  /\ chunkSize \in [Workers -> 0 .. SizeMax]
  /\ sigma \in [Workers -> Assignments \union {NoModel}]
  /\ clauses \in [Workers -> SUBSET SUBSET Lit]
  /\ fixed \in [Workers -> SUBSET Lit]
  /\ exported \in [Workers -> SUBSET SUBSET Lit]
  /\ board \in [Vars -> Status]
  /\ stop \in [Workers -> BOOLEAN]
  /\ result \in [Workers -> {"none", "COMPLETE", "UNSAT", "UNKNOWN"}]

(* m_chunkSize at the start of a search: K = 0 takes all the candidates. *)
StartSize(w) == IF ChunkRate[w] = 0 THEN SizeMax ELSE 1

Init ==
  /\ phi \in Formulas
  /\ pc = [w \in Workers |-> "first"]
  /\ cand = [w \in Workers |-> {}]
  /\ todo = [w \in Workers |-> {}]
  /\ backbone = [w \in Workers |-> {}]
  /\ chunk = [w \in Workers |-> {}]
  /\ chunkSize = [w \in Workers |-> 0]
  /\ sigma = [w \in Workers |-> NoModel]
  /\ clauses = [w \in Workers |-> {}]
  /\ fixed = [w \in Workers |-> {}]
  /\ exported = [w \in Workers |-> {}]
  /\ board = EmptyBoard
  /\ stop = [w \in Workers |-> FALSE]
  /\ result = [w \in Workers |-> "none"]

Goto(w, label) == pc' = [pc EXCEPT ![w] = label]

Return(w, r) ==
  /\ Goto(w, "done")
  /\ result' = [result EXCEPT ![w] = r]

(* The loops over a vector visit it in the order of the candidates; the    *)
(* scan after the first model precedes sortCandidates, any order there.    *)
IsNext(w, l) ==
  /\ l \in todo[w]
  /\ chunkSize[w] # 0 \/ pc[w] # "filter" =>
       \A k \in todo[w] : Order[w][VarOf(l)] <= Order[w][VarOf(k)]

Visit(w, l) == todo' = [todo EXCEPT ![w] = @ \ {l}]

Drop(w, l) == cand' = [cand EXCEPT ![w] = @ \ {l}]
-----------------------------------------------------------------------------
(* The solver (external): the models of what it holds, and what its calls *)
(* do between the steps of the code.                                       *)

Solver(w) == ModelsOf(phi, clauses[w])

Solving(w) == pc[w] \in {"first", "retry", "round", "solve"}

(* The chunk constraint is only used for decisions, so what is learnt is a *)
(* consequence of the clauses; learn() exports it.                         *)
LearntUnderConstraint(w, c) ==
  /\ Solving(w)
  /\ w \in LearntSharers
  /\ c \in Learnable \ exported[w]
  /\ \A m \in Solver(w) : (\E l \in chunk[w] : ~ Holds(m, l)) => Satisfies(m, c)
  /\ exported' = [exported EXCEPT ![w] = @ \union {c}]
  /\ UNCHANGED << phi, pc, searchVars, solverVars, board, stop, result >>

Learn(w, c) ==
  /\ Solving(w)
  /\ w \in LearntSharers
  /\ c \in Learnable \ exported[w]
  /\ \A m \in Solver(w) : Satisfies(m, c)
  /\ exported' = [exported EXCEPT ![w] = @ \union {c}]
  /\ UNCHANGED << phi, pc, searchVars, solverVars, board, stop, result >>

(* The sharing strategies may lose, delay, reorder or repeat a clause. *)
Import(w, c) ==
  /\ Solving(w)
  /\ \E u \in Workers \ {w} : c \in exported[u]
  /\ c \notin clauses[w]
  /\ clauses' = [clauses EXCEPT ![w] = @ \union {c}]
  /\ UNCHANGED << phi, pc, searchVars, sigma, fixed, sharedVars, stop, result >>

(* Root propagation, in a solve call or when a unit clause was added. *)
FixAtRoot(w, l) ==
  /\ Solving(w) \/ pc[w] \in {"sync", "unsat"}
  /\ l \notin fixed[w]
  /\ Implied(Solver(w), l)
  /\ fixed' = [fixed EXCEPT ![w] = @ \union {l}]
  /\ UNCHANGED << phi, pc, searchVars, sigma, clauses, sharedVars, stop, result >>

(* setSolverInterrupt, called by the working strategy at any moment. *)
Interrupt(w) ==
  /\ ~ stop[w]
  /\ result[w] = "none"
  /\ stop' = [stop EXCEPT ![w] = TRUE]
  /\ UNCHANGED << phi, pc, searchVars, solverVars, sharedVars, result >>
-----------------------------------------------------------------------------
(* The first model. *)

(* The models the first call may return: under the assumptions of -model,  *)
(* or of the formula alone when these failed.                              *)
FirstModels(w) ==
  IF pc[w] = "first"
  THEN {m \in Solver(w) : \A l \in InitialModel[w] : Holds(m, l)}
  ELSE Solver(w)

FirstModel(w) ==
  /\ pc[w] \in {"first", "retry"}
  /\ \E m \in FirstModels(w) :
       IF stop[w]
       THEN /\ Return(w, "UNKNOWN")
            /\ UNCHANGED << cand, todo, sigma >>
       ELSE /\ Goto(w, "filter")
            /\ sigma' = [sigma EXCEPT ![w] = m]
            /\ cand' = [cand EXCEPT ![w] = LiteralsOf(m)]
            /\ todo' = [todo EXCEPT ![w] = LiteralsOf(m)]
            /\ UNCHANGED result
  /\ UNCHANGED << phi, backbone, chunk, chunkSize, clauses, fixed, sharedVars, stop >>

(* Mutant: an assumption of -model is taken for a refutation. *)
FirstUnsatWithoutRetry(w) ==
  /\ pc[w] = "first"
  /\ FirstModels(w) = {}
  /\ Return(w, "UNSAT")
  /\ UNCHANGED << phi, searchVars, solverVars, sharedVars, stop >>

(* The plain call follows when an assumption failed.  An unsatisfiable     *)
(* formula may be refuted with or without the assumptions.                 *)
FirstUnsat(w) ==
  /\ pc[w] \in {"first", "retry"}
  /\ FirstModels(w) = {}
  /\ \/ /\ pc[w] = "first" /\ InitialModel[w] # {}
        /\ Goto(w, "retry")
        /\ UNCHANGED result
     \/ /\ Solver(w) = {}
        /\ Return(w, "UNSAT")
  /\ UNCHANGED << phi, searchVars, solverVars, sharedVars, stop >>

(* solve() of CaDiCaL answers 0 when terminate() saw the flag. *)
CallInterrupted(w) ==
  /\ Solving(w)
  /\ stop[w]
  /\ Return(w, "UNKNOWN")
  /\ UNCHANGED << phi, searchVars, solverVars, sharedVars, stop >>
-----------------------------------------------------------------------------
(* The chunk loop. *)

(* Mutant: flippable with the option reimply, which misses clauses. *)
ReimpliedFlip(w, l) == UseFlip

(* flippable may answer no for a literal that could be flipped. *)
MayFlip(w, l) == UseFlip /\ Flip(sigma[w], VarOf(l)) \in Solver(w)

(* Mutant: a free variable is not published. *)
KeepFreeVariable(w, v) == board' = board

(* addFreeVariable *)
AddFreeVariable(w, v) ==
  board' = IF "free" \in Publishes[w] THEN PublishFree(board, v) ELSE board

(* One literal of filterWithModel: dropped when false, and possibly when   *)
(* flippable, in the current model.                                        *)
FilterLiteral(w, l) ==
  /\ pc[w] = "filter"
  /\ IsNext(w, l)
  /\ Visit(w, l)
  /\ \E drop \in BOOLEAN :
       /\ drop => ~ Holds(sigma[w], l) \/ MayFlip(w, l)
       /\ ~ Holds(sigma[w], l) => drop
       /\ IF drop
          THEN Drop(w, l) /\ AddFreeVariable(w, VarOf(l))
          ELSE UNCHANGED << cand, board >>
  /\ UNCHANGED << phi, pc, backbone, chunk, chunkSize, solverVars, exported, stop, result >>

(* After the first model the chunk size starts, after another one onSat    *)
(* resets it: both leave StartSize (for K = 0 it never changes).           *)
FilterDone(w) ==
  /\ pc[w] = "filter" /\ todo[w] = {}
  /\ Goto(w, "loop")
  /\ chunkSize' = [chunkSize EXCEPT ![w] = StartSize(w)]
  /\ UNCHANGED << phi, cand, todo, backbone, chunk, solverVars, sharedVars, stop, result >>

(* Mutant: the board is only read by the workers that publish nothing. *)
LoopWithoutSync(w) ==
  /\ pc[w] = "loop"
  /\ \/ cand[w] = {} /\ Return(w, "COMPLETE") /\ UNCHANGED todo
     \/ cand[w] # {} /\ stop[w] /\ Return(w, "UNKNOWN") /\ UNCHANGED todo
     \/ /\ cand[w] # {} /\ ~ stop[w]
        /\ Goto(w, IF Publishes[w] = {} THEN "sync" ELSE "fixed")
        /\ todo' = [todo EXCEPT ![w] = cand[w]]
        /\ UNCHANGED result
  /\ UNCHANGED << phi, cand, backbone, chunk, chunkSize, solverVars, sharedVars, stop >>

(* The loop condition, the stop test, and the start of the next scan. *)
Loop(w) ==
  /\ pc[w] = "loop"
  /\ \/ cand[w] = {} /\ Return(w, "COMPLETE") /\ UNCHANGED todo
     \/ cand[w] # {} /\ stop[w] /\ Return(w, "UNKNOWN") /\ UNCHANGED todo
     \/ /\ cand[w] # {} /\ ~ stop[w]
        /\ Goto(w, IF w \in Consumers THEN "sync" ELSE "fixed")
        /\ todo' = [todo EXCEPT ![w] = cand[w]]
        /\ UNCHANGED result
  /\ UNCHANGED << phi, cand, backbone, chunk, chunkSize, solverVars, sharedVars, stop >>

(* Mutant: a backbone literal of the board is dropped like a free one. *)
SyncForgetsBackbone(w, l) ==
  /\ pc[w] = "sync"
  /\ IsNext(w, l)
  /\ Visit(w, l)
  /\ IF board[VarOf(l)] = "unknown" THEN UNCHANGED cand ELSE Drop(w, l)
  /\ UNCHANGED << phi, pc, backbone, chunk, chunkSize, solverVars, sharedVars, stop, result >>

(* One literal of syncWithBoard. *)
SyncLiteral(w, l) ==
  /\ pc[w] = "sync"
  /\ IsNext(w, l)
  /\ Visit(w, l)
  /\ CASE board[VarOf(l)] = "unknown" ->
            UNCHANGED << cand, backbone, clauses >>
       [] board[VarOf(l)] = "free" ->
            Drop(w, l) /\ UNCHANGED << backbone, clauses >>
       [] OTHER ->
            /\ Drop(w, l)
            /\ backbone' = [backbone EXCEPT ![w] = @ \union {l}]
            /\ clauses' = [clauses EXCEPT ![w] = @ \union {{l}}]
  /\ UNCHANGED << phi, pc, chunk, chunkSize, sigma, fixed, sharedVars, stop, result >>

SyncDone(w) ==
  /\ pc[w] = "sync" /\ todo[w] = {}
  /\ Goto(w, "fixed")
  /\ todo' = [todo EXCEPT ![w] = cand[w]]
  /\ UNCHANGED << phi, cand, backbone, chunk, chunkSize, solverVars, sharedVars, stop, result >>

(* addBackboneLiteral: record, publish, export the unit. *)
AddBackboneLiteral(w, l) ==
  /\ backbone' = [backbone EXCEPT ![w] = @ \union {l}]
  /\ board' = IF "backbone" \in Publishes[w] THEN PublishBackbone(board, l) ELSE board
  /\ exported' = IF w \in UnitSharers
                 THEN [exported EXCEPT ![w] = @ \union {{l}}]
                 ELSE exported

(* One literal of extractFixed: fixed true, fixed false, or kept. *)
ExtractLiteral(w, l) ==
  /\ pc[w] = "fixed"
  /\ IsNext(w, l)
  /\ Visit(w, l)
  /\ IF l \in fixed[w]
     THEN Drop(w, l) /\ AddBackboneLiteral(w, l)
     ELSE /\ cand' = [cand EXCEPT ![w] = IF Neg(l) \in fixed[w] THEN @ \ {l} ELSE @]
          /\ UNCHANGED << backbone, board, exported >>
  /\ UNCHANGED << phi, pc, chunk, chunkSize, solverVars, stop, result >>

ExtractDone(w) ==
  /\ pc[w] = "fixed" /\ todo[w] = {}
  /\ IF cand[w] = {}
     THEN Return(w, "COMPLETE")
     ELSE Goto(w, "select") /\ UNCHANGED result
  /\ UNCHANGED << phi, searchVars, solverVars, sharedVars, stop >>

(* The first n literals of S in the order of the candidates. *)
Prefix(w, S, n) ==
  {l \in S : Cardinality({k \in S : Order[w][VarOf(k)] < Order[w][VarOf(l)]}) < n}

(* The solve call starts under the constraint of the chunk c; an empty one *)
(* is left to the other solvers.                                           *)
ConstrainWith(w, c) ==
  /\ chunk' = [chunk EXCEPT ![w] = c]
  /\ Goto(w, IF c = {} THEN "loop" ELSE "solve")
  /\ UNCHANGED << phi, cand, todo, backbone, solverVars, sharedVars, stop, result >>

(* The default selectChunk. *)
SelectChunk(w) ==
  /\ pc[w] = "select"
  /\ ConstrainWith(w, Prefix(w, cand[w], chunkSize[w]))
  /\ UNCHANGED chunkSize

(* The models of the constraint: some literal of the chunk is false. *)
Refuting(w) == {m \in Solver(w) : \E l \in chunk[w] : ~ Holds(m, l)}

AnswerSat(w) ==
  /\ pc[w] = "solve"
  /\ \E m \in Refuting(w) : sigma' = [sigma EXCEPT ![w] = m]
  /\ Goto(w, "filter")
  /\ todo' = [todo EXCEPT ![w] = cand[w]]
  /\ UNCHANGED << phi, cand, backbone, chunk, chunkSize, clauses, fixed, sharedVars, stop, result >>

(* Mutant: onUnsat commits all the candidates, not only the chunk. *)
UnsatOfEveryCandidate(w) ==
  /\ pc[w] = "solve"
  /\ Refuting(w) = {}
  /\ Goto(w, "unsat")
  /\ todo' = [todo EXCEPT ![w] = cand[w]]
  /\ UNCHANGED << phi, cand, backbone, chunk, chunkSize, solverVars, sharedVars, stop, result >>

AnswerUnsat(w) ==
  /\ pc[w] = "solve"
  /\ Refuting(w) = {}
  /\ Goto(w, "unsat")
  /\ todo' = [todo EXCEPT ![w] = chunk[w]]
  /\ UNCHANGED << phi, cand, backbone, chunk, chunkSize, solverVars, sharedVars, stop, result >>

(* One literal of the loop of onUnsat: commitBackbone. *)
CommitLiteral(w, l) ==
  /\ pc[w] = "unsat"
  /\ IsNext(w, l)
  /\ Visit(w, l)
  /\ AddBackboneLiteral(w, l)
  /\ clauses' = [clauses EXCEPT ![w] = @ \union {{l}}]
  /\ UNCHANGED << phi, pc, cand, chunk, chunkSize, sigma, fixed, stop, result >>

(* Mutant: the product is not compared with the largest size_t. *)
UncheckedSize(w) ==
  IF ChunkRate[w] = 0 THEN chunkSize[w] ELSE chunkSize[w] * ChunkRate[w]

(* Mutant: the product of size_t wraps around. *)
WrappedSize(w) ==
  IF ChunkRate[w] = 0
  THEN chunkSize[w]
  ELSE (chunkSize[w] * ChunkRate[w]) % (SizeMax + 1)

(* m_chunkSize after an UNSAT answer: it saturates. *)
GrownSize(w) ==
  IF ChunkRate[w] = 0
  THEN chunkSize[w]
  ELSE IF chunkSize[w] > SizeMax \div ChunkRate[w]
       THEN SizeMax
       ELSE chunkSize[w] * ChunkRate[w]

(* The rest of onUnsat: removeCandidates, then the chunk size. *)
UnsatDone(w) ==
  /\ pc[w] = "unsat" /\ todo[w] = {}
  /\ cand' = [cand EXCEPT ![w] = @ \ chunk[w]]
  /\ chunkSize' = [chunkSize EXCEPT ![w] = GrownSize(w)]
  /\ Goto(w, "loop")
  /\ UNCHANGED << phi, todo, backbone, chunk, solverVars, sharedVars, stop, result >>
-----------------------------------------------------------------------------
(* The steps of a worker other than the choice of the chunk, which the     *)
(* variants of the search redefine.                                        *)
CommonStep(w) ==
  \/ FirstModel(w) \/ FirstUnsat(w) \/ CallInterrupted(w)
  \/ \E l \in Lit : FilterLiteral(w, l)
  \/ FilterDone(w)
  \/ Loop(w)
  \/ \E l \in Lit : SyncLiteral(w, l)
  \/ SyncDone(w)
  \/ \E l \in Lit : ExtractLiteral(w, l)
  \/ ExtractDone(w)
  \/ AnswerSat(w) \/ AnswerUnsat(w)
  \/ \E l \in Lit : CommitLiteral(w, l)
  \/ UnsatDone(w)

(* What CaDiCaL and the sharing strategies do on their own. *)
SolverStep(w) ==
  \/ \E c \in Learnable : Learn(w, c)
  \/ \E c \in UNION {exported[u] : u \in Workers} : Import(w, c)
  \/ \E l \in Lit : FixAtRoot(w, l)

WorkerStep(w) == CommonStep(w) \/ SelectChunk(w)

Next ==
  \E w \in Workers : WorkerStep(w) \/ SolverStep(w) \/ Interrupt(w)

Spec == Init /\ [][Next]_vars
-----------------------------------------------------------------------------
(* Properties.                                                             *)

HasModel(w) == sigma[w] # NoModel

(* A worker that claims completion computed exactly the backbone, whatever *)
(* it took from the board, from root-fixed literals and from the clauses   *)
(* of the others, and one that claims UNSAT is right: this is what main    *)
(* prints.                                                                 *)
ResultExact ==
  \A w \in Workers :
    /\ result[w] = "COMPLETE" => phi # {} /\ backbone[w] = Backbone(phi)
    /\ result[w] = "UNSAT" => phi = {}

(* No decision of any worker ever loses a backbone literal or invents one, *)
(* also between the steps of a loop and in a worker that is interrupted.   *)
NothingLost ==
  \A w \in Workers :
    /\ HasModel(w) => Backbone(phi) \subseteq backbone[w] \union cand[w]
    /\ backbone[w] \subseteq Backbone(phi)

(* Every status of the board is true of the formula, although each worker  *)
(* publishes from the models and refutations of its own solver.            *)
BoardSound == \A v \in Vars : StatusTrue(phi, v, board[v])

(* Every clause a solver holds or exported is a consequence of the formula *)
(* alone, although it was found under a chunk constraint.                  *)
ClausesSound ==
  \A w \in Workers : \A c \in clauses[w] \union exported[w] :
    \A m \in phi : Satisfies(m, c)

(* The assertions of the board and of syncWithBoard: what a worker is      *)
(* about to publish, or still considers, never contradicts the status that *)
(* another worker wrote first.                                             *)
BoardAgrees ==
  \A w \in Workers :
    /\ \A l \in cand[w] : board[VarOf(l)] # BackboneStatus(Neg(l))
    /\ \A l \in backbone[w] : board[VarOf(l)] \in {"unknown", BackboneStatus(l)}
    /\ pc[w] = "filter" =>
         \A l \in todo[w] : ~ Holds(sigma[w], l) =>
                              board[VarOf(l)] \in {"unknown", "free"}

(* A candidate is never fixed to false: extractFixed drops such a literal  *)
(* without telling anyone.                                                 *)
NoCandidateRefuted ==
  \A w \in Workers : \A l \in cand[w] : Neg(l) \notin fixed[w]

(* A literal is pushed to m_backbone (and exported) at most once: the ones *)
(* still to be visited are not in it.                                      *)
PushedOnce ==
  \A w \in Workers :
    pc[w] \in {"sync", "fixed", "unsat"} => todo[w] \intersect backbone[w] = {}

(* Every answered SAT call decides a literal of the chunk, so that the     *)
(* chunk loop makes at most as many calls as there are candidates.         *)
CallsDecide ==
  \A w \in Workers :
    /\ pc[w] \in {"select", "solve"} => cand[w] # {} /\ chunkSize[w] > 0
    /\ pc[w] = "solve" => chunk[w] # {} /\ chunk[w] \subseteq cand[w]
    /\ pc[w] = "filter" /\ todo[w] = {} /\ chunk[w] # {} =>
         ~ (chunk[w] \subseteq cand[w])

(* A worker always returns, and UNKNOWN only after an interrupt.           *)
EventuallyReturns ==
  \A w \in Workers :
    <>(result[w] # "none" /\ (result[w] = "UNKNOWN" => stop[w]))

(* The inductive invariant behind the safety properties.                   *)
CandidatesWitnessed(w) == \A l \in cand[w] : \E m \in phi : Holds(m, l)

BackboneImplied(w) == \A l \in backbone[w] : Implied(phi, l)

BackboneKept(w) ==
  HasModel(w) => \A l \in Lit : Implied(phi, l) => l \in backbone[w] \union cand[w]

ModelIsModel(w) == HasModel(w) => sigma[w] \in phi

FixedImplied(w) == \A l \in fixed[w] : Implied(phi, l)

LoopShape(w) ==
  /\ pc[w] \in {"first", "retry"} =>
       ~ HasModel(w) /\ cand[w] = {} /\ backbone[w] = {} /\ chunk[w] = {}
  /\ pc[w] \notin {"first", "retry", "done"} => HasModel(w)
  /\ pc[w] \in {"filter", "sync", "fixed"} => todo[w] \subseteq cand[w]
  /\ pc[w] = "solve" => chunk[w] \subseteq cand[w]
  /\ pc[w] = "unsat" => todo[w] \subseteq chunk[w] /\ chunk[w] \subseteq cand[w]
  /\ ~ HasModel(w) => cand[w] = {} /\ backbone[w] = {}

(* In the loop of onUnsat the literals of the chunk not visited yet are    *)
(* exactly the ones not in m_backbone; elsewhere a candidate never is.     *)
CommitShape(w) ==
  /\ pc[w] = "unsat" =>
       /\ \A l \in chunk[w] : Implied(phi, l)
       /\ chunk[w] \intersect backbone[w] = chunk[w] \ todo[w]
       /\ cand[w] \intersect backbone[w] \subseteq chunk[w]
  /\ pc[w] \notin {"unsat", "done"} => cand[w] \intersect backbone[w] = {}

AnswerShape(w) ==
  /\ result[w] = "none" <=> pc[w] # "done"
  /\ result[w] = "COMPLETE" => HasModel(w) /\ cand[w] = {}
  /\ result[w] = "UNSAT" => phi = {}

WorkerInv(w) ==
  /\ CandidatesWitnessed(w) /\ BackboneImplied(w) /\ BackboneKept(w)
  /\ ModelIsModel(w) /\ FixedImplied(w)
  /\ LoopShape(w) /\ CommitShape(w) /\ AnswerShape(w)

SearchInv ==
  /\ BoardSound
  /\ ClausesSound
  /\ \A w \in Workers : WorkerInv(w)

(* The search implements the promise of an extractor: what a worker, or    *)
(* the board, says of a variable.                                          *)
ViewOf(w) ==
  [v \in Vars |->
     IF << v, 1 >> \in backbone[w] THEN "positive"
     ELSE IF << v, -1 >> \in backbone[w] THEN "negative"
     ELSE IF ~ HasModel(w) \/ << v, 1 >> \in cand[w] \/ << v, -1 >> \in cand[w]
          THEN "unknown"
          ELSE "free"]

SearchView ==
  [o \in Workers \union {"board"} |-> IF o = "board" THEN board ELSE ViewOf(o)]

Extraction ==
  INSTANCE BackboneExtraction
    WITH Solvers <- Workers, Observers <- Workers \union {"board"},
         view <- SearchView, answer <- result

ExtractionSpec == Extraction!Spec
=============================================================================
