----------------------------- MODULE Exploration -----------------------------
(***************************************************************************)
(* The explorations that precede the chunk loop of CadiBackBase::solve     *)
(* (explore): rounds of random XORs (-bb-xor-pre), whose parities a        *)
(* depth-first search assumes one after the other, then the MaxSAT rounds  *)
(* of MaxSatBackbone.  Both look for models that falsify candidates; a     *)
(* MaxSAT round may also prove literals.                                   *)
(*                                                                         *)
(* External: EvalMaxSAT, which makes solve calls until it knows the        *)
(* optimum, and what a call may answer under the assumptions.  Conflicts   *)
(* are not counted: a call may run out of its budget, and an XOR round out *)
(* of patience or of nodes, at any time.                                   *)
(*                                                                         *)
(* The other workers are an environment that publishes what is true on the *)
(* board, which is all that BackboneExtraction allows them.                *)
(***************************************************************************)
EXTENDS CadiBack, Sequences

CONSTANTS XorRounds,     \* [Workers -> Nat], 0 without -bb-xor-pre
          XorCount,      \* -bb-xor-m, the XORs of a round
          Adaptive,      \* [Workers -> BOOLEAN], -bb-xor-dfs
          WordBits,      \* the width of the mask of xorDfs
          MaxSatWorkers, \* the workers of type m
          MaxSatRounds,  \* -bb-maxsat-rounds, 0: no limit
          Patience       \* [Workers -> Nat], -bb-maxsat-patience, 0: never

ASSUME ExplorationAssumption ==
  /\ XorRounds \in [Workers -> Nat]
  /\ IsFiniteSet(Vars)
  /\ WordBits \in Nat \ {0} /\ XorCount \in 1 .. WordBits
  /\ Adaptive \in [Workers -> BOOLEAN]
  /\ MaxSatWorkers \subseteq Workers
  /\ MaxSatRounds \in Nat
  /\ Patience \in [Workers -> Nat]

VARIABLES
  stage,      \* the loop each worker is in: "xor", "maxsat", then "chunks"
  rounds,     \* the rounds done in the stage, when they are limited
  round       \* the round in progress

exploreVars == << stage, rounds, round >>
exploreAllVars == << vars, exploreVars >>

(* softs: the candidates at the start.  MaxSAT: the literals proven by unit *)
(* cores (m_softState 2), the candidates before the last model, and        *)
(* m_callsWithoutDrop up to the patience.  XOR: the rows, and the node of  *)
(* the search; covered (history) are the leaves left behind.               *)
NoRound == [softs |-> {}, cores |-> {}, before |-> {}, calls |-> 0,
            xors |-> << >>, mask |-> 0, depth |-> 0, covered |-> {}]

InRound(w) == round[w].softs # {}

StageAfter(w, s) ==
  CASE s = "start" /\ XorRounds[w] > 0 -> "xor"
    [] s \in {"start", "xor"} /\ w \in MaxSatWorkers -> "maxsat"
    [] OTHER -> "chunks"

ExploreInit ==
  /\ Init
  /\ stage = [w \in Workers |-> StageAfter(w, "start")]
  /\ rounds = [w \in Workers |-> 0]
  /\ round = [w \in Workers |-> NoRound]

SetRound(w, r) == round' = [round EXCEPT ![w] = r]

RoundLimit(w) == IF stage[w] = "xor" THEN XorRounds[w] ELSE MaxSatRounds

(* Back to the head of the loop over the rounds, or of the next loop.      *)
EndRound(w, isLast) ==
  /\ Goto(w, "loop")
  /\ SetRound(w, NoRound)
  /\ IF isLast \/ rounds[w] + 1 = RoundLimit(w)
     THEN /\ stage' = [stage EXCEPT ![w] = StageAfter(w, @)]
          /\ rounds' = [rounds EXCEPT ![w] = 0]
     ELSE /\ rounds' = [rounds EXCEPT ![w] = IF RoundLimit(w) = 0 THEN 0 ELSE @ + 1]
          /\ UNCHANGED stage
  /\ UNCHANGED result

(* A model of a call of the round, for filterWithModel. *)
UseModel(w, m) ==
  /\ sigma' = [sigma EXCEPT ![w] = m]
  /\ todo' = [todo EXCEPT ![w] = cand[w]]
  /\ Goto(w, "filter")
  /\ UNCHANGED << phi, cand, backbone, chunk, chunkSize, clauses, fixed, sharedVars, stop,
                  result, stage, rounds >>
-----------------------------------------------------------------------------
(* The rounds of XORs. *)

(* No XOR is a sum of others: the parities of the rows are all possible.   *)
Independent(xs) ==
  \A J \in SUBSET DOMAIN xs : J # {} =>
    \E v \in Vars : Cardinality({j \in J : v \in xs[j]}) % 2 = 1

(* drawRandomXors, over the variables of the candidates. *)
Draws(w) ==
  LET pool == {VarOf(l) : l \in cand[w]}
  IN {xs \in UNION {[1 .. n -> SUBSET pool] : n \in 0 .. XorCount} : Independent(xs)}

FirstDepth(w, xs) == IF Adaptive[w] THEN 1 ELSE Len(xs)

StartXorRound(w) ==
  /\ pc[w] = "select" /\ stage[w] = "xor"
  /\ \E xs \in Draws(w) :
       \/ xs = << >> /\ EndRound(w, FALSE)
       \/ /\ xs # << >>
          /\ SetRound(w, [NoRound EXCEPT !.softs = cand[w], !.xors = xs,
                                         !.depth = FirstDepth(w, xs)])
          /\ Goto(w, "round")
          /\ UNCHANGED << result, stage, rounds >>
  /\ UNCHANGED << phi, searchVars, solverVars, sharedVars, stop >>

Bit(n, i) == (n \div (2^i)) % 2

(* xorRhs *)
Rhs(mask, m, j) == Bit(mask, m - 1 - j)

(* The models under the first d assumptions of the node. *)
PathModels(w, d) ==
  LET r == round[w]
      Parity(m, X) == Cardinality({v \in X : m[v] = 1}) % 2
  IN {m \in Solver(w) : \A j \in 0 .. d - 1 :
                          Parity(m, r.xors[j + 1]) = Rhs(r.mask, Len(r.xors), j)}

Leaves(w) == 0 .. 2^Len(round[w].xors) - 1

(* The leaves below the ancestor at depth d of the node. *)
Subtree(w, d) ==
  LET m == Len(round[w].xors)
  IN {x \in Leaves(w) : \A j \in 0 .. d - 1 : Rhs(x, m, j) = Rhs(round[w].mask, m, j)}

TrailingZeros(n) == CHOOSE i \in 0 .. WordBits : n % (2^i) = 0 /\ Bit(n, i) = 1

(* Mutant: the next node is a sibling of the node, not of the subtree.     *)
SiblingOfNode(w, d) ==
  LET m == Len(round[w].xors)
      next == (round[w].mask + 1) % (2^WordBits)
  IN IF next \div (2^m) # 0 THEN << 0, 0 >> ELSE << next, IF Adaptive[w] THEN d ELSE m >>

(* The mask and the depth of the next node when the subtree at depth d is  *)
(* skipped; depth 0 after the last one.                                    *)
NextNode(w, d) ==
  LET m == Len(round[w].xors)
      width == 2^(m - d)
      next == (round[w].mask - (round[w].mask % width) + width) % (2^WordBits)
      past == IF m = WordBits THEN next = 0 ELSE next \div (2^m) # 0
  IN IF past THEN << 0, 0 >>
     ELSE << next, IF Adaptive[w] THEN m - TrailingZeros(next) ELSE m >>

Skip(w, d) ==
  SetRound(w, [round[w] EXCEPT !.mask = NextNode(w, d)[1], !.depth = NextNode(w, d)[2],
                               !.covered = @ \union Subtree(w, d)])

AtNode(w) == pc[w] = "round" /\ stage[w] = "xor" /\ round[w].depth > 0 /\ cand[w] # {}

NodeSat(w) ==
  /\ AtNode(w)
  /\ \E m \in PathModels(w, round[w].depth) : UseModel(w, m)
  /\ UNCHANGED round

(* After the model: down to the left child, or past the leaf. *)
NodeFiltered(w) ==
  /\ pc[w] = "filter" /\ todo[w] = {} /\ InRound(w) /\ stage[w] = "xor"
  /\ IF Adaptive[w] /\ round[w].depth < Len(round[w].xors)
     THEN SetRound(w, [round[w] EXCEPT !.depth = @ + 1])
     ELSE Skip(w, round[w].depth)
  /\ Goto(w, "round")
  /\ UNCHANGED << phi, searchVars, solverVars, sharedVars, stop, result, stage, rounds >>

(* The failed assumptions end at depth d. *)
NodeUnsat(w, d) ==
  /\ AtNode(w) /\ d \in 1 .. round[w].depth
  /\ PathModels(w, d) = {}
  /\ Skip(w, d)
  /\ UNCHANGED << vars, stage, rounds >>

NodeUnknown(w) ==
  /\ AtNode(w)
  /\ Skip(w, round[w].depth)
  /\ UNCHANGED << vars, stage, rounds >>

(* The first node is always solved. *)
Started(w) == << round[w].mask, round[w].depth >> # << 0, FirstDepth(w, round[w].xors) >>

(* The search is over, or has no candidate, nodes or patience left; the    *)
(* last round is the one that runs out of patience and found nothing.      *)
XorRoundDone(w) ==
  /\ pc[w] = "round" /\ stage[w] = "xor" /\ Started(w)
  /\ \/ stop[w] /\ Return(w, "UNKNOWN") /\ SetRound(w, NoRound) /\ UNCHANGED << stage, rounds >>
     \/ ~ stop[w] /\ EndRound(w, FALSE)
     \/ ~ stop[w] /\ AtNode(w) /\ cand[w] = round[w].softs /\ EndRound(w, TRUE)
  /\ UNCHANGED << phi, searchVars, solverVars, sharedVars, stop >>
-----------------------------------------------------------------------------
(* The rounds of MaxSAT: the negation of each candidate is a soft literal. *)

StartMaxSatRound(w) ==
  /\ pc[w] = "select" /\ stage[w] = "maxsat"
  /\ SetRound(w, [NoRound EXCEPT !.softs = cand[w]])
  /\ Goto(w, "round")
  /\ UNCHANGED << phi, searchVars, solverVars, sharedVars, stop, result, stage, rounds >>

(* Mutant: a round that dropped nothing may be abandoned. *)
ExhaustedByCalls(w) ==
  \/ cand[w] = round[w].cores
  \/ Patience[w] > 0 /\ round[w].calls >= Patience[w]

(* roundExhausted, tested after every answer. *)
Exhausted(w) ==
  \/ cand[w] = round[w].cores
  \/ Patience[w] > 0 /\ cand[w] # round[w].softs /\ round[w].calls >= Patience[w]

Optimizing(w) ==
  pc[w] = "round" /\ stage[w] = "maxsat" /\ InRound(w) /\ ~ Exhausted(w) /\ ~ stop[w]

CallsAfter(w, n) == IF n + 1 > Patience[w] THEN Patience[w] ELSE n + 1

(* onMaxSatModel *)
RoundModel(w) ==
  /\ Optimizing(w)
  /\ \E m \in Solver(w) : UseModel(w, m)
  /\ SetRound(w, [round[w] EXCEPT !.before = cand[w]])

RoundFiltered(w) ==
  /\ pc[w] = "filter" /\ todo[w] = {} /\ InRound(w) /\ stage[w] = "maxsat"
  /\ SetRound(w, [round[w] EXCEPT
       !.before = {},
       !.calls = CallsAfter(w, IF cand[w] # round[w].before THEN 0 ELSE @)])
  /\ Goto(w, "round")
  /\ UNCHANGED << phi, searchVars, solverVars, sharedVars, stop, result, stage, rounds >>

(* Mutant: a core of several assumptions is taken for a unit one. *)
AnyCore(w, l) == ~ \E m \in Solver(w) : \A k \in cand[w] : ~ Holds(m, k)

(* The only failed assumption is the negation of l. *)
IsUnitCore(w, l) == Implied(Solver(w), l)

(* onMaxSatUnitCore: the literal stays among the candidates of the round.  *)
UnitCore(w, l) ==
  /\ Optimizing(w)
  /\ l \in round[w].softs \ round[w].cores
  /\ IsUnitCore(w, l)
  /\ AddBackboneLiteral(w, l)
  /\ clauses' = [clauses EXCEPT ![w] = @ \union {{l}}]
  /\ SetRound(w, [round[w] EXCEPT !.cores = @ \union {l}, !.calls = CallsAfter(w, @)])
  /\ UNCHANGED << phi, pc, cand, todo, chunk, chunkSize, sigma, fixed, stop, result, stage,
                  rounds >>

(* A larger core, or no answer within the budget. *)
OtherAnswer(w) ==
  /\ Optimizing(w)
  /\ SetRound(w, [round[w] EXCEPT !.calls = CallsAfter(w, @)])
  /\ UNCHANGED << vars, stage, rounds >>

(* Mutant: the candidates proven in the round are not removed. *)
KeepCores(w) == cand[w]

LeftAfterRound(w) == cand[w] \ round[w].cores

AbandonRound(w) ==
  /\ pc[w] = "round" /\ stage[w] = "maxsat" /\ InRound(w) /\ Exhausted(w)
  /\ cand' = [cand EXCEPT ![w] = LeftAfterRound(w)]
  /\ EndRound(w, FALSE)
  /\ UNCHANGED << phi, todo, backbone, chunk, chunkSize, solverVars, sharedVars, stop >>

(* The soft literals that a model satisfies. *)
SatisfiedSofts(w, m) == Cardinality({l \in round[w].softs : ~ Holds(m, l)})

Optimal(w, m) == \A n \in Solver(w) : SatisfiedSofts(w, n) <= SatisfiedSofts(w, m)

(* EvalMaxSAT ends with the cost of a best model, which it has reported if *)
(* the cost is not the number of soft literals.  When it is, all that is   *)
(* left is backbone.  solve() of EvalMaxSAT fails on no satisfiable        *)
(* formula, the branch of a round that dropped nothing is the code's.      *)
RoundOptimum(w) ==
  /\ Optimizing(w)
  /\ \E best \in Solver(w) :
       /\ Optimal(w, best) /\ \A l \in cand[w] : Holds(best, l)
       /\ cand' = [cand EXCEPT ![w] = LeftAfterRound(w)]
       /\ IF SatisfiedSofts(w, best) = 0
          THEN /\ chunk' = [chunk EXCEPT ![w] = LeftAfterRound(w)]
               /\ todo' = [todo EXCEPT ![w] = LeftAfterRound(w)]
               /\ Goto(w, "unsat")
               /\ SetRound(w, [round[w] EXCEPT !.cores = {}])
               /\ UNCHANGED << result, stage, rounds >>
          ELSE /\ EndRound(w, cand[w] = round[w].softs)
               /\ UNCHANGED << chunk, todo >>
  /\ UNCHANGED << phi, backbone, chunkSize, solverVars, sharedVars, stop >>

(* candidates.clear(), and the exploration stops there. *)
AllCommitted(w) ==
  /\ pc[w] = "unsat" /\ todo[w] = {} /\ InRound(w)
  /\ cand' = [cand EXCEPT ![w] = {}]
  /\ chunk' = [chunk EXCEPT ![w] = {}]
  /\ EndRound(w, TRUE)
  /\ UNCHANGED << phi, todo, backbone, chunkSize, solverVars, sharedVars, stop >>
-----------------------------------------------------------------------------
(* The steps of CadiBack: outside the rounds all but the choice of the     *)
(* chunk, which comes after the explorations.                              *)
InheritedStep(w) ==
  /\ \/ CommonStep(w) /\ ~ InRound(w)
     \/ SelectChunk(w) /\ stage[w] = "chunks"
     \/ InRound(w) /\ ( \/ \E l \in Lit : FilterLiteral(w, l) \/ CommitLiteral(w, l)
                        \/ CallInterrupted(w) /\ ~ (stage[w] = "maxsat" /\ Exhausted(w)))
  /\ UNCHANGED exploreVars

XorStep(w) ==
  \/ StartXorRound(w) \/ NodeSat(w) \/ NodeFiltered(w) \/ NodeUnknown(w) \/ XorRoundDone(w)
  \/ \E d \in 1 .. XorCount : NodeUnsat(w, d)

MaxSatStep(w) ==
  \/ StartMaxSatRound(w) \/ RoundModel(w) \/ RoundFiltered(w) \/ OtherAnswer(w)
  \/ \E l \in Lit : UnitCore(w, l)
  \/ AbandonRound(w) \/ RoundOptimum(w) \/ AllCommitted(w)

ExploreStep(w) == InheritedStep(w) \/ XorStep(w) \/ MaxSatStep(w)

(* A worker outside this module publishes the truth about a variable.      *)
OthersPublish(v, s) ==
  /\ phi # {} /\ board[v] = "unknown" /\ s # "unknown"
  /\ StatusTrue(phi, v, s)
  /\ board' = Publish(board, v, s)
  /\ UNCHANGED << phi, pc, searchVars, solverVars, exported, stop, result, exploreVars >>

ExploreNext ==
  \/ \E w \in Workers :
       \/ ExploreStep(w)
       \/ (SolverStep(w) \/ Interrupt(w)) /\ UNCHANGED exploreVars
  \/ \E v \in Vars, s \in Status : OthersPublish(v, s)

ExploreSpec == ExploreInit /\ [][ExploreNext]_exploreAllVars

(* Threads run, calls are answered, and solve() of EvalMaxSAT returns.     *)
FairExploreSpec ==
  /\ ExploreSpec
  /\ \A w \in Workers : /\ WF_exploreAllVars(ExploreStep(w))
                        /\ []<>(stage[w] # "maxsat" \/ ~ InRound(w))
-----------------------------------------------------------------------------
(* Properties.                                                             *)

ExploreTypeOK ==
  /\ TypeOK
  /\ stage \in [Workers -> {"xor", "maxsat", "chunks"}]
  /\ rounds \in [Workers -> Nat]
  /\ \A w \in Workers :
       /\ DOMAIN round[w] = DOMAIN NoRound
       /\ round[w].cores \subseteq round[w].softs /\ round[w].softs \subseteq Lit
       /\ round[w].before \subseteq Lit /\ round[w].calls \in 0 .. Patience[w]
       /\ round[w].mask \in Leaves(w) /\ round[w].depth \in 0 .. Len(round[w].xors)

(* A literal proven by a unit core is still a candidate when its round     *)
(* ends, whatever models come in between: roundExhausted compares the      *)
(* number of candidates with the number of cores.                          *)
CoresStay ==
  \A w \in Workers : round[w].cores \subseteq cand[w] \intersect backbone[w]

(* XorSampler.hpp:56: the search leaves the leaves behind from left to     *)
(* right, each exactly once, through conflicts that prune a subtree above  *)
(* the node, skipped nodes, and the carry of the mask; it ends when none   *)
(* is left.                                                                *)
LeavesInOrder ==
  \A w \in Workers : InRound(w) /\ stage[w] = "xor" =>
    round[w].covered =
      IF round[w].depth = 0 THEN Leaves(w) ELSE {x \in Leaves(w) : x < round[w].mask}
=============================================================================
