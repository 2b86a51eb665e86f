------------------------------ MODULE XqvmShape ------------------------------
(***************************************************************************)
(* The two computations the runtime makes around the XQVM, a library       *)
(* outside the repository: how much control flow a program has             *)
(* (pallets/xqvm), and a transform run over the solutions of one           *)
(* submission under one step budget (quantum-compute-mempool/src/xqvm.rs). *)
(***************************************************************************)
EXTENDS Integers, Sequences, SequencesExt, FiniteSets, FiniteSetsExt, Results

CONSTANTS MaxTransformStepsPerSubmission

Instructions == {"Target", "Jump", "Range", "Next", "Other", "Fault"}

\* Instructions after which the next position starts a block.
Ends == {"Jump", "Range", "Next"}

\* The loop body of ControlFlowShape::of; a structural fault ends the walk.
WalkOne(s, instr) ==
  LET depth == CASE instr = "Range" -> s.depth + 1
                 [] instr = "Next" -> Max({s.depth - 1, 0})
                 [] OTHER -> s.depth
  IN  IF s.broken \/ instr = "Fault" THEN [s EXCEPT !.broken = TRUE]
      ELSE [blocks |-> IF instr \in Ends \/ (instr = "Target" /\ ~s.leader_pending)
                       THEN s.blocks + 1 ELSE s.blocks,
            leader_pending |-> instr \in Ends,
            depth |-> depth, loop_depth |-> Max({s.loop_depth, depth}), broken |-> FALSE]

ControlFlowShape(code) ==
  LET end == FoldLeft(WalkOne, [blocks |-> 1, leader_pending |-> TRUE, depth |-> 0,
                                loop_depth |-> 0, broken |-> FALSE], code)
  IN  [blocks |-> end.blocks, loop_depth |-> end.loop_depth]

-----------------------------------------------------------------------------
(* A run of the VM on one solution, external: what it costs, and how it ends *)
(* if the step limit lets it: "ok", "memory", "fault" or "output" (a result  *)
(* the adapter refuses).                                                     *)

Run(solution, limit) ==
  IF solution.cost > limit THEN [steps |-> limit, end |-> "limit"]
                           ELSE [steps |-> solution.cost, end |-> solution.end]

RunError(end) ==
  CASE end = "ok" -> ""
    [] end = "limit" -> "VmStepLimitExceeded"
    [] end = "memory" -> "VmMemoryLimitExceeded"
    [] end = "fault" -> "VmExecutionFailed"
    [] end = "output" -> "VmOutput"

\* Mutant: each solution has the whole budget.
TransformOne_OwnBudget(acc, solution) ==
  LET run == Run(solution, MaxTransformStepsPerSubmission)
  IN  IF acc.error # "" THEN acc
      ELSE [steps_used |-> acc.steps_used + run.steps,
            error |-> RunError(run.end)]

\* One solution, with what the earlier ones left of the budget; the steps of a
\* run that fails count.
TransformOne(acc, solution) ==
  LET remaining == Max({MaxTransformStepsPerSubmission - acc.steps_used, 0})
      run == Run(solution, remaining)
  IN  IF acc.error # "" THEN acc
      ELSE IF remaining = 0 THEN [acc EXCEPT !.error = "VmStepLimitExceeded"]
      ELSE [steps_used |-> acc.steps_used + run.steps,
            error |-> RunError(run.end)]

\* XqvmAdapter::transform once the program is found.
transform(solutions) == FoldLeft(TransformOne, [steps_used |-> 0, error |-> ""], solutions)
=============================================================================
