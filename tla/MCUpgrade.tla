------------------------------ MODULE MCUpgrade ------------------------------
(***************************************************************************)
(* Small instances of MempoolUpgrade for TLC: three orders against a       *)
(* finalisation budget of two per block.                                   *)
(***************************************************************************)
EXTENDS MempoolUpgrade
CONSTANTS prop, m1, ising

Timing(d, w) ==
  [reward |-> 1, resolution |-> [kind |-> "SingleBest", n |-> 0],
   deadline_blocks |-> d, block_wait |-> w, spec_id |-> ising,
   mode |-> [kind |-> "Open", miners |-> None, miner_types |-> None],
   delivery |-> "OnChainOnly", max_energy |-> None,
   min_solutions |-> None, min_diversity |-> None]

\* The last two are refused: over MaxDeadlineBlocks and over MaxBlockWait.
QueueTerms == {Timing(0, 0), Timing(2, 0), Timing(4, 2), Timing(9, 1), Timing(1, 9)}
QueueLegacyTerms == {Timing(0, 0), Timing(2, 0), Timing(4, 2)}
QueueSubmissions == {[energies |-> <<1>>, diversity |-> 0]}
QueueOrderIds == 0..2
QueueFree == [a \in Accounts |-> IF a = prop THEN 3 ELSE 0]
NoPrograms == [s \in Specs |-> None]
=============================================================================
