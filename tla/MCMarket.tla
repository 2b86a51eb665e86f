------------------------------- MODULE MCMarket -------------------------------
(***************************************************************************)
(* An instance of ProgramMarket: who may submit what (eligibility,         *)
(* thresholds, payees), a transform that its owner or Root may remove, and *)
(* a proposer that stores programs itself.                                 *)
(***************************************************************************)
EXTENDS ProgramMarket
CONSTANTS prop, m1, ising, custom, prog, deep

\* `custom` is the spec with a transform; `deep` nests loops beyond the limit.
MCTransformProgram == [s \in Specs |-> IF s = custom THEN prog ELSE None]
MCValidationProgram == [s \in Specs |-> None]
MCCode == [h \in Programs |-> IF h = prog THEN <<"Range", "Target", "Next">>
                                          ELSE <<"Range", "Range", "Next", "Next">>]
MCTrue == [h \in Programs |-> TRUE]
MCSize == [h \in Programs |-> 1]

BaseTerms ==
  [reward |-> 2, resolution |-> [kind |-> "SingleBest", n |-> 0], deadline_blocks |-> 1,
   block_wait |-> 1, spec_id |-> ising,
   mode |-> [kind |-> "Open", miners |-> None, miner_types |-> None],
   delivery |-> "OnChainOnly", max_energy |-> None, min_solutions |-> None, min_diversity |-> None]
MCTerms ==
  { [BaseTerms EXCEPT !.mode = [kind |-> "Bid", miners |-> None, miner_types |-> {"Gpu"}],
                      !.delivery = "Callback"],
    [BaseTerms EXCEPT !.mode = [kind |-> "Bid", miners |-> {m1}, miner_types |-> None],
                      !.delivery = "CallbackWithPoll"],
    [BaseTerms EXCEPT !.spec_id = custom, !.min_solutions = 2, !.min_diversity = 1],
    [BaseTerms EXCEPT !.min_solutions = 1, !.min_diversity = 1] }

Submitted(energies, diversity, costs) ==
  [energies |-> energies, diversity |-> diversity,
   runs |-> [i \in DOMAIN costs |-> [cost |-> costs[i], end |-> "ok"]]]
MCSubmissions ==
  { Submitted(<<1>>, 0, <<1>>), Submitted(<<2, 1>>, 1, <<1, 1>>), Submitted(<<2, 0>>, 1, <<1, 2>>) }
MCPayees == {[chain_id |-> 1, address |-> 7], [chain_id |-> 1, address |-> 0],
             [chain_id |-> 2, address |-> 7]}
MCFree == [a \in Accounts |-> IF a = prop THEN 8 ELSE 3]
=============================================================================
