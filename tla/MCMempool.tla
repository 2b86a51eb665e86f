------------------------------ MODULE MCMempool ------------------------------
(***************************************************************************)
(* A small instance of ComputeMempool for TLC; half of the terms are ones  *)
(* the pallet must refuse.                                                 *)
(***************************************************************************)
EXTENDS EscrowRefinement
CONSTANTS prop, m1, m2, ising, custom, prog

Open == [kind |-> "Open", miners |-> None, miner_types |-> None]
BidMiners(s) == [kind |-> "Bid", miners |-> s, miner_types |-> None]
SingleBest == [kind |-> "SingleBest", n |-> 0]
Equal(n) == [kind |-> "TopNEqual", n |-> n]
Weighted(n) == [kind |-> "TopNWeighted", n |-> n]

BaseTerms ==
  [reward |-> 1, resolution |-> SingleBest, deadline_blocks |-> 2, block_wait |-> 1,
   spec_id |-> ising, mode |-> Open, delivery |-> "OnChainOnly", max_energy |-> None,
   min_solutions |-> None, min_diversity |-> None]
Scores(energies) == [energies |-> energies, diversity |-> 0]

\* The only spec with a transform program is `custom`.
MCTransformProgram == [s \in Specs |-> IF s = custom THEN prog ELSE None]
NoPrograms == [s \in Specs |-> None]

-----------------------------------------------------------------------------
(* The proposer can afford two SingleBest orders at once, or one of another kind, *)
(* and solves too; the worst payout is the existential deposit.                   *)
OrderTerm(resolution, delivery, reward) ==
  [BaseTerms EXCEPT !.resolution = resolution, !.delivery = delivery, !.reward = reward,
                    !.max_energy = 3, !.deadline_blocks = 1]
MCTerms ==
  { [OrderTerm(SingleBest, "CallbackWithPoll", 6) EXCEPT !.mode = BidMiners({prop, m1})],
    OrderTerm(Equal(2), "Callback", 7),
    [OrderTerm(Weighted(2), "OnChainOnly", 7) EXCEPT !.deadline_blocks = 2],
    [OrderTerm(SingleBest, "OnChainOnly", 8) EXCEPT !.spec_id = custom, !.mode = BidMiners({m1})],
    \* Refused: winners, reward, delivery.
    OrderTerm(Weighted(3), "OnChainOnly", 7),
    OrderTerm(Equal(0), "OnChainOnly", 6),
    OrderTerm(SingleBest, "OnChainOnly", 5),
    OrderTerm(SingleBest, "CallbackWithPoll", 6),
    [OrderTerm(SingleBest, "OnChainOnly", 6) EXCEPT !.mode = [Open EXCEPT !.kind = "Bid"]]}
MCSubmissions == {Scores(<<1>>), Scores(<<4, 2>>), Scores(<<4>>)}
MCFree == [a \in Accounts |-> IF a = prop THEN 14 ELSE 0]
=============================================================================
