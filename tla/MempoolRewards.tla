---------------------------- MODULE MempoolRewards ----------------------------
(***************************************************************************)
(* The pure reward functions of pallet quantum-compute-mempool             *)
(* (pallets/quantum-compute-mempool/src/rewards.rs): how the top-N ranking *)
(* of an order absorbs a submission, and how a reward is split among the   *)
(* ranked solvers.  Lower energy is better; rank 1 here is index 0 there.  *)
(* Amounts are u128 in the code; the split is written there so that no     *)
(* product overflows, so unbounded naturals lose nothing.                  *)
(***************************************************************************)
EXTENDS Integers, Sequences, FiniteSets, Functions

\* A ranked entry: types::RankedSolver / types::FrontRunner.
RankedSolver(solver, energy) == [solver |-> solver, energy |-> energy]

(***************************************************************************)
(* Vec::sort_by_key is stable: entry i moves behind every entry of lower   *)
(* energy and behind every equal entry that preceded it.                   *)
(***************************************************************************)
StablePosition(s, i) ==
  Cardinality({j \in DOMAIN s : \/ s[j].energy < s[i].energy
                                \/ s[j].energy = s[i].energy /\ j <= i})

SortByEnergy(s) ==
  [k \in DOMAIN s |-> s[CHOOSE i \in DOMAIN s : StablePosition(s, i) = k]]

Truncate(s, limit) == SubSeq(s, 1, IF Len(s) < limit THEN Len(s) ELSE limit)

\* Mutant: the list is cut to its limit before it is sorted.
update_ranked_solvers_cut_first(current, candidate, limit) ==
  LET others == SelectSeq(current, LAMBDA e : e.solver # candidate.solver)
  IN  SortByEnergy(Truncate(Append(others, candidate), limit))

(***************************************************************************)
(* An entry of the candidate's solver is replaced in place when the        *)
(* candidate is better; otherwise the candidate is appended.  Then sort,   *)
(* then truncate to the order's n.                                         *)
(***************************************************************************)
update_ranked_solvers(current, candidate, limit) ==
  LET mine == {i \in DOMAIN current : current[i].solver = candidate.solver}
      next == IF mine = {}
                THEN Append(current, candidate)
                ELSE [i \in DOMAIN current |->
                        IF i \in mine /\ candidate.energy < current[i].energy
                          THEN candidate ELSE current[i]]
  IN  Truncate(SortByEnergy(next), limit)

-----------------------------------------------------------------------------
\* A payout: the (account, amount, energy) triple the three splits return.
Payout(entry, amount) ==
  [solver |-> entry.solver, energy |-> entry.energy, amount |-> amount]

single_best_payouts(front, reward) == << Payout(front, reward) >>

\* Equal split; the division's remainder goes to the best-ranked solver.
top_n_equal_payouts(ranked, reward) ==
  LET len == Len(ranked)
  IN  [i \in 1..len |->
         Payout(ranked[i], reward \div len + (IF i = 1 THEN reward % len ELSE 0))]

(***************************************************************************)
(* Rank-weighted split: with k solvers the weights are k, k-1, ..., 1.     *)
(* Each share is floor(reward * weight / total), computed from quotient    *)
(* and remainder; what rounding leaves over goes to the best-ranked one.   *)
(***************************************************************************)
Share(reward, total, weight) ==
  (reward \div total) * weight + ((reward % total) * weight) \div total

top_n_weighted_payouts(ranked, reward) ==
  LET count  == Len(ranked)
      total  == (count * (count + 1)) \div 2
      shares == [i \in 1..count |-> Share(reward, total, count - i + 1)]
      rest   == reward - SumFunction(shares)
  IN  [i \in 1..count |->
         Payout(ranked[i], shares[i] + (IF i = 1 THEN rest ELSE 0))]

PayoutTotal(payouts) == SumFunction([i \in DOMAIN payouts |-> payouts[i].amount])
=============================================================================
