---------------------------- MODULE PowDifficulty ----------------------------
(***************************************************************************)
(* The difficulty controller of pallet quantum-pow (difficulty.rs): how    *)
(* the energy threshold eases while a round is overdue, and how it hardens *)
(* towards the winning energy.  Energies are negative; lower is harder.    *)
(*                                                                         *)
(* Two abstractions.  The blake3 sample that picks the hardening rate is a *)
(* nondeterministic choice from its band, so adjust_on_proof is a set of   *)
(* outcomes.  libm::pow is the parameter Retained, a table in parts of     *)
(* One; the end of the geometric phase, for which the code takes a         *)
(* logarithm, is found in the same table, to the block.                    *)
(***************************************************************************)
EXTENDS Integers, FiniteSets

CONSTANTS
  FAST_PROOF_BLOCKS,        \* 60: wins faster than this harden at the high rate
  MIN_ENERGY_DELTA_MILLI,   \* 1000: the floor of every motion
  EpochLength,              \* 100: the rate unit of easing
  One,                      \* the resolution of Retained
  Retained                  \* [blocks -> 0..One]: pow(1 - rate, blocks / EpochLength)

DECAY_RATE_MILLI == 25

MinOf(a, b) == IF a <= b THEN a ELSE b
MaxOf(a, b) == IF a >= b THEN a ELSE b

\* libm::round of a / b for a >= 0, b > 0.
Rounded(a, b) == (2 * a + b) \div (2 * b)

\* The rate per epoch, 1 - 0.975 * 0.975, is 79 / 1600; the room still beats the
\* crossover, MIN_ENERGY_DELTA_MILLI / rate, after `blocks` at that rate.
AboveCrossover(room, blocks) ==
  room * Retained[blocks] * 79 > MIN_ENERGY_DELTA_MILLI * One * 1600

\* The blocks in which the motion is a fraction of the room and not yet the floor.
geometric_blocks(room, blocks) ==
  Cardinality({b \in 0..(blocks - 1) : AboveCrossover(room, b)})

\* Mutant: without its floor the motion dies out in a small room.
ease_room_no_floor(room, blocks) ==
  IF room <= 0 \/ blocks = 0 \/ EpochLength = 0 THEN 0
  ELSE MinOf(Rounded(room * (One - Retained[blocks]), One), room)

\* Geometric while the room's share beats the floor, linear at the floor after.
ease_room(room, blocks) ==
  IF room <= 0 \/ blocks = 0 \/ EpochLength = 0 THEN 0
  ELSE LET geometric == geometric_blocks(room, blocks)
           shrunk == room * (One - Retained[geometric]) * EpochLength
           linear == (blocks - geometric) * MIN_ENERGY_DELTA_MILLI * One
       IN  MinOf(Rounded(shrunk + linear, One * EpochLength), room)

\* Easing counts only the blocks past the round-length target.
apply_decay(current, elapsed, curve, target) ==
  LET overdue == MaxOf(elapsed - target, 0) IN
  IF curve.max <= curve.min \/ overdue = 0 \/ EpochLength = 0 THEN current
  ELSE [current EXCEPT !.max_energy = @ + ease_room(curve.max - @, overdue)]

\* The threshold a proof has to clear at `block`; block 0 means no win yet.
current_difficulty(block, base, last_proof_block, curve, target) ==
  LET elapsed == MaxOf(block - last_proof_block, 0) IN
  IF last_proof_block = 0 \/ elapsed = 0 THEN base
  ELSE apply_decay(base, elapsed, curve, target)

-----------------------------------------------------------------------------
\* sample_adjustment_milli: every rate the hash of the round may select.
RateBand(mining_time, target_blocks) ==
  LET target   == MaxOf(target_blocks, FAST_PROOF_BLOCKS + 1)
      progress == ((mining_time - FAST_PROOF_BLOCKS) * 1000) \div (target - FAST_PROOF_BLOCKS)
      base     == IF mining_time < FAST_PROOF_BLOCKS THEN 350
                  ELSE IF mining_time > target THEN 50
                  ELSE 350 - (300 * progress) \div 1000
      variance == IF mining_time < FAST_PROOF_BLOCKS THEN 300
                  ELSE IF mining_time > target THEN 40
                  ELSE 300 - (260 * progress) \div 1000
  IN  MaxOf(base - variance, 1)..(base + variance)

max_hardening_delta(curve) ==
  MaxOf(Rounded(MaxOf(curve.max - curve.min, 0) * DECAY_RATE_MILLI, 1000),
        MIN_ENERGY_DELTA_MILLI)

\* The outcomes of hardening from the live threshold towards the winning energy.
adjust_on_proof(active, energy, mining_time, curve, target) ==
  LET gap == active.max_energy - energy
      motions == {Rounded(gap * rate, 1000) : rate \in RateBand(mining_time, target)}
      Delta(motion) == MinOf(MinOf(MaxOf(motion, MIN_ENERGY_DELTA_MILLI),
                                     max_hardening_delta(curve)), gap)
  IN  IF gap <= 0 THEN {active}
      ELSE {[active EXCEPT !.max_energy = @ - Delta(motion)] : motion \in motions}
=============================================================================
