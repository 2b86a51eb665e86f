------------------------------ MODULE QuantumPow ------------------------------
(***************************************************************************)
(* Pallet quantum-pow: miners race for qblocks.  Within a block the best   *)
(* accepted proof is kept; on_finalize turns it into a qblock, pays the    *)
(* winner from the mining pot, hardens the difficulty of the topology it   *)
(* was mined on, and opens the next round, whose nonce seed is the hash of *)
(* the winning block.  Source: pallets/quantum-pow/src/lib.rs.             *)
(*                                                                         *)
(* A block is on_initialize, any number of calls, on_finalize.  A rejected *)
(* call is rolled back, hence no step.  Left out: graphs, spins and packed *)
(* encodings (a proof is the energies of its solutions and the diversity   *)
(* of the selected ones), device times.                                    *)
(***************************************************************************)
EXTENDS PowDifficulty, Sequences, FiniteSets, Functions

CONSTANTS
  Accounts,             \* bound: the accounts that mine
  Topologies,           \* hashes of the definitions register_topology accepts
  CurveC,               \* [Topologies -> curve], from the runtime's CurveC* constants
  Curves,               \* bound: overrides root may set; some are malformed
  DefaultDifficulty,    \* DifficultyConfig::default()
  DifficultyChoices,    \* bound: what root passes to set_difficulty
  Solutions,            \* bound: [energies, diversity] a proof may carry
  Salts,
  RewardChoices, BlockReward, MinBlockReward, MaxBlockReward,
  TargetChoices, TargetProofBlocks, MinTargetProofBlocks, MaxTargetProofBlocks,
  MaxProofsPerBlock, ExistentialDeposit,
  MinerDeposit, Funds,  \* the deposit; what an account starts with
  PotFunding,           \* what one external accrual adds to the mining pot
  MaxPot,               \* bound on the pot
  LastAdminBlock,       \* bound: governance acts up to this block
  LastMinerBlock,       \* bound: proofs are submitted up to this block
  LastRegistration,     \* bound: accounts register, leave and spend up to this block
  Adjustable,           \* bound: topologies whose difficulty and curve root changes
  MaxBlock,             \* bound on the block number
  None

\* The records of types.rs, an energy curve by its c values' energies.
DifficultyConfig == [max_energy : Int, min_solutions : Nat, min_diversity : Nat]
EnergyCurve == [min : Int, knee : Int, max : Int]
MinerInfo == [registered_at : Nat, deposit : Nat, submitted : Nat, won : Nat, earned : Nat]
ProofRecord == [miner : Accounts, submitted_at : Nat, salt : Salts, topology : Topologies,
                energy : Int]

\* integrity_test, and what the deployment guarantees of its constants.
ASSUME PowAssumption ==
  /\ MaxBlock \in Nat /\ MaxProofsPerBlock \in Nat
  /\ None \notin Topologies /\ None \notin Nat
  /\ MinTargetProofBlocks > FAST_PROOF_BLOCKS
  /\ TargetProofBlocks \in MinTargetProofBlocks..MaxTargetProofBlocks
  /\ BlockReward \in MinBlockReward..MaxBlockReward

\* The types of the parameters and inputs; energies are i64, everything else unsigned.
ASSUME InputAssumption ==
  /\ CurveC \in [Topologies -> EnergyCurve] /\ Curves \subseteq EnergyCurve
  /\ DefaultDifficulty \in DifficultyConfig /\ DifficultyChoices \subseteq DifficultyConfig
  /\ \A s \in Solutions : s.energies \in Seq(Int)
  /\ Adjustable \subseteq Topologies
  /\ {MinBlockReward, MaxBlockReward, MinTargetProofBlocks, MaxTargetProofBlocks,
      ExistentialDeposit, MinerDeposit, Funds, PotFunding, FAST_PROOF_BLOCKS,
      MIN_ENERGY_DELTA_MILLI, EpochLength} \subseteq Nat

\* libm::pow of a fraction: a fraction, and smaller for a larger exponent.
ASSUME RetainedAssumption ==
  /\ One \in Nat \ {0} /\ Retained \in [0..MaxBlock -> 0..One]
  /\ \A i, j \in 0..MaxBlock : i <= j => Retained[j] <= Retained[i]

\* None is the absence of an entry, never one.
ASSUME NoneAssumption ==
  None \notin DifficultyConfig \cup EnergyCurve \cup MinerInfo \cup ProofRecord

VARIABLES
  now, inBlock,         \* block number; whether its hooks and calls are running
  RegisteredTopologies, DefaultTopology, MineableTopologies,
  Difficulties,         \* [Topologies -> config or None]
  TopologyCurveC,       \* [Topologies -> override or None]
  BlockRewardOverride, TargetProofBlocksOverride,
  Miners,               \* [Accounts -> info or None]
  free,                 \* [Accounts -> free balance]
  BlockBestProof, BlockProofCount,
  LastProofBlock, LastProofBlockHash,
  QBlocks,              \* the qblock of each block won
  QBlockCount, QBlockBlockById, QBlockIdByBlock,
  pot                   \* free balance of the mining pot
VARIABLE accepted       \* history: the proofs accepted in the current block, in order

topologyVars == <<RegisteredTopologies, DefaultTopology, MineableTopologies>>
adminVars    == <<Difficulties, TopologyCurveC, BlockRewardOverride, TargetProofBlocksOverride>>
minerVars    == <<Miners, free>>
proofVars    == <<BlockBestProof, BlockProofCount, accepted>>
roundVars    == <<LastProofBlock, LastProofBlockHash>>
qblockVars   == <<QBlocks, QBlockCount, QBlockBlockById, QBlockIdByBlock>>
vars == <<now, inBlock, topologyVars, adminVars, minerVars, proofVars, roundVars, qblockVars, pot>>

Blocks == 1..MaxBlock

\* StorageMap::insert.
insert(map, key, value) ==
  [k \in DOMAIN map \cup {key} |-> IF k = key THEN value ELSE map[k]]

\* External: frame_system's block hashes, collision free.
BlockHash(b) == <<"hash of block", b>>

\* What the nonce commits to (derive_nonce hashes it with blake3).
derive_nonce(seed, miner, salt) == <<seed, miner, salt>>

-----------------------------------------------------------------------------
(* Parameters in force. *)

block_reward == IF BlockRewardOverride = None THEN BlockReward ELSE BlockRewardOverride
target_proof_blocks ==
  IF TargetProofBlocksOverride = None THEN TargetProofBlocks ELSE TargetProofBlocksOverride
energy_curve_for(t) == IF TopologyCurveC[t] = None THEN CurveC[t] ELSE TopologyCurveC[t]
BaseDifficulty(t) == IF Difficulties[t] = None THEN DefaultDifficulty ELSE Difficulties[t]

current_difficulty_for(t) ==
  current_difficulty(now, BaseDifficulty(t), LastProofBlock, energy_curve_for(t),
                     target_proof_blocks)

-----------------------------------------------------------------------------
(* Hooks. *)

\* Mutant: the seed is refreshed only on the first block of the chain.
RefreshSeed_GenesisOnly(n) ==
  LastProofBlockHash' = IF n = 1 THEN BlockHash(n - 1) ELSE LastProofBlockHash

\* The hash of the winning block is first known as the parent of the next one.
RefreshSeed(n) ==
  LastProofBlockHash' =
    IF n = 1 \/ LastProofBlock + 1 = n THEN BlockHash(n - 1) ELSE LastProofBlockHash

on_initialize ==
  /\ ~inBlock /\ now < MaxBlock
  /\ now' = now + 1 /\ inBlock' = TRUE
  /\ BlockProofCount' = 0 /\ accepted' = << >>
  /\ RefreshSeed(now + 1)
  /\ UNCHANGED <<topologyVars, adminVars, minerVars, BlockBestProof, LastProofBlock, qblockVars, pot>>

\* SubnetRewards::pay of the emission controller: as much as keeps the pot alive, and
\* nothing when the transfer would leave a new account below the existential deposit.
pay(who, requested) ==
  LET amount == MinOf(requested, MaxOf(pot - ExistentialDeposit, 0))
  IN  IF free[who] = 0 /\ Miners[who] = None /\ amount < ExistentialDeposit THEN 0 ELSE amount

\* Mutant: the reward asked for is booked, not the one paid.
CreditMiner_Requested(who, reward) ==
  Miners' = IF Miners[who] = None THEN Miners
            ELSE [Miners EXCEPT ![who].won = @ + 1, ![who].earned = @ + block_reward]

\* The statistics of the winner, unless it has deregistered meanwhile.
CreditMiner(who, reward) ==
  Miners' = IF Miners[who] = None THEN Miners
            ELSE [Miners EXCEPT ![who].won = @ + 1, ![who].earned = @ + reward]

MiningTime ==
  IF LastProofBlock = 0 \/ now <= LastProofBlock THEN EpochLength ELSE now - LastProofBlock

\* Mutant: a win hardens the default topology, whatever it was mined on.
AdjustDifficulty_Default(record, active, next) ==
  Difficulties' = [Difficulties EXCEPT ![DefaultTopology] = next]

AdjustDifficulty(record, active, next) ==
  Difficulties' = [Difficulties EXCEPT ![record.topology] = next]

next_qblock_id == QBlockCount + 1

WriteQBlock(record, active, reward) ==
  LET id == next_qblock_id IN
  /\ QBlocks' = insert(QBlocks, now,
       [miner |-> record.miner, salt |-> record.salt, energy |-> record.energy,
        reward |-> reward, submitted_at |-> record.submitted_at,
        difficulty |-> active, last_proof_block_hash |-> LastProofBlockHash,
        topology |-> record.topology])
  /\ QBlockCount' = QBlockCount + 1
  /\ QBlockBlockById' = [QBlockBlockById EXCEPT ![id] = now]
  /\ QBlockIdByBlock' = [QBlockIdByBlock EXCEPT ![now] = id]

FinaliseWithoutProof ==
  /\ BlockBestProof = None
  /\ UNCHANGED <<topologyVars, adminVars, minerVars, proofVars, roundVars, qblockVars, pot>>

FinaliseWinner ==
  LET record == BlockBestProof
      reward == pay(record.miner, block_reward)
      active == current_difficulty_for(record.topology)
  IN /\ record # None
     /\ BlockBestProof' = None
     /\ pot' = pot - reward
     /\ free' = [free EXCEPT ![record.miner] = @ + reward]
     /\ CreditMiner(record.miner, reward)
     /\ \E next \in adjust_on_proof(active, record.energy, MiningTime,
                                    energy_curve_for(record.topology), target_proof_blocks) :
          AdjustDifficulty(record, active, next)
     /\ LastProofBlock' = now
     /\ WriteQBlock(record, active, reward)
     /\ UNCHANGED <<topologyVars, TopologyCurveC, BlockRewardOverride, TargetProofBlocksOverride,
                    BlockProofCount, accepted, LastProofBlockHash>>

on_finalize ==
  /\ inBlock /\ inBlock' = FALSE /\ UNCHANGED now
  /\ FinaliseWithoutProof \/ FinaliseWinner

-----------------------------------------------------------------------------
(* Miners. *)

register_miner(who) ==
  /\ Miners[who] = None
  /\ free[who] >= MinerDeposit + ExistentialDeposit
  /\ free' = [free EXCEPT ![who] = @ - MinerDeposit]
  /\ Miners' = [Miners EXCEPT ![who] = [registered_at |-> now, deposit |-> MinerDeposit,
                                       submitted |-> 0, won |-> 0, earned |-> 0]]
  /\ UNCHANGED <<topologyVars, adminVars, proofVars, roundVars, qblockVars, pot>>

deregister_miner(who) ==
  /\ Miners[who] # None
  /\ free' = [free EXCEPT ![who] = @ + Miners[who].deposit]
  /\ Miners' = [Miners EXCEPT ![who] = None]
  /\ UNCHANGED <<topologyVars, adminVars, proofVars, roundVars, qblockVars, pot>>

\* validate_proof: the solutions below the threshold, their best and their number.
ValidEnergies(solutions, difficulty) ==
  {i \in DOMAIN solutions.energies : solutions.energies[i] < difficulty.max_energy}

BestEnergy(solutions, difficulty) ==
  LET valid == {solutions.energies[i] : i \in ValidEnergies(solutions, difficulty)}
  IN  CHOOSE e \in valid : \A f \in valid : e <= f

ClearsDifficulty(solutions, difficulty) ==
  /\ ValidEnergies(solutions, difficulty) # {}
  /\ Cardinality(ValidEnergies(solutions, difficulty)) >= difficulty.min_solutions
  /\ solutions.diversity >= difficulty.min_diversity

\* Mutant: a later proof of equal energy displaces the first one.
Displaces_OnTie(record) == BlockBestProof # None => record.energy <= BlockBestProof.energy

Displaces(record) == BlockBestProof # None => record.energy < BlockBestProof.energy

BelowProofLimit == BlockProofCount < MaxProofsPerBlock

\* `nonce` is what the miner claims; solutions is what unpacking the proof yields.
submit_proof(who, t, nonce, salt, solutions) ==
  LET current == current_difficulty_for(t)
      record  == [miner |-> who, submitted_at |-> now, salt |-> salt, topology |-> t,
                  energy |-> BestEnergy(solutions, current)]
  IN /\ Miners[who] # None
     /\ BelowProofLimit
     /\ solutions.energies # << >>
     /\ t \in RegisteredTopologies
     /\ t \in MineableTopologies
     /\ nonce = derive_nonce(LastProofBlockHash, who, salt)
     /\ ClearsDifficulty(solutions, current)
     /\ Miners' = [Miners EXCEPT ![who].submitted = @ + 1]
     /\ BlockBestProof' = IF Displaces(record) THEN record ELSE BlockBestProof
     /\ BlockProofCount' = BlockProofCount + 1
     /\ accepted' = Append(accepted, [record |-> record, nonce |-> nonce])
     /\ UNCHANGED <<topologyVars, adminVars, free, roundVars, qblockVars, pot>>

-----------------------------------------------------------------------------
(* Root and council calls. *)

register_topology(t) ==
  /\ t \notin RegisteredTopologies
  /\ RegisteredTopologies' = RegisteredTopologies \cup {t}
  /\ IF DefaultTopology = None
       THEN DefaultTopology' = t /\ MineableTopologies' = MineableTopologies \cup {t}
       ELSE UNCHANGED <<DefaultTopology, MineableTopologies>>
  /\ UNCHANGED <<adminVars, minerVars, proofVars, roundVars, qblockVars, pot>>

MayBecomeDefault(t) == t \in RegisteredTopologies /\ t \in MineableTopologies

set_default_topology(t) ==
  /\ MayBecomeDefault(t)
  /\ DefaultTopology' = t
  /\ UNCHANGED <<RegisteredTopologies, MineableTopologies, adminVars, minerVars, proofVars,
                 roundVars, qblockVars, pot>>

\* Mutant: any number of topologies may be mineable at once.
NoMineableConflict_Unchecked(t) == TRUE

\* At most one topology besides the default may be mineable.
NoMineableConflict(t) ==
  t \notin MineableTopologies /\ t # DefaultTopology =>
    MineableTopologies \subseteq {DefaultTopology}

add_mineable_topology(t) ==
  /\ t \in RegisteredTopologies
  /\ NoMineableConflict(t)
  /\ MineableTopologies' = MineableTopologies \cup {t}
  /\ UNCHANGED <<RegisteredTopologies, DefaultTopology, adminVars, minerVars, proofVars, roundVars,
                 qblockVars, pot>>

remove_mineable_topology(t) ==
  /\ t # DefaultTopology
  /\ MineableTopologies' = MineableTopologies \ {t}
  /\ UNCHANGED <<RegisteredTopologies, DefaultTopology, adminVars, minerVars, proofVars, roundVars,
                 qblockVars, pot>>

set_difficulty(t, difficulty) ==
  /\ t \in RegisteredTopologies
  /\ difficulty.min_diversity = 0 \/ difficulty.min_solutions >= 2
  /\ Difficulties' = [Difficulties EXCEPT ![t] = difficulty]
  /\ UNCHANGED <<topologyVars, TopologyCurveC, BlockRewardOverride, TargetProofBlocksOverride,
                 minerVars, proofVars, roundVars, qblockVars, pot>>

\* The override's c values and the energies they yield must both be ordered.
set_topology_curve(t, curve) ==
  /\ t \in RegisteredTopologies
  /\ curve.min < curve.knee /\ curve.knee < curve.max
  /\ TopologyCurveC' = [TopologyCurveC EXCEPT ![t] = curve]
  /\ UNCHANGED <<topologyVars, Difficulties, BlockRewardOverride, TargetProofBlocksOverride,
                 minerVars, proofVars, roundVars, qblockVars, pot>>

set_block_reward(amount) ==
  /\ amount \in MinBlockReward..MaxBlockReward
  /\ BlockRewardOverride' = amount
  /\ UNCHANGED <<topologyVars, Difficulties, TopologyCurveC, TargetProofBlocksOverride,
                 minerVars, proofVars, roundVars, qblockVars, pot>>

set_target_proof_blocks(blocks) ==
  /\ blocks \in MinTargetProofBlocks..MaxTargetProofBlocks
  /\ TargetProofBlocksOverride' = blocks
  /\ UNCHANGED <<topologyVars, Difficulties, TopologyCurveC, BlockRewardOverride,
                 minerVars, proofVars, roundVars, qblockVars, pot>>

\* External: the emission controller funds the subnet's pot.
FundPot ==
  /\ pot + PotFunding <= MaxPot
  /\ pot' = pot + PotFunding
  /\ UNCHANGED <<topologyVars, adminVars, minerVars, proofVars, roundVars, qblockVars>>

\* External: an account that is not a miner moves everything it has elsewhere.
Spend(who) ==
  /\ Miners[who] = None
  /\ free' = [free EXCEPT ![who] = 0]
  /\ UNCHANGED <<topologyVars, adminVars, Miners, proofVars, roundVars, qblockVars, pot>>

-----------------------------------------------------------------------------
Init ==
  /\ now = 0 /\ inBlock = FALSE
  /\ RegisteredTopologies = {} /\ DefaultTopology = None /\ MineableTopologies = {}
  /\ Difficulties = [t \in Topologies |-> None]
  /\ TopologyCurveC = [t \in Topologies |-> None]
  /\ BlockRewardOverride = None /\ TargetProofBlocksOverride = None
  /\ Miners = [who \in Accounts |-> None] /\ free = [who \in Accounts |-> Funds]
  /\ BlockBestProof = None /\ BlockProofCount = 0 /\ accepted = << >>
  /\ LastProofBlock = 0 /\ LastProofBlockHash = None
  /\ QBlocks = << >>
  /\ QBlockCount = 0
  /\ QBlockBlockById = [i \in 0..MaxBlock |-> None]
  /\ QBlockIdByBlock = [b \in Blocks |-> None]
  /\ pot = 0

MinerCalls ==
  \/ /\ now <= LastRegistration
     /\ \E who \in Accounts : register_miner(who) \/ deregister_miner(who) \/ Spend(who)
  \/ /\ now <= LastMinerBlock
     /\ \E who \in Accounts, t \in Topologies, salt \in Salts, s \in Solutions, b \in 0..now :
          submit_proof(who, t, derive_nonce(BlockHash(b), who, salt), salt, s)

AdminCalls ==
  /\ now <= LastAdminBlock
  /\ \/ \E t \in Topologies : \/ register_topology(t) \/ set_default_topology(t)
                              \/ add_mineable_topology(t) \/ remove_mineable_topology(t)
     \/ \E t \in Adjustable, d \in DifficultyChoices : set_difficulty(t, d)
     \/ \E t \in Adjustable, c \in Curves : set_topology_curve(t, c)
     \/ \E r \in RewardChoices : set_block_reward(r)
     \/ \E k \in TargetChoices : set_target_proof_blocks(k)

Calls == inBlock /\ UNCHANGED <<now, inBlock>> /\ (MinerCalls \/ AdminCalls \/ FundPot)

\* The bound MaxBlock is reached: the model, not the chain, stops here.
Bounded == ~inBlock /\ now = MaxBlock /\ UNCHANGED vars

Next == on_initialize \/ on_finalize \/ Calls \/ Bounded

\* Blocks keep being produced and finished; nobody is obliged to call anything.
Fairness == WF_vars(on_initialize) /\ WF_vars(on_finalize)

Spec == Init /\ [][Next]_vars /\ Fairness

-----------------------------------------------------------------------------
(* Properties. *)

RoundTypes ==
  /\ now \in 0..MaxBlock /\ inBlock \in BOOLEAN
  /\ RegisteredTopologies \subseteq Topologies /\ MineableTopologies \subseteq Topologies
  /\ DefaultTopology \in Topologies \cup {None}
  /\ LastProofBlock \in 0..MaxBlock
  /\ BlockProofCount \in 0..MaxProofsPerBlock
  /\ QBlockCount \in Nat
  /\ QBlockBlockById \in [0..MaxBlock -> Blocks \cup {None}]
  /\ QBlockIdByBlock \in [Blocks -> (0..MaxBlock) \cup {None}]

BookTypes ==
  /\ Difficulties \in [Topologies -> DifficultyConfig \cup {None}]
  /\ TopologyCurveC \in [Topologies -> EnergyCurve \cup {None}]
  /\ BlockRewardOverride \in Nat \cup {None}
  /\ TargetProofBlocksOverride \in Nat \cup {None}
  /\ Miners \in [Accounts -> MinerInfo \cup {None}]
  /\ free \in [Accounts -> Nat] /\ pot \in Nat
  /\ BlockBestProof \in ProofRecord \cup {None}
  /\ \A b \in DOMAIN QBlocks : QBlocks[b].reward \in Nat

\* The storage items of lib.rs keep their types.
TypeOK == RoundTypes /\ BookTypes

(***************************************************************************)
(* The default topology stays mineable through every order of              *)
(* register, repoint, add and remove, everything mineable is registered,   *)
(* and at most one other topology is mineable beside it (the assumption    *)
(* under which the global decay anchor is sound).                          *)
(***************************************************************************)
WhitelistSound ==
  /\ MineableTopologies \subseteq RegisteredTopologies
  /\ DefaultTopology # None => DefaultTopology \in MineableTopologies
  /\ DefaultTopology = None => RegisteredTopologies = {}
  /\ \A s, t \in MineableTopologies \ {DefaultTopology} : s = t

(***************************************************************************)
(* The two qblock indexes are inverse to each other, ids are handed out    *)
(* without gaps in block order, a block has a record exactly when it has   *)
(* an id, and LastProofBlock is the block of the last id.                  *)
(***************************************************************************)
QBlockIndexed ==
  /\ QBlockCount <= now
  /\ \A i \in 0..MaxBlock : QBlockBlockById[i] # None <=> i \in 1..QBlockCount
  /\ \A i \in 1..QBlockCount : QBlockIdByBlock[QBlockBlockById[i]] = i
  /\ \A b \in Blocks : QBlockIdByBlock[b] # None =>
       QBlockIdByBlock[b] \in 1..QBlockCount /\ QBlockBlockById[QBlockIdByBlock[b]] = b
  /\ DOMAIN QBlocks = {b \in Blocks : QBlockIdByBlock[b] # None}
  /\ \A i \in 1..QBlockCount : QBlockBlockById[i] <= LastProofBlock
  /\ \A i, j \in 1..QBlockCount : i < j => QBlockBlockById[i] < QBlockBlockById[j]
  /\ LastProofBlock = IF QBlockCount = 0 THEN 0 ELSE QBlockBlockById[QBlockCount]
  /\ LastProofBlock <= now

(***************************************************************************)
(* The nonce seed: while calls run it is the hash of the last winning      *)
(* block (genesis before the first win), however long the round lasts, and *)
(* each qblock stores the hash of its predecessor, so the winners form a   *)
(* hash chain from which every nonce can be derived again.                 *)
(***************************************************************************)
SeedChain ==
  /\ inBlock => LastProofBlockHash = BlockHash(LastProofBlock)
  /\ \A i \in 1..QBlockCount :
       QBlocks[QBlockBlockById[i]].last_proof_block_hash =
         BlockHash(IF i = 1 THEN 0 ELSE QBlockBlockById[i - 1])

(***************************************************************************)
(* Why indexes and chain stay right: a win is always in a block after the  *)
(* last one, so its number is fresh, and the seed of a running round is    *)
(* kept from the block after the win until the round ends.                 *)
(***************************************************************************)
RoundInductive ==
  /\ QBlockIndexed /\ SeedChain
  /\ QBlockCount <= LastProofBlock
  /\ inBlock => LastProofBlock < now
  /\ LastProofBlock < now => LastProofBlockHash = BlockHash(LastProofBlock)

\* A nonce that won a qblock never wins another: old proofs cannot be replayed.
NonceWinsOnce ==
  LET Nonce(b) == derive_nonce(QBlocks[b].last_proof_block_hash, QBlocks[b].miner, QBlocks[b].salt)
  IN  \A b, c \in DOMAIN QBlocks : Nonce(b) = Nonce(c) => b = c

\* The chain of qblocks in one statement: typed storage, inverse indexes without gaps,
\* a hash chain of seeds, and no nonce in it twice (on_initialize, on_finalize).
RoundsSound == TypeOK /\ RoundInductive /\ NonceWinsOnce

(***************************************************************************)
(* The winner recorded for a block is the best proof accepted in it, the   *)
(* earliest one among equals, and its nonce can be derived from what the   *)
(* record stores; the proofs of one block never leak into the next.        *)
(***************************************************************************)
BestProofWins ==
  LET IsBest(i) == /\ \A j \in DOMAIN accepted : accepted[i].record.energy <= accepted[j].record.energy
                   /\ \A j \in 1..(i - 1) : accepted[i].record.energy < accepted[j].record.energy
      win == QBlocks[now]
  IN /\ inBlock => IF accepted = << >> THEN BlockBestProof = None
                   ELSE \E i \in DOMAIN accepted : IsBest(i) /\ BlockBestProof = accepted[i].record
     /\ ~inBlock => BlockBestProof = None
     /\ ~inBlock /\ now > 0 /\ accepted # << >> =>
          \E i \in DOMAIN accepted :
            /\ IsBest(i) /\ now \in DOMAIN QBlocks
            /\ win.miner = accepted[i].record.miner /\ win.energy = accepted[i].record.energy
            /\ derive_nonce(win.last_proof_block_hash, win.miner, win.salt) = accepted[i].nonce

(***************************************************************************)
(* The books of a miner: what it has won and earned since it registered is *)
(* what the qblocks of that time say, through deregistering between a      *)
(* proof and its block's end, registering again, and an empty pot.         *)
(***************************************************************************)
MinerLedger ==
  \A who \in Accounts : Miners[who] # None =>
    LET own == {q \in DOMAIN QBlocks :
                  QBlocks[q].miner = who /\ q >= Miners[who].registered_at}
    IN /\ Miners[who].won = Cardinality(own)
       /\ Miners[who].earned = SumFunctionOnSet([q \in own |-> QBlocks[q].reward], own)

(***************************************************************************)
(* A win moves the baseline of the winning topology only, from the live    *)
(* threshold towards the winning energy: never easier than the live        *)
(* threshold (so a late win keeps the easing it needed), never harder than *)
(* the winner or than the curve-span cap allows.                           *)
(***************************************************************************)
WinHardensOwnTopology ==
  [][\A t \in Topologies :
       (inBlock /\ ~inBlock' /\ BlockBestProof # None) =>
         LET live == current_difficulty_for(t)
             next == Difficulties'[t]
         IN  IF t # BlockBestProof.topology THEN next = Difficulties[t]
             ELSE /\ next # None
                  /\ next.max_energy <= live.max_energy
                  /\ next.max_energy >= MinOf(BlockBestProof.energy, live.max_energy)
                  /\ live.max_energy - next.max_energy <= max_hardening_delta(energy_curve_for(t))
                  /\ next.min_solutions = live.min_solutions]_vars

(***************************************************************************)
(* A round is not eased before its target: as long as it is within the     *)
(* target the live threshold is the stored baseline, and it never eases    *)
(* past the easy end of the curve.                                         *)
(***************************************************************************)
EasesOnlyWhenOverdue ==
  \A t \in RegisteredTopologies :
    LET live == current_difficulty_for(t).max_energy
        base == BaseDifficulty(t).max_energy
    IN /\ live >= base
       /\ live > base => /\ LastProofBlock > 0
                         /\ now - LastProofBlock > target_proof_blocks
                         /\ live <= energy_curve_for(t).max

(***************************************************************************)
(* While a round lasts the passing of blocks never makes it harder, also   *)
(* where the geometric phase of its easing ends and the linear one begins. *)
(***************************************************************************)
BlocksNeverHarden ==
  [][~inBlock /\ inBlock' =>
       \A t \in Topologies :
         current_difficulty_for(t).max_energy <= current_difficulty_for(t)'.max_energy]_vars

(***************************************************************************)
(* With no further wins or governance the threshold of every mineable      *)
(* topology keeps easing until it reaches the easy end of its curve, so a  *)
(* stalled round becomes minable again.                                    *)
(***************************************************************************)
StalledRoundEases ==
  <>[](LastProofBlock > 0 => \A t \in MineableTopologies :
         current_difficulty_for(t).max_energy >= energy_curve_for(t).max)

\* apply_decay eases a round neither before it is overdue, nor back and forth, nor too
\* little in the end.
EasingOnTime == []EasesOnlyWhenOverdue /\ BlocksNeverHarden /\ StalledRoundEases
=============================================================================
