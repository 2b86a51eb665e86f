# TLA+ models of the Quip Network runtime

The repository is a Substrate solochain. Its own logic lives in a handful of
FRAME pallets, in the runtime's configuration of staking and elections, in a
crate of Ising validation routines and in the hybrid transaction signatures; the
node and the client library put those on the network. This project models the
stateful parts as state machines and the stateless ones as operators, checks both
with TLC on small instances and proves the central invariants with TLAPS for every
value of the constants.

Contents: [inventory](#inventory), [modelling](#how-the-code-is-modelled),
[modules](#modules), [runs](#runs), [fairness](#fairness),
[refinement](#refinement), [upgrades](#upgrades), [proofs](#proofs),
[findings](#findings), [plan](#plan), [limits](#not-modelled).

## Inventory

### The parts and how they interact

| part | state | operations | correct when |
|---|---|---|---|
| `pallets/quantum-compute-mempool` | job specs, orders, open list, expiry queue and its cursor, best energies, incremental rankings, payees, proposers' slots, results, reserves | propose (with or without payee requirement), submit, claim, reclaim, purge, (de)register solver, register spec; `on_initialize` drains the expiry queue; upgrade | no order is lost or finalised early, the ranking is the true one, each reward is paid once, as announced |
| `pallets/quantum-pow` | topologies, whitelist, difficulties, curves, miners, best proof of the block, seed, qblocks and their two indexes | submit proof, (de)register miner, governance of topologies, difficulty, reward and target; `on_initialize`, `on_finalize`; upgrade | the best proof wins, no nonce wins twice, winners form a hash chain, thresholds move the right way and never stall |
| `pallets/miner-registry` | descriptors with deposits, participation per qblock and its count | set/clear descriptor, participate, paged query, migration | reserves equal deposits, finished rounds are frozen, pages join |
| `pallets/emission-controller` | anchor, routes, issued per subnet and in total, faucet budget | accrual in `on_initialize`, `pay`, `mint_faucet`, rebasing upgrade | issuance is accounted for and tracks the rate in force |
| `pallets/faucet-ops` | fuse, authority | mint, rotate, disable, closing upgrade | the budget is for life and the fuse is final |
| `pallets/xqvm` | programs, owners, deposits | store, remove, evict, execute | deposits match stored programs, and their coming and going blocks no settlement |
| `pallets/slash-policy`, `runtime/src/configs/slashing.rs` | limits, per-stash history, staking's queue of slashes | discretionary slash, set limits and window, preflight and application of reports | a rolling window never exceeds its budget, no slash lands in a processed bucket |
| `pallets/validator-admission`, `runtime/src/configs/{election,validator_onboarding}.rs` | admission mode, approved set, election round, era | approve, remove, advance, root dispatch, session and poll hooks | only admitted validators are elected, from current data, and a failed election is retried |
| `crates/quantum-validation` | none | packing, energies, diversity, topology checks and hash, nonce derivation | agrees with its reference definitions |
| `runtime/src/genesis_config_presets*` | none (a plan and operator input) | gates and construction of presets, allocation of the mainnet supply | nothing unresolved, unsafe or unpayable reaches a genesis block |
| `crates/transaction-crypto*`, `js/quip-signer` | none (secrets) | derive, sign, encode, decode, verify | what is signed is accepted, and imported accounts are the node's |
| `node`, `staking_rewards.rs`, `vesting.rs`, `evm-chain-id`, `template`, weights | Substrate's own | service assembly, constants, cost tables | outside these models |

Interactions. `quantum-pow` pays winners from the Ising pot of
`emission-controller`; `miner-registry` and the outside read the qblock counter of
`quantum-pow`; `faucet-ops` mints through `emission-controller`; the mempool asks
`xqvm` to run the programs of a spec, which may be removed meanwhile, and takes its
escrow from the same balances as `xqvm` its deposits. Removal of a validator calls
into the election round, whose result staking asks for when a session rotates;
council slashes and equivocation reports share staking's queue of deferred slashes;
a council motion reaches Root only through the call filter. A signed transaction
passes from the JavaScript signer through the WASM core to the runtime's verifier.

### What is hard here

There are no threads: a block is a sequence of hooks and calls. What is hard to
test is the *order* of calls of independent accounts and of governance within and
across blocks; work that hooks spread over blocks (the expiry backlog, an election
round); values computed once and again later (announced and paid winners, the
threshold a proof met and the threshold that is recorded); records with different
life times (a descriptor and the participation guard that reads it, a history kept
longer than the window that reads it); data collected before and used after a
removal; delayed and repeated transactions and reports; storage that an upgrade
reinterprets; two implementations of one rule on both sides of a wire; and integer
arithmetic at its edges. `PROJECT.json` lists these hazards at their lines, each
with the properties that would notice it going wrong.

## How the code is modelled

* A FRAME call is transactional: an `Err` rolls the storage back. So `ensure!` is a
  guard, a rejected call is no step, and one action is one whole call.
* A block is the step of the `on_initialize` hooks, any number of calls, and, where the
  pallet has one, the step of `on_finalize`. In `ValidatorSet` the session may rotate,
  the election polls, then calls run.
* A stateless function that may fail returns `Ok(value)` or `Err(name)` (`Results`), so
  that the order of its checks is visible; a panic is `Err("panic")`.
* Names are those of the code wherever TLA+ allows. A definition followed by
  `_Something`, commented "Mutant", is a deliberately wrong variant that shows a
  property can fail; no specification uses it.
* Data is cut to what the properties tell apart: a submission is its energies and the
  diversity of the selected subset, a descriptor the lengths of its strings, a hash an
  injective constructor, a blake3 sample a nondeterministic choice from its range, an
  election result its set of winners.
* History variables (`arrival`, `announced`, `paid`, `accepted`, `unread`,
  `lastOldRound`, `credit`, `covered`, `stale`, `motions`, `inputs`) are read by no
  operation of the code; `inputs` only bounds the model.

## Modules

**Compute market.** `MempoolRewards` - `rewards.rs` as pure operators: the
insertion of a solver into a bounded ranking and the three splits of a reward.
`ComputeMempool` - the marketplace. An order's life is *Opened*, *Expired* (by
`on_initialize`, at most `MAX_FINALISED_ORDERS_PER_BLOCK` per block), *Closed* (by
`claim_reward` or `reclaim_order`). `OrdersExpiringAt` is the queue as a set of
<<bucket, id>> pairs. `locked` and `programs` are moved by other pallets
(`External`). `MempoolUpgrade` - the same on a chain that comes from storage
version 1 or 2. `OrderEscrow` - the abstract promise about money, and
`EscrowRefinement` - the mapping under which `ComputeMempool` implements it.
`ProgramMarket` - `pallet-xqvm` composed with the mempool: storing, removing and
evicting programs in place of the free `programs` variable.

**Proof of work.** `PowDifficulty` - `difficulty.rs`: easing of an overdue round and
hardening after a win. Easing has both phases of `ease_room`, geometric above the
crossover and linear at the floor below it. The power `libm::pow(1 - rate, blocks / E)`
is a table, `Retained`, in parts of `One`; the block at which the code's logarithm ends
the geometric phase is read from the same table (the last block whose room still beats
the crossover, plus one). With the instance's resolution the eased values are those of
the code's floating point formula for every room up to 90 and 55 epochs; at production
scale a table of that kind differs by at most one thousandth of an energy unit.
`QuantumPow` - the race for qblocks: one best proof per block, `on_finalize` writes the
qblock, pays, retargets and opens the next round, whose seed is the hash of the winning
block and is cached by the next `on_initialize`. `PowUpgrade` - the cumulative migration
to version 6 as a function on storage.

**Registry.** `MinerRegistry` - descriptors, deposits and participation, and the
migration between the two descriptor layouts. A behaviour starts on a fresh chain or on
one of storage version 1 at any point of its life: rows of the first layout or of the
current one (the test of the migration files the latter), their deposits reserved,
participants of any rounds up to the candidate. `NewQBlock` stands for quantum-pow
finishing a round.

**Issuance.** `EmissionController` - the schedule: `accrue` with its loop over routes
as a fold, `rebased_start`, rewards from a pot, and the faucet's backend. A chain
below storage version 2 accrues at the old annual rate. `credit` integrates the rate
in force. `FaucetOps` - extends it with the faucet's own state and composes
both: their hooks share a block, the faucet's mint is a step of both pallets.

**Validators.** `ValidatorSet` - admission, the election provider and the session
scheduler of `election.rs`, around an external multi-block election (one page, no signed
phase), staking (`ForceEra`, `CurrentEra`, when `new_session` asks for a result, and the
floor `MinimumValidatorCount` below which it refuses one: the era in force and its
validators stay, or era 0 opens without any) and sessions. `SlashPolicy` - motions,
limits and the rolling budget, together with the guard on equivocation reports, over
staking's bonded eras and deferred slashes (external). `CouncilRootCalls` - the filter
over the tree of nested calls. `ElectionVoters` - the voter snapshot under its count and
byte bounds.

**Algorithms.** `QuantumValidation` - allowed-value specs, packing, topology checks and
hash, energies, Hamming distance, farthest-point selection, scoring of a proof.
`XqvmShape` - the control-flow shape of a program and the transform under its shared
step budget. `GenesisGate` - the gates, presets and allocation plan. `HybridSignature`
- from a secret to an accepted transaction: signer core, bindings, the polkadot-js
signer and the runtime's verification. `PureAlgorithms` evaluates each of these and
`CouncilRootCalls`, `ElectionVoters`, `PowUpgrade` once per input: `problem` is the
input, `answer` what the code returns, one action per algorithm; each property
compares the answer with a definition that does not follow the code's steps (a sum, a
set comprehension, a best choice over all subsets, the bare rule).

`MCMempool`, `MCUpgrade`, `MCMarket`, `MCPow`, `MCRegistry`, `MCIssuance`,
`MCValidatorSet`, `MCSlashPolicy`, `MCAlgorithms` - the instances.
`FiniteSums` - lemmas on sums over finite sets.
`ComputeMempool_proofs` - theorems and proofs about the mempool, and
`MempoolCompositions_proofs` about what is built on it: the refinement, the market
with `pallet-xqvm`, the upgraded chain. `QuantumPow_proofs`, `MinerRegistry_proofs`,
`FaucetOps_proofs`, `ValidatorSet_proofs`, `SlashPolicy_proofs` - the other components.

## Runs

| run | question | instance |
|---|---|---|
| `mempool_queue` | Does the expiry queue lose, duplicate, reorder or anticipate an order, is an outcome final at expiry, and is each order finalised, also after an upgrade? | three orders, a budget of two per block, deadlines of zero, short and too long, so that a backlog forms and the first solution moves a bucket; a new chain and every chain of version 1 or 2 with up to three open orders |
| `mempool_orders` | Is the incremental ranking the true one, is what was announced payable and paid, do reserves equal the unsettled rewards, and does the order book implement `OrderEscrow`? | one order of any kind or two SingleBest ones at once, three solvers of which one is the proposer, two ranks, ties, improvements of truncated solvers, splits with a remainder and at the smallest reward; locks and a transform program come and go, payee requirements |
| `mempool_programs` | Do program deposits and escrow stay apart, do removed programs block a settlement, do payees meet the order's requirement? | two programs, one too deep to store, two authors who also propose and solve; thresholds, valid and invalid payees, one winner per order |
| `pow_rounds` | Do the best proofs win, once, in a hash chain, and do the miners' books agree? | two miners, two salts, four blocks, replays of every earlier seed, an empty pot |
| `pow_difficulty` | Can governance break the whitelist, what does a win do to thresholds, and does a stalled round become minable again? | three topologies on two curves, one whose room starts above the crossover of easing and one below it, a well-formed and a malformed curve override, a winner closer than the least motion, one shared decay anchor, governance in the first block, wins until block 3, then only blocks until 29 |
| `registry_books` | Reserves, participation index, paging, frozen rounds | two accounts, valid, unaffordable and malformed descriptors, a fresh chain and every version-1 chain with rows of either layout, two deposits and participants of three rounds; pages of three accounts and more are left to the proof |
| `registry_count` | violation, see findings | |
| `registry_upgrade` | violation, see findings | |
| `issuance` | Is every unit accounted for, and does issuance track the rate in force from above and below? | two subnets with shares 3/4 and 1/4, eight seconds of clock in steps of 0 to 2, upgrades at any blocks, a share too small to open its pot at once |
| `validator_set` | Is an unadmitted or stale result ever used, and do eras keep coming? | three validators and a floor of two, three calls or failures in any order, all four forcings, unsigned phase of two blocks, sessions as short as one block |
| `slash_policy` | Does the pruned history give the budget of all motions ever charged, whatever the window was meanwhile? Do slashes and late reports land where staking still reads them? | one stash, five eras of different lengths, windows from 1 to one above the maximum, fractions in and out of the rails |
| `algorithms` | Does each pure algorithm return what its reference says? | bounded families of inputs, see below |

Bounds. `MaxBlock` ends a model, not the chain; it is large enough for the longest story
a property tells (for the queue: propose, solve, expire under a backlog, and drain; for
the seed: win, cache, win on the cached seed, replay; for easing: from the last win
through both phases to the end of the curve, hence 29). `LastProposalBlock`,
`LastAdminBlock`, `LastRegistration` and `LastMinerBlock` only stop new input so that
the consequences of the last one are seen. `UpgradeBlock` is the last block of an old
chain; with 1, an open order of that chain may have been solved or not. `MaxInputs` = 3
in `validator_set` allows remove, admit again and force or fail within one round; three
validators and a floor of two let one removal be harmless and two go below the floor.
`Adjustable` names the topologies whose difficulty and curve Root changes: two share a
curve, so one is enough. `MaxEra` = 4 is one more than the longest window. `MaxPending`
bounds the reports waiting. `MaxCount` bounds a counter that `registry_count` shows can
grow without need. The balances are small but around the interesting thresholds: the
existential deposit, the smallest reward, a deposit that cannot be paid. In `algorithms`
a byte has three bits (`ByteBits`), so that values cross byte borders and ranges
overflow their width; the call filter has depth 2 and a budget of 4; the length byte of
a signature ranges to 2 (`MaxDelta`). These are parameters of the code's own rules, and
the families hold both sides of each.

Symmetry. Only `pow_rounds` uses it, for accounts and salts: no constant or definition
distinguishes their members, and the run checks no liveness property. The other
instances are small enough without.

Deadlock is not checked in `slash_policy` (the last era ends the model) and in
`algorithms` (an answered input is done). Everywhere else it is: some call is always
possible, and `QuantumPow` stutters at its bound.

A property that a run names is often a conjunction of parts that are stated, each with
its own comment, right above it: `QueueSound` is the types, the inductive invariant of
the queue and `NoEarlyFinalisation`; `BacklogIsHarmless` is `OutcomeFrozenAtExpiry` and
`FinalisedInBucketOrder`; `RoundsSound` contains `QBlockIndexed`, `SeedChain` and
`NonceWinsOnce`; `EasingOnTime` is `EasesOnlyWhenOverdue`,
`BlocksNeverHarden` and `StalledRoundEases`;
`ElectedAreCurrent` is `WinnersAdmitted` and `NoStaleExport`; and so on. The type
invariant of a module is a part of its first such conjunction.

What `issuance` shows beyond the invariants' names: `rebased_start` runs before the
accrual of its block and computes from what was issued so far, so the upgrade forfeits
the interval since the last accrual, at most one block gap, less than a second of
rounding, and what the pots that were not open by then had not received: the anchor
is computed from the total, so all subnets share that loss. `Forfeited` has exactly
these terms. Eight seconds are the least in which a second rebase, were the version
guard missing, would exceed them.

What `validator_set` shows: `NoStaleExport` is stronger than "winners are admitted".
An account that is removed and approved again between snapshot and export would pass
the admission check with data from before its removal; `LiveRoundIsFresh` says why it
does not happen (removal ends the round). `ErasKeepComing` has the condition that eras
are not paused and that candidates enough for staking's floor stay; below the floor
staking keeps the validators it has, by design (the runtime's test
`minimum_floor_retains_old_set_on_over_aggressive_removal`).

What the mempool's runs do not show: a call is one step, so the rollback of a settlement
halfway through its transfers is FRAME's and assumed; `mempool_queue` has no programs, the
removal of one under an open order is a matter of `mempool_programs`. What `algorithms`
assumes: that one transaction has one envelope (`EnvelopeUnique`, in `SignersAgree`) is
shown for the padding and the length byte; that the composite signature scheme accepts
one string per key and message is taken from the external `composite_verify`.

## Fairness

Block production is the only thing assumed: weak fairness of `on_initialize`
(mempool; `Block` on an upgraded chain), of both hooks (quantum-pow), and of `Poll`
and the rotation of sessions (validators). Substrate runs these hooks in every
block without anybody's call. In `validator_set` fairness is for rotations whose
export does not fail: an export may fail any number of times the bound allows, not
for ever. No account is assumed to do anything, so the liveness properties
(`EveryOrderExpires`, the second half of `EasingOnTime`, `ErasKeepComing`) rest on
hooks alone;
that a round gets its solution without a submission is the fallback of the election
pallet.

## Refinement

`OrderEscrow` says what a proposer and a solver rely on: a pledge leaves the proposer's
balance once, a decision fixes the winners, and a settlement pays the whole pledge to
winners only or returns it, once. It knows no queue, ranking, reserve or lock.
`EscrowRefinement` maps an order's status to its stage and the stored ranking at expiry
to the winners; `EscrowImplemented` is checked as a property of `mempool_orders`. In
particular `claim_reward` may not pay out of the reserve of another order of the same
proposer, which the sum in `EscrowBacksOrders` alone would not exclude.

## Upgrades

Mempool: `MempoolUpgrade!on_runtime_upgrade` is the storage a chain of version 1 (wiped
and seeded again) or 2 (indexed for expiry) has before the first hook of the new
runtime; all queue properties hold from there. Quantum-pow: `PowUpgrade` maps storage of
any version to version 6; `UpgradeKeepsWins` compares what remains with what the old
layout meant. Registry: an action of `MinerRegistry`, the first of a version-1 chain.
Emission and faucet: actions interleaved with everything else.

## Proofs

All are safety, for every value of the constants that meets the named assumptions of the
modules: sets of accounts, orders, topologies and routes are finite, amounts and bounds
are naturals, `None` is no value, the budget per block is positive, and the integrity
checks the pallets make themselves hold; the terms an old chain's open orders may have
are valid ones (`LegacyAssumption`), and program deposits are naturals
(`MarketAssumption`). Theorems with one more hypothesis name it in their statement:
`RewardsCoverDeposits` or a part of `ScheduleFits`, both explained below; the runs'
instances that check those properties meet them. Bounds such as `MaxBlock` are constants
too, so no theorem depends on their size.

**Sums and other recursions** (`FiniteSums`). Counting arguments need induction over
finite sets. Instead of an induction principle with an operator as a parameter, the
lemmas take a minimal counterexample: a finite family of subsets with a member has a
least one (`MinimalSubset`), and the sum over a least bad set is the sum over a smaller
good set plus one term. From there: sums are defined, unchanged off their support,
monotone, linear, change by what one entry changes (`SumChange`), and split by owner
(`SumByOwner`). The same device proves what the accrual loop, a fold over the routes,
keeps (`LoopKeeps`).

**Expiry queue** (`ComputeMempool_proofs`). `QueueHoldsOpenOrders` is not
inductive: moving an order forward after its first solution removes the entry
*computed from the order*, so one has to know that an unsolved order that may still
be moved sits in exactly the bucket computed for it, that no entry is later than the
order's own deadline or the block after it was queued, that the cursor is at most one
block ahead of the clock, and that ids at or above `NextOrderId` hold no order. These
are the other conjuncts of `QueueInductive`; they are weak enough to hold also for an
order that an upgrade queued after its deadline. `QueueCorrect` proves it together
with `TypeOK`; `NeverEarly` follows from it, since entries are never earlier than
the effective expiry; `QueueStaysSound` joins the three.

**From a submission to the payout** (`ComputeMempool_proofs`).

* *Ranking* (`RankingCorrect`). The position of an entry in the stable sort is its rank,
  so the sorted list is the unique list ordered by energy and then by position. The code
  keeps only the first n, so an improvement of a solver that was cut off meets a list
  without it. `RankingInductive` therefore says of the whole set of participants that
  the stored list is its n best by energy, ties to the earlier, that the order of
  arrival never has two solvers before each other, that the solution count is their
  number, and that an id without an order has no traces.
* *Escrow* (`EscrowCorrect`). `MoneyInductive`: each account's reserve is the sum of the
  rewards of its unsettled orders, and these are its slots. That the money is constant
  is a fact of each step (`MoneyMoves`), so that it can be reused where another pallet
  moves money too. A proposal adds one term, a settlement removes it, paying several
  winners moves money between accounts only (`SumByOwner`: a payout list sums to the
  same by entry and by account, also when the proposer is a winner).
* *Payable* (`PayableCorrect`): the three splits sum to the reward, fall with the rank
  and open accounts. The last needs `RewardsCoverDeposits`: `MinReward` is at least the
  existential deposit times the triangular number of `MAX_REWARD_WINNERS`. The runtime's
  constants meet it with room (a minimum reward of 1 UNIT; 32 winners need 528 deposits
  of a thousandth), `MempoolOrders.cfg` meets it exactly.
* *Outcomes*: what is announced at expiry and stored is `compute_payouts` of a frozen
  ranking, so the claim pays it (`PaidCorrect`, `OutcomeInductive`); participants of an
  order with a requirement have valid payees (`PayeesCorrect`); a backlog changes
  neither an outcome nor the order of buckets (`BacklogCorrect`).
* *Refinement* (`MempoolKeepsPromise`, in `MempoolCompositions_proofs`): with these
  invariants each step of the mempool is a pledge, a decision, a payment, a refund, or a
  stutter of `OrderEscrow`. That a payment leaves from the pledge of this order, and
  that winners are decided once, is where the ranking and the escrow invariants are
  used.

**What is built on the mempool** (`MempoolCompositions_proofs`). The invariants above
are joined in `MempoolInductive`, which `MempoolStep` carries over any step of the
mempool and `MempoolAside` over any step that only touches the balances of others.

* *Market* (`DepositsCorrect`, `SettlementOpen`, `MarketKeepsMempool`). Two pallets
  reserve from one account: `MarketInductive` adds to `MempoolInductive` that the holds
  of `pallet-xqvm` on an account are the deposits of the programs it owns, that money,
  free, reserved and held, is constant, that no account falls below the existential
  deposit, and that the spec of an order stays registered when its programs go.
  `SettlementNeverBlocked` then says that an order past its expiry is accepted by
  `claim_reward` if it has winners and by `reclaim_order` otherwise, whatever programs
  were removed, and that the payout keeps alive a proposer whose other funds are
  reserved or held. It is stated with the
  calls' own guards (`ClaimAccepted`, `ReclaimAccepted`), not with `ENABLED`, and needs
  `RewardsCoverDeposits`. `MarketSpec` has no locks on balances, so `SettlementOpen`
  says nothing about a proposer whose reserve is slashed or locked by another pallet.
* *Upgraded chains* (`UpgradeKeepsQueue`, `UpgradeBacklog`, `UpgradeKeepsRanking`). The
  storage that `on_runtime_upgrade` leaves meets `QueueInductive` and `RankingInductive`,
  from where the steps are those of the mempool. Reserves are not part of it: the wipe
  below version 2 strands them (see the observations).

**Proof of work** (`QuantumPow_proofs`).

* *Whitelist* (`WhitelistCorrect`): inductive by itself, one step per call.
* *Rounds* (`RoundsCorrect`): the indexes stay inverse because a win is always in a
  block later than the last; the seed stays right because it is cached in the block
  after a win and a block cannot win before its own `on_initialize`. `RoundInductive`
  adds these facts to `QBlockIndexed` and `SeedChain`.
* *No replay* (`NoReplay`): the hashes in the chain are pairwise different, so a
  nonce, which commits to one of them, identifies its qblock. It assumes collision-free
  block hashes and nonces. `RoundsStaySound` joins both.
* *The race* (`BestWins`): `RaceInductive` adds that every proof accepted in a running
  block commits to the seed `on_finalize` will store, so that the winner's nonce can be
  derived from the record.
* *Thresholds* (`NeverEasedEarly`, `WaitingNeverHardens`, `WinsHardenOwn`): bounds on the
  easing and hardening arithmetic, integer divisions included, for all curves and
  targets, in both phases of easing and across the crossover, and for every table
  `Retained` of fractions that fall with the blocks (`RetainedAssumption`: all that is
  used of the power). The first two state `EasesOnlyWhenOverdue` and `BlocksNeverHarden`,
  the parts of `EasingOnTime` that are no liveness property. `BlocksNeverHarden` is where
  the handover matters: one more block lengthens the geometric phase or the linear one
  (`GeometricBlocks`), and the room's share given up never falls (`EaseGrows`).
* *Books* (`LedgerCorrect`): a registration starts with no qblock of its own because
  none of the running block exists yet (`LedgerInductive`).

**Registry** (`MinerRegistry_proofs`). `ReservesCorrect`: `ReserveInductive` adds that no
row was lost before the upgrade and that a row has one of two layouts, so what the upgrade
does not return it leaves to `unread`. Its corollary `DecodableReturned` says that the
migration's comments are right on a chain without rows of the first layout. `FrozenRounds`:
only the candidate round is written. `ReadersSeeTheRound`: `FollowsInductive` holds of any
version-1 chain whose index follows its rounds; the upgrade drops the descriptors under the
latest records, all of which are then of rounds up to the candidate (`lastOldRound`), and no
later step leaves a record without a descriptor. Pages join because the accounts after a
cursor are those of higher rank.

**Issuance** (`FaucetOps_proofs`). `BudgetCorrect`, `ClosedForGood`: only the mint
touches what the faucet issued, and only while it is enabled. `LedgerCorrect`: the set of
books that are explained by their sources is closed under funding one subnet, whether
the deposit succeeds or not, hence under the loop. `NeverAhead` states
`NeverAheadOfSchedule`, the upper half of `IssuanceTracksSchedule`: while a schedule
runs, its rate times the time since the anchor is at most what the history of rates
has credited (`PaceInductive`). It needs `NewAnnual <= OldAnnual`, which the code
states ("the annual rate drops from 40M to 30M", `emission-controller/src/lib.rs:247`): a
schedule that has issued nothing keeps its anchor at the upgrade, and a higher rate
would then apply to seconds already past.

`TracksSchedule` adds the lower half. `ReachInductive` says that what was credited is at
most the rate times the time since the anchor plus what the rebase forfeited, that a
chain before its upgrade is credited at most one gap since its last accrual, and that
everything credited fits the currency. Then the entitlement never overflows, a turn of
the loop fails only for a pot it cannot open, what it reaches for its subnet later turns
keep (`LoopReaches`), and both roundings lose less than a unit (`TargetShort`). At the
upgrade the shortfalls of all subnets are summed (`SharesShort`), since the new anchor
comes from the total. The hypothesis `ScheduleFits` is what the code's constants give:
the rate does not rise; 2^128 holds a year's product and genesis, budget and schedule
together; anchors are dates of the chain (the presets leave `start_at` empty, so the
first block's time is taken), and late enough on the Unix clock for the rebased
anchor not to be cut at zero. Without the last two a chain anchored long before
its first block, or in the first years of the epoch, would lose more at the rebase.
The attempt corrected the property: an earlier bound counted neither the roundings,
which matter for an existential deposit of one, nor the unopened pots at the rebase.

**Validators** (`ValidatorSet_proofs`). `RoundStaysSound`: `RoundSound` is inductive as
it stands, one step per call and hook. `PlannedErasAreCurrent`: a result is exported
only from a live round, which a removal or a pause would have ended; that the validators in
force change only with a planned era, and then number at least the floor, needs that there
are none before the first era (`EraPrecedesValidators`).

**Slashing** (`SlashPolicy_proofs`). `HistoryStaysSound`: pruning drops an era only when
no window the pallet accepts can reach it again, so the stored sums are those of all
motions on every era that counts, and the eras kept fit the bound. `BudgetRolls`: the
check on the stored sums is therefore a check on all motions. `SlashesArrive`: the
deferral puts a charge in a bucket after the current era, and the era found for a
report's session is the last one begun by then.

Only model-checked:

* the liveness properties `EveryOrderExpires`, `StalledRoundEases`, `ErasKeepComing`;
* everything in `algorithms`: recursive functions and bit operations on bounded inputs;
* that the mempool with locks on balances still settles what it can: locks are in
  `mempool_orders` only.

## Findings

* `registry_count`: `participate`, `clear_descriptor`, `set_descriptor`, `participate`
  in one round counts an account twice; a comment says the guard excludes it.
* `registry_upgrade`: `MigrateToV2` returns deposits in a loop over `drain()`, which skips
  the rows it cannot decode, and those of the first layout, for which the migration was
  written, are such rows: their deposits stay reserved, and filing again reserves a second
  one. The comments in the loop say each deposit is returned; the test files its rows in
  the current layout.

Observations on the code met while modelling, which no run is about:

* A governance call after the winning proof in the same block changes the threshold that
  `on_finalize` records as the one the proof had to clear (`quantum-pow/src/lib.rs:665`,
  `types.rs:190`).
* `MigrateToV2` drops descriptors and keeps `LatestParticipation`, so an account that
  took part before the upgrade has a record without a descriptor until it files again
  (`miner-registry/src/migrations.rs:35`); `clear_descriptor` removes the record so that
  no such row dangles (`lib.rs:567`). It does no harm: the record still refuses a second
  declaration for its round (`ParticipationIndexed` says which records these are).
* The mempool's wipe below version 2 leaves the reserves of its orders reserved.
* The schedule's rebase returns an error on a zero rate or a duration beyond `u128`, and
  the upgrade then stays at its version (`emission-controller/src/lib.rs:250`). The
  runtime's rate is a positive constant and what was issued a part of the supply, so
  `EmissionController` leaves that path out.
* The envelope decoder of the signer core ignores trailing bytes; the JavaScript side
  checks the length, and `EnvelopeUnique` (a part of `SignersAgree`) is about the
  runtime's verification.

## Plan

Done: the stateful pallets, the validator set and slashing, the escrow refinement, the
upgrades, and the pure algorithms; proofs of every safety property the runs of the
stateful components check. Worth doing next:

1. `MempoolUpgrade` with money: what an upgraded chain of version 2 owes and reserves.
2. The algorithms as functions on sequences rather than recursive operators, so that
   the selection bound and the exactness of packing can be proved.
3. The mempool and proof of work on one set of balances with `emission-controller`.

## Not modelled

* Weights and fees (costs, no state), benchmarks, events except the announced and paid
  winners, and error texts.
* The estimate of the ground-state energy and the logarithm and power of easing
  (floating point: the power is a table); the reporting variant of `validate_solution`,
  which no pallet calls.
* The XQVM interpreter, a library; `execute` writes no storage.
* `staking_rewards.rs` and `vesting.rs`: one formula and constants handed to SDK
  pallets. Elections are modelled by their winners: stakes, supports and scores belong
  to the SDK's solver.
* Runtime assembly (`lib.rs`, `apis.rs`, `configs/mod.rs`): wiring whose constants are
  the parameters of the modules. The governance matrix is a test suite.
* The node; the fake signature for fee estimation and the injection into a page of
  `js/quip-signer`; the padding check inside `HybridPair::verify`, external.
* `evm-chain-id` (a constant) and `template` (the unused example pallet).
* The testnet runtime: all its source files but two are byte-identical to the main
  runtime's, the two differ in names and constants; what is said of one holds for both,
  and the map names the main one.

About half of the repository's Rust lines are inline tests, generated weights, the
second copy of the runtime and wiring, so the mapped share stays well below the share
of the program's logic that is modelled.
