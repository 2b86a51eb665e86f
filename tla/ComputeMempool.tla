---------------------------- MODULE ComputeMempool ----------------------------
(***************************************************************************)
(* Pallet quantum-compute-mempool: a marketplace where a proposer escrows  *)
(* a reward for an Ising problem, registered solvers submit solutions      *)
(* until the order's effective expiry, and anybody settles the order       *)
(* afterwards.  Source: pallets/quantum-compute-mempool/src/lib.rs.        *)
(*                                                                         *)
(* A runtime call that returns an error is rolled back by FRAME, so each   *)
(* `ensure!` is a guard and a rejected call is no step at all.  A block is *)
(* one OnInitialize step followed by any number of calls at that height.   *)
(*                                                                         *)
(* Left out: Ising coefficients and spins (a submission is the sequence of *)
(* energies its vectors score after the transform, and the diversity of    *)
(* the selected subset), events other than the announced and paid winners, *)
(* weights, and the statistics nothing reads back (solutions_submitted,    *)
(* rewards_earned, total_orders, successful_orders, registered_at).        *)
(***************************************************************************)
EXTENDS MempoolRewards

CONSTANTS
  Accounts,            \* every account
  Proposers,           \* bound: the accounts that propose orders in the model
  Miners,              \* bound: the accounts that register as solvers
  Lockable,            \* bound: the accounts other pallets put locks on
  Specs,               \* job spec ids; the hash covers the program references
  DefaultIsingSpec,    \* the spec genesis inserts (no programs)
  Programs,            \* program hashes known to pallet-xqvm
  ValidationProgram,   \* [Specs -> Programs \cup {None}]
  TransformProgram,    \* [Specs -> Programs \cup {None}]
  MinerTypes,          \* types::MinerType
  Terms,               \* the order terms proposers may ask for
  Submissions,         \* what solvers may submit: [energies, diversity]
  Payees,              \* destinations a solver may name: [chain_id, address]
  Chains,              \* chain ids a proposer may require
  OrderIds,            \* ids available to the model (u64 in the code)
  InitialFree,         \* [Accounts -> Nat], balances at genesis
  MinReward, MaxDeadlineBlocks, MaxBlockWait, MaxSolutions,
  MaxOrdersPerProposer, MAX_REWARD_WINNERS, ResultTtlBlocks,
  MAX_FINALISED_ORDERS_PER_BLOCK, ExistentialDeposit,
  LastProposalBlock,   \* bound: no order is proposed after this block
  MaxBlock,            \* bound: no block is produced after this height
  None                 \* Option::None

Statuses == {"Opened", "Expired", "Closed"}

\* types::JobOrder; the id, in OrderIds, is its storage key.
Order == [proposer : Accounts, terms : Terms, status : Statuses, created_at : Nat,
          first_solution_at : Nat \cup {None}, solution_count : Nat]

ASSUME TermsAssumption ==
  \A t \in Terms : /\ t.deadline_blocks \in Nat
                   /\ t.block_wait \in Nat
                   /\ t.reward \in Nat
                   /\ t.spec_id \in Specs
                   /\ t.resolution.kind \in {"SingleBest", "TopNEqual", "TopNWeighted"}
                   /\ t.resolution.n \in Nat
ASSUME SubmissionsAssumption == \A s \in Submissions : s.energies \in Seq(Int)
ASSUME OrderIdsAssumption == OrderIds \subseteq Nat /\ IsFiniteSet(OrderIds)
ASSUME LedgerAssumption == IsFiniteSet(Accounts) /\ InitialFree \in [Accounts -> Nat]
ASSUME NoneAssumption == /\ None \notin Int /\ None \notin Order
                         /\ None \notin [solver : Accounts, energy : Int]
ASSUME BoundsAssumption ==
  /\ MAX_FINALISED_ORDERS_PER_BLOCK \in Nat \ {0}
  /\ MaxBlock \in Nat /\ MaxOrdersPerProposer \in Nat
  /\ MinReward \in Nat /\ ExistentialDeposit \in Nat /\ MAX_REWARD_WINNERS \in Nat \ {0}
  /\ DefaultIsingSpec \in Specs
  /\ Proposers \cup Miners \cup Lockable \subseteq Accounts

VARIABLES
  now,                 \* frame_system block number
  JobSpecs, JobOrders, NextOrderId,
  OpenOrders,          \* ids still listed as open
  OrdersExpiringAt,    \* {<<bucket, id>>}: the expiry queue
  NextExpiryBucket,    \* its cursor
  OrderSolutions,      \* [order][solver] -> best accepted energy
  OrderPayeeRequirements, OrderPayees,
  OrderFrontRunner,    \* SingleBest ranking
  OrderTopSolvers,     \* TopN ranking
  Solvers,             \* registered solver types
  ProposerOrders,      \* unsettled orders of each proposer
  OrderResults,        \* persisted results of CallbackWithPoll orders
  free, reserved,      \* pallet-balances
  locked,              \* accounts whose balance a lock makes untransferable
  programs             \* program hashes pallet-xqvm currently stores

VARIABLES              \* history, read by no action
  arrival,             \* {<<s, r>>}: s's best on the order was accepted before r's
  announced,           \* winners of the ResultReady event
  paid                 \* payouts transferred by claim_reward

queueVars   == <<OpenOrders, OrdersExpiringAt, NextExpiryBucket>>
rankVars    == <<OrderSolutions, OrderPayees, OrderFrontRunner, OrderTopSolvers, arrival>>
moneyVars   == <<free, reserved, ProposerOrders, paid>>
resultVars  == <<OrderResults, announced>>
registryVars == <<JobSpecs, Solvers>>
externalVars == <<locked, programs>>
orderVars   == <<JobOrders, NextOrderId, OrderPayeeRequirements>>
vars == <<now, orderVars, queueVars, rankVars, moneyVars, resultVars,
          registryVars, externalVars>>

-----------------------------------------------------------------------------
(* lifecycle.rs: the two-phase timing of an order. *)

hard_deadline(order) == order.created_at + order.terms.deadline_blocks

effective_expiry(order) ==
  LET hard == hard_deadline(order)
      wait == order.first_solution_at + order.terms.block_wait
  IN  IF order.first_solution_at = None THEN hard
      ELSE IF wait < hard THEN wait ELSE hard

is_expired(height, order) == height >= effective_expiry(order)

\* Mutant: the bucket of an order that expires at once is already behind the cursor.
expiry_bucket_unclamped(expiry) == expiry

\* The block whose on_initialize must finalise an order: this block's hook has run.
expiry_bucket(expiry) == IF expiry > now + 1 THEN expiry ELSE now + 1

IsOpen(o) == JobOrders[o] # None /\ JobOrders[o].status = "Opened"

-----------------------------------------------------------------------------
(* Admission checks of do_propose_job. *)

validate_delivery_mode(delivery, mode) ==
  \/ delivery = "OnChainOnly"
  \/ delivery = "Callback" /\ \/ mode.kind = "Open"
                              \/ mode.miners = None /\ mode.miner_types # None
  \/ /\ delivery = "CallbackWithPoll" /\ mode.kind = "Bid"
     /\ mode.miners # None /\ mode.miner_types = None

ensure_valid_mode(mode) ==
  mode.kind = "Bid" => mode.miners # None \/ mode.miner_types # None

\* Mutant: only the lower end of the winner count is checked.
ensure_valid_resolution_unbounded(resolution) ==
  resolution.kind # "SingleBest" => resolution.n > 0

ensure_valid_resolution(resolution) ==
  resolution.kind # "SingleBest" => resolution.n \in 1..MAX_REWARD_WINNERS

AcceptableTerms(t) ==
  /\ t.reward >= MinReward
  /\ t.deadline_blocks <= MaxDeadlineBlocks
  /\ t.block_wait <= MaxBlockWait
  /\ t.spec_id \in JobSpecs
  /\ t.min_solutions # None => t.min_solutions <= MaxSolutions
  /\ t.min_diversity # None =>
       (t.min_diversity > 0 /\ t.min_solutions # None => t.min_solutions >= 2)
  /\ validate_delivery_mode(t.delivery, t.mode)
  /\ ensure_valid_mode(t.mode)
  /\ ensure_valid_resolution(t.resolution)

\* External: ReservableCurrency::reserve keeps the account alive and its locks covered.
CanReserve(who, amount) ==
  who \notin locked /\ free[who] >= amount + ExistentialDeposit

do_propose_job(proposer, t, chain) ==
  LET id == NextOrderId IN
  /\ now <= LastProposalBlock /\ id \in OrderIds
  /\ AcceptableTerms(t)
  /\ Cardinality(ProposerOrders[proposer]) < MaxOrdersPerProposer
  /\ CanReserve(proposer, t.reward)
  /\ free' = [free EXCEPT ![proposer] = @ - t.reward]
  /\ reserved' = [reserved EXCEPT ![proposer] = @ + t.reward]
  /\ NextOrderId' = id + 1
  /\ JobOrders' = [JobOrders EXCEPT ![id] =
       [proposer |-> proposer, terms |-> t, status |-> "Opened", created_at |-> now,
        first_solution_at |-> None, solution_count |-> 0]]
  /\ OpenOrders' = OpenOrders \cup {id}
  /\ OrdersExpiringAt' = OrdersExpiringAt \cup {<<expiry_bucket(now + t.deadline_blocks), id>>}
  /\ ProposerOrders' = [ProposerOrders EXCEPT ![proposer] = @ \cup {id}]
  /\ OrderPayeeRequirements' = [OrderPayeeRequirements EXCEPT ![id] = chain]
  /\ UNCHANGED <<now, NextExpiryBucket, rankVars, paid, resultVars, registryVars, externalVars>>

propose_job(proposer, t) == do_propose_job(proposer, t, None)

propose_job_with_payee_requirement(proposer, t, chain) ==
  chain # 0 /\ do_propose_job(proposer, t, chain)

-----------------------------------------------------------------------------
(* Registries. *)

register_solver(who, solver_type) ==
  /\ Solvers[who] = None
  /\ Solvers' = [Solvers EXCEPT ![who] = solver_type]
  /\ UNCHANGED <<now, orderVars, queueVars, rankVars, moneyVars, resultVars, JobSpecs, externalVars>>

deregister_solver(who) ==
  /\ Solvers[who] # None
  /\ Solvers' = [Solvers EXCEPT ![who] = None]
  /\ UNCHANGED <<now, orderVars, queueVars, rankVars, moneyVars, resultVars, JobSpecs, externalVars>>

\* Root only; XqvmAdapter::validate_programs wants every referenced program stored.
register_job_spec(spec) ==
  /\ spec \notin JobSpecs
  /\ {ValidationProgram[spec], TransformProgram[spec]} \subseteq programs \cup {None}
  /\ JobSpecs' = JobSpecs \cup {spec}
  /\ UNCHANGED <<now, orderVars, queueVars, rankVars, moneyVars, resultVars, Solvers, externalVars>>

-----------------------------------------------------------------------------
(* Submissions. *)

solver_is_eligible(solver, mode) ==
  \/ mode.kind = "Open"
  \/ mode.miners # None /\ solver \in mode.miners
  \/ mode.miner_types # None /\ Solvers[solver] \in mode.miner_types

PayeeIsValid(payee) == payee.chain_id # 0 /\ payee.address # 0

\* Mutant: the requirement only constrains a payee that was given.
AcceptablePayee_Optional(o, payee) ==
  payee # None =>
    /\ PayeeIsValid(payee)
    /\ OrderPayeeRequirements[o] # None => payee.chain_id = OrderPayeeRequirements[o]

AcceptablePayee(o, payee) ==
  /\ payee # None => PayeeIsValid(payee)
  /\ OrderPayeeRequirements[o] # None =>
       payee # None /\ payee.chain_id = OrderPayeeRequirements[o]

\* Mutant: the status alone decides, so a finalisation backlog keeps the order biddable.
AcceptsSolutions_StatusOnly(order) == order.status = "Opened"
\* Mutant: an order takes solutions until it is settled.
AcceptsSolutions_UntilClosed(order) == order.status # "Closed"

AcceptsSolutions(order) == order.status = "Opened" /\ ~is_expired(now, order)

\* The vectors that survive the order's energy ceiling.
ValidSolutions(t, submission) ==
  {i \in DOMAIN submission.energies :
     t.max_energy = None \/ submission.energies[i] <= t.max_energy}

BestEnergy(t, submission) ==
  LET scores == {submission.energies[i] : i \in ValidSolutions(t, submission)}
  IN  CHOOSE e \in scores : \A f \in scores : e <= f

\* selected = min(max(min_solutions, 1), |valid|), so the floor needs enough valid ones.
MeetsThresholds(t, submission) ==
  /\ t.min_solutions # None => Cardinality(ValidSolutions(t, submission)) >= t.min_solutions
  /\ t.min_diversity # None => submission.diversity >= t.min_diversity

\* The strict-improvement rule against the solver's own accepted best.
ImprovesOwn(o, solver, energy) ==
  OrderSolutions[o][solver] # None => energy < OrderSolutions[o][solver]

Participants(o) == {s \in Accounts : OrderSolutions[o][s] # None}

update_ranking(o, solver, energy) ==
  LET resolution == JobOrders[o].terms.resolution IN
  IF resolution.kind = "SingleBest"
    THEN /\ OrderFrontRunner' =
              IF OrderFrontRunner[o] = None \/ energy < OrderFrontRunner[o].energy
                THEN [OrderFrontRunner EXCEPT ![o] = RankedSolver(solver, energy)]
                ELSE OrderFrontRunner
         /\ UNCHANGED OrderTopSolvers
    ELSE /\ OrderTopSolvers' = [OrderTopSolvers EXCEPT ![o] =
              update_ranked_solvers(@, RankedSolver(solver, energy), resolution.n)]
         /\ UNCHANGED OrderFrontRunner

(***************************************************************************)
(* The first accepted solution starts the block-wait window: the order     *)
(* moves from its hard-deadline bucket to the earlier closing bucket.      *)
(***************************************************************************)
MoveExpiry(o, before, after) ==
  IF before.first_solution_at = None /\ effective_expiry(after) < hard_deadline(after)
    THEN OrdersExpiringAt' = (OrdersExpiringAt \ {<<hard_deadline(after), o>>})
                               \cup {<<expiry_bucket(effective_expiry(after)), o>>}
    ELSE UNCHANGED OrdersExpiringAt

AcceptSubmission(o, solver, energy, payee) ==
  LET order == JobOrders[o]
      after == [order EXCEPT
                  !.solution_count = IF OrderSolutions[o][solver] = None THEN @ + 1 ELSE @,
                  !.first_solution_at = IF @ = None THEN now ELSE @]
  IN /\ OrderSolutions' = [OrderSolutions EXCEPT ![o][solver] = energy]
     /\ arrival' = [arrival EXCEPT ![o] = {e \in @ : solver \notin {e[1], e[2]}}
                                           \cup ((Participants(o) \ {solver}) \X {solver})]
     /\ MoveExpiry(o, order, after)
     /\ update_ranking(o, solver, energy)
     /\ OrderPayees' = [OrderPayees EXCEPT ![o][solver] = payee]
     /\ JobOrders' = [JobOrders EXCEPT ![o] = after]

(***************************************************************************)
(* submit_solution and submit_solution_with_payee (payee None for the      *)
(* former) through submit_solution_inner.  A transform program that its    *)
(* owner removed from pallet-xqvm rejects the submission.                  *)
(***************************************************************************)
submit_solution(solver, o, submission, payee) ==
  LET order == JobOrders[o]
      t     == order.terms
      best  == BestEnergy(t, submission)
  IN /\ Solvers[solver] # None
     /\ submission.energies # << >>
     /\ order # None
     /\ t.spec_id \in JobSpecs
     /\ AcceptsSolutions(order)
     /\ AcceptablePayee(o, payee)
     /\ solver_is_eligible(solver, t.mode)
     /\ TransformProgram[t.spec_id] \in programs \cup {None}
     /\ Len(submission.energies) <= MaxSolutions
     /\ ValidSolutions(t, submission) # {}
     /\ ImprovesOwn(o, solver, best)
     /\ MeetsThresholds(t, submission)
     /\ AcceptSubmission(o, solver, best, payee)
     /\ UNCHANGED <<now, NextOrderId, OrderPayeeRequirements, OpenOrders, NextExpiryBucket,
                    moneyVars, resultVars, registryVars, externalVars>>

-----------------------------------------------------------------------------
(* Finalisation: on_initialize drains the expiry queue. *)

HasRanking(o) ==
  IF JobOrders[o].terms.resolution.kind = "SingleBest"
    THEN OrderFrontRunner[o] # None ELSE OrderTopSolvers[o] # << >>

compute_payouts(o) ==
  LET t == JobOrders[o].terms IN
  CASE t.resolution.kind = "SingleBest"   -> single_best_payouts(OrderFrontRunner[o], t.reward)
    [] t.resolution.kind = "TopNEqual"    -> top_n_equal_payouts(OrderTopSolvers[o], t.reward)
    [] t.resolution.kind = "TopNWeighted" -> top_n_weighted_payouts(OrderTopSolvers[o], t.reward)

EntriesIn(first, last) == {e \in OrdersExpiringAt : e[1] >= first /\ e[1] <= last}

\* Mutant: the cursor leaves a bucket of which only part was taken.
DrainTo_SkipsRest(height, next, drained) ==
  LET due == EntriesIn(NextExpiryBucket, next - 1) IN
  /\ next = height + 1
  /\ drained \subseteq due
  /\ Cardinality(due) > MAX_FINALISED_ORDERS_PER_BLOCK =>
       Cardinality(drained) = MAX_FINALISED_ORDERS_PER_BLOCK
  /\ Cardinality(due) <= MAX_FINALISED_ORDERS_PER_BLOCK => drained = due

(***************************************************************************)
(* The outcome of the loop of finalise_expired_orders at height `height`:  *)
(* it empties the buckets from the cursor up to, not including, `next`,    *)
(* and stops there because `next` lies in the future, or because the       *)
(* bucket budget is spent, or because `next` holds at least as many        *)
(* entries as the order budget has left: then exactly that many of them,   *)
(* in the storage map's hash order (any choice), are taken and the cursor  *)
(* stays.  The two budgets start equal, and reaching the order budget      *)
(* exactly also keeps the cursor on the bucket.                            *)
(***************************************************************************)
DrainTo(height, next, drained) ==
  LET budget == MAX_FINALISED_ORDERS_PER_BLOCK
      emptied == EntriesIn(NextExpiryBucket, next - 1)
      partial == EntriesIn(next, next)
      left    == budget - Cardinality(emptied)
  IN /\ left > 0 /\ next - NextExpiryBucket <= budget
     /\ \/ /\ next > height \/ next - NextExpiryBucket = budget
           /\ drained = emptied
        \/ /\ next <= height /\ next - NextExpiryBucket < budget
           /\ \E taken \in SUBSET partial :
                Cardinality(taken) = left /\ drained = emptied \cup taken

\* The order ids whose finalise_order call finds them still open.
Finalised(drained) == {o \in {e[2] : e \in drained} : IsOpen(o)}

\* finalise_order on each drained id: expire it, then persist and announce the winners.
FinaliseOrders(ids) ==
  LET won      == {o \in ids : JobOrders[o].solution_count > 0 /\ HasRanking(o)}
      Delivery(o) == JobOrders[o].terms.delivery
  IN /\ JobOrders' = [o \in OrderIds |->
                        IF o \in ids THEN [JobOrders[o] EXCEPT !.status = "Expired"]
                                     ELSE JobOrders[o]]
     /\ OpenOrders' = OpenOrders \ ids
     /\ OrderResults' = [o \in OrderIds |->
          IF o \in won /\ Delivery(o) = "CallbackWithPoll"
            THEN [settled_at |-> now', winners |-> compute_payouts(o)]
            ELSE OrderResults[o]]
     /\ announced' = [o \in OrderIds |->
          IF o \in won /\ Delivery(o) # "OnChainOnly" THEN compute_payouts(o) ELSE announced[o]]

finalise_expired_orders(height) ==
  \E next \in NextExpiryBucket..(IF NextExpiryBucket > height THEN NextExpiryBucket
                                                             ELSE height + 1) :
    \E drained \in SUBSET EntriesIn(NextExpiryBucket, next) :
      /\ DrainTo(height, next, drained)
      /\ OrdersExpiringAt' = OrdersExpiringAt \ drained
      /\ NextExpiryBucket' = next
      /\ FinaliseOrders(Finalised(drained))

on_initialize ==
  /\ now < MaxBlock
  /\ now' = now + 1
  /\ finalise_expired_orders(now + 1)
  /\ UNCHANGED <<NextOrderId, OrderPayeeRequirements, rankVars, moneyVars, registryVars,
                 externalVars>>

-----------------------------------------------------------------------------
(* Settlement. *)

\* External: Currency::transfer with AllowDeath from an account whose escrow was just released.
CanTransfer(from, to, amount) ==
  \/ to = from
  \/ from \notin locked /\ free[to] + amount >= ExistentialDeposit

AmountFor(payouts, who) ==
  SumFunction([i \in DOMAIN payouts |-> IF payouts[i].solver = who THEN payouts[i].amount ELSE 0])

\* Mutant: the proposer's slot is never given back.
CloseOrder_KeepsSlot(o) ==
  /\ JobOrders' = [JobOrders EXCEPT ![o].status = "Closed"]
  /\ OpenOrders' = OpenOrders \ {o}
  /\ UNCHANGED ProposerOrders

\* Status, open list and the proposer's slot, common to both ways of closing.
CloseOrder(o) ==
  /\ JobOrders' = [JobOrders EXCEPT ![o].status = "Closed"]
  /\ OpenOrders' = OpenOrders \ {o}
  /\ ProposerOrders' = [ProposerOrders EXCEPT ![JobOrders[o].proposer] = @ \ {o}]

\* Mutant: a settled order can be claimed again.
Claimable_Again(order) == order.status # "Opened" /\ order.solution_count > 0

Claimable(order) == order.status = "Expired" /\ order.solution_count > 0

\* Mutant: the result is validated by a program that may be gone.
ClaimAccepted_NeedsProgram(o) ==
  LET order == JobOrders[o]
      needed == {ValidationProgram[order.terms.spec_id], TransformProgram[order.terms.spec_id]}
  IN /\ order # None /\ Claimable(order) /\ HasRanking(o)
     /\ reserved[order.proposer] >= order.terms.reward
     /\ needed \subseteq programs \cup {None}

\* What claim_reward and the transfers it makes demand.
ClaimAccepted(o) ==
  LET order == JobOrders[o]
      p     == order.proposer
      payouts == compute_payouts(o)
  IN /\ order # None
     /\ order.terms.spec_id \in JobSpecs
     /\ Claimable(order)
     /\ HasRanking(o)
     /\ reserved[p] >= order.terms.reward
     /\ \A i \in DOMAIN payouts :
          payouts[i].amount = 0 \/ CanTransfer(p, payouts[i].solver, payouts[i].amount)

\* Anybody may call; one failing transfer rolls the whole settlement back.
claim_reward(o) ==
  LET p == JobOrders[o].proposer
      r == JobOrders[o].terms.reward
      payouts == compute_payouts(o)
  IN /\ ClaimAccepted(o)
     /\ reserved' = [reserved EXCEPT ![p] = @ - r]
     /\ free' = [a \in Accounts |->
          free[a] + AmountFor(payouts, a) + (IF a = p THEN r - PayoutTotal(payouts) ELSE 0)]
     /\ paid' = [paid EXCEPT ![o] = @ \o payouts]
     /\ CloseOrder(o)
     /\ UNCHANGED <<now, NextOrderId, OrderPayeeRequirements, OrdersExpiringAt, NextExpiryBucket,
                    rankVars, resultVars, registryVars, externalVars>>

ReclaimAccepted(caller, o) ==
  LET order == JobOrders[o] IN
  /\ order # None
  /\ order.proposer = caller
  /\ order.status = "Expired"
  /\ order.solution_count = 0
  /\ reserved[caller] >= order.terms.reward

reclaim_order(caller, o) ==
  LET r == JobOrders[o].terms.reward IN
  /\ ReclaimAccepted(caller, o)
  /\ reserved' = [reserved EXCEPT ![caller] = @ - r]
  /\ free' = [free EXCEPT ![caller] = @ + r]
  /\ CloseOrder(o)
  /\ UNCHANGED <<now, NextOrderId, OrderPayeeRequirements, OrdersExpiringAt, NextExpiryBucket,
                 rankVars, paid, resultVars, registryVars, externalVars>>

purge_result(o) ==
  /\ OrderResults[o] # None
  /\ now >= OrderResults[o].settled_at + ResultTtlBlocks
  /\ OrderResults' = [OrderResults EXCEPT ![o] = None]
  /\ UNCHANGED <<now, orderVars, queueVars, rankVars, moneyVars, announced, registryVars,
                 externalVars>>

-----------------------------------------------------------------------------
(* External: what other pallets do to the state this one depends on. *)

\* pallet-xqvm stores or removes a program the specs may reference.
StoreProgram(h) ==
  h \notin programs /\ programs' = programs \cup {h}
RemoveProgram(h) ==
  h \in programs /\ programs' = programs \ {h}

\* A lock (vesting, another set_lock caller) covers or frees the account's balance.
SetLock(who) == who \notin locked /\ locked' = locked \cup {who}
RemoveLock(who) == who \in locked /\ locked' = locked \ {who}

External ==
  /\ \/ (\E h \in Programs : StoreProgram(h) \/ RemoveProgram(h)) /\ UNCHANGED locked
     \/ (\E who \in Lockable : SetLock(who) \/ RemoveLock(who)) /\ UNCHANGED programs
  /\ UNCHANGED <<now, orderVars, queueVars, rankVars, moneyVars, resultVars, registryVars>>
-----------------------------------------------------------------------------

Init ==
  /\ now = 0
  /\ JobSpecs = {DefaultIsingSpec}
  /\ JobOrders = [o \in OrderIds |-> None]
  /\ NextOrderId = 0
  /\ OpenOrders = {} /\ OrdersExpiringAt = {} /\ NextExpiryBucket = 0
  /\ OrderSolutions = [o \in OrderIds |-> [s \in Accounts |-> None]]
  /\ OrderPayeeRequirements = [o \in OrderIds |-> None]
  /\ OrderPayees = [o \in OrderIds |-> [s \in Accounts |-> None]]
  /\ OrderFrontRunner = [o \in OrderIds |-> None]
  /\ OrderTopSolvers = [o \in OrderIds |-> << >>]
  /\ Solvers = [a \in Accounts |-> None]
  /\ ProposerOrders = [a \in Accounts |-> {}]
  /\ OrderResults = [o \in OrderIds |-> None]
  /\ free = InitialFree /\ reserved = [a \in Accounts |-> 0]
  /\ locked = {} /\ programs = {}
  /\ arrival = [o \in OrderIds |-> {}]
  /\ announced = [o \in OrderIds |-> << >>]
  /\ paid = [o \in OrderIds |-> << >>]

\* Calls are only dispatched inside a block, hence after the first on_initialize.
Calls ==
  \/ \E who \in Miners, ty \in MinerTypes : register_solver(who, ty)
  \/ \E who \in Miners : deregister_solver(who)
  \/ \E spec \in Specs : register_job_spec(spec)
  \/ \E who \in Proposers, t \in Terms : propose_job(who, t)
  \/ \E who \in Proposers, t \in Terms, c \in Chains :
       propose_job_with_payee_requirement(who, t, c)
  \/ \E who \in Miners, o \in OrderIds, s \in Submissions, p \in Payees \cup {None} :
       submit_solution(who, o, s, p)
  \/ \E o \in OrderIds : claim_reward(o)
  \/ \E who \in Proposers, o \in OrderIds : reclaim_order(who, o)
  \/ \E o \in OrderIds : purge_result(o)

Next == on_initialize \/ (now > 0 /\ Calls) \/ (now > 0 /\ External)

\* Block production never stops; nobody is obliged to call anything.
Fairness == WF_vars(on_initialize)

Spec == Init /\ [][Next]_vars /\ Fairness

-----------------------------------------------------------------------------
(* Properties. *)

\* The stored values have the types of the storage items of lib.rs.
TypeOK ==
  /\ now \in Nat /\ NextOrderId \in Nat /\ NextExpiryBucket \in Nat
  /\ JobOrders \in [OrderIds -> Order \cup {None}]
  /\ OpenOrders \subseteq OrderIds
  /\ OrdersExpiringAt \subseteq Nat \X OrderIds

\* The ids are handed out in order: exactly those below NextOrderId hold an order.
IdsAllocated == \A o \in OrderIds : JobOrders[o] # None <=> o < NextOrderId

\* An order that was created and not settled: its reward is still escrowed.
Unsettled(o) == JobOrders[o] # None /\ JobOrders[o].status # "Closed"

\* Order o waits in exactly one bucket, still ahead of the cursor, neither too early
\* nor later than the next hook can be.
Scheduled(o) ==
  \E e \in OrdersExpiringAt :
    /\ e[2] = o
    /\ \A d \in OrdersExpiringAt : d[2] = o => d = e
    /\ e[1] >= NextExpiryBucket
    /\ e[1] >= effective_expiry(JobOrders[o])
    /\ e[1] <= expiry_bucket(effective_expiry(JobOrders[o]))

\* An entry of an order that a first solution may still move.
Movable(e) ==
  LET order == JobOrders[e[2]] IN order.first_solution_at = None /\ now < hard_deadline(order)

(***************************************************************************)
(* The expiry queue never loses an order: the open list is exactly the     *)
(* orders with status Opened; each sits in exactly one bucket, which the   *)
(* cursor has not passed (finalise_expired_orders never looks back) and    *)
(* which is its effective expiry, or the next block if that is past;       *)
(* settled or expired orders left no entry behind when submit_solution     *)
(* moved their bucket.                                                     *)
(***************************************************************************)
QueueHoldsOpenOrders ==
  /\ OpenOrders = {o \in OrderIds : IsOpen(o)}
  /\ \A e \in OrdersExpiringAt : IsOpen(e[2])
  /\ \A o \in OpenOrders : Scheduled(o)

(***************************************************************************)
(* Why the queue works: the cursor is at most one block ahead, orders are  *)
(* not created in the future, and an order that nobody has solved yet and  *)
(* that still can be sits in exactly the bucket of its hard deadline, so   *)
(* submit_solution removes the right entry when it moves the order.        *)
(***************************************************************************)
QueueInductive ==
  /\ IdsAllocated
  /\ NextExpiryBucket <= now + 1
  /\ \A o \in OrderIds : JobOrders[o] # None => JobOrders[o].created_at <= now
  /\ \A e \in OrdersExpiringAt : Movable(e) => e[1] = hard_deadline(JobOrders[e[2]])
  /\ QueueHoldsOpenOrders

\* on_initialize never finalises an order before the block its solvers were promised.
NoEarlyFinalisation ==
  \A o \in OrderIds :
    JobOrders[o] # None /\ ~IsOpen(o) => is_expired(now, JobOrders[o])

\* The expiry queue in one statement: typed storage, no order lost, duplicated or left
\* behind the cursor of finalise_expired_orders, and none finalised before its time.
QueueSound == TypeOK /\ QueueInductive /\ NoEarlyFinalisation

\* Solver s outranks r on order o: better best energy, or equal and accepted earlier.
Outranks(o, s, r) ==
  \/ OrderSolutions[o][s] < OrderSolutions[o][r]
  \/ OrderSolutions[o][s] = OrderSolutions[o][r] /\ <<s, r>> \in arrival[o]

\* The winners' list as stored: the front runner alone, or the top-N list.
StoredRanking(o) ==
  IF JobOrders[o].terms.resolution.kind = "SingleBest"
    THEN IF OrderFrontRunner[o] = None THEN << >> ELSE << OrderFrontRunner[o] >>
    ELSE OrderTopSolvers[o]

RankLimit(t) == IF t.resolution.kind = "SingleBest" THEN 1 ELSE t.resolution.n

(***************************************************************************)
(* The incrementally maintained ranking (update_ranking, which forgets     *)
(* everybody it truncates) always equals the true one: the best n of all   *)
(* participants by latest best energy, ties to the earlier acceptance,     *)
(* and it is empty only when solution_count is 0, so the branch that       *)
(* finalise_order marks defensive is never taken.                          *)
(***************************************************************************)
RankingIsTrue ==
  \A o \in OrderIds : JobOrders[o] # None =>
    LET ranking == StoredRanking(o)
        P == Participants(o)
        n == RankLimit(JobOrders[o].terms)
    IN /\ JobOrders[o].solution_count = Cardinality(P)
       /\ Len(ranking) = IF Cardinality(P) < n THEN Cardinality(P) ELSE n
       /\ \A i \in DOMAIN ranking :
            /\ ranking[i].solver \in P
            /\ ranking[i].energy = OrderSolutions[o][ranking[i].solver]
            /\ Cardinality({s \in P : Outranks(o, s, ranking[i].solver)}) = i - 1

\* The runtime's choice of MinReward: the worst-paid of the most winners still gets the
\* existential deposit, whichever split is used.
RewardsCoverDeposits ==
  MinReward >= ExistentialDeposit * ((MAX_REWARD_WINNERS * (MAX_REWARD_WINNERS + 1)) \div 2)

(***************************************************************************)
(* Settlement of a solved order cannot get stuck on amounts: the payouts   *)
(* split the whole reward, no lower rank earns more than a higher one, and *)
(* every payout can open an account (MinReward, MAX_REWARD_WINNERS and the *)
(* existential deposit are chosen together), and the escrow is there.      *)
(***************************************************************************)
SolvedOrderIsPayable ==
  \A o \in OrderIds :
    (Unsettled(o) /\ JobOrders[o].solution_count > 0) =>
      LET payouts == compute_payouts(o) IN
      /\ HasRanking(o)
      /\ PayoutTotal(payouts) = JobOrders[o].terms.reward
      /\ \A i \in DOMAIN payouts : payouts[i].amount >= ExistentialDeposit
      /\ \A i, j \in DOMAIN payouts : i < j => payouts[i].amount >= payouts[j].amount
      /\ reserved[JobOrders[o].proposer] >= JobOrders[o].terms.reward

RewardOf(o) == JobOrders[o].terms.reward

(***************************************************************************)
(* The pallet's escrow: what a proposer has reserved is exactly the        *)
(* rewards of its unsettled orders, which are the ids in its bounded slot  *)
(* list, and no call creates or destroys funds.                            *)
(***************************************************************************)
EscrowBacksOrders ==
  /\ \A p \in Accounts :
       LET mine == {o \in OrderIds : Unsettled(o) /\ JobOrders[o].proposer = p} IN
       /\ ProposerOrders[p] = mine
       /\ Cardinality(mine) <= MaxOrdersPerProposer
       /\ reserved[p] = SumFunctionOnSet([o \in mine |-> RewardOf(o)], mine)
  /\ SumFunction([a \in Accounts |-> free[a] + reserved[a]]) = SumFunction(InitialFree)

(***************************************************************************)
(* What claim_reward transfers is what finalise_order announced (and       *)
(* persisted for polling) at expiry, however late the claim is and         *)
(* whatever solvers did in between.                                        *)
(***************************************************************************)
PaidAsAnnounced ==
  \A o \in OrderIds :
    /\ paid[o] # << >> /\ announced[o] # << >> => paid[o] = announced[o]
    /\ OrderResults[o] # None => OrderResults[o].winners = announced[o]
    /\ paid[o] # << >> /\ JobOrders[o].terms.delivery # "OnChainOnly" => announced[o] # << >>

\* On an order that requires a payee chain every participant named a valid payee there.
PayeesMeetRequirement ==
  \A o \in OrderIds : \A s \in Participants(o) :
    OrderPayeeRequirements[o] # None =>
      /\ OrderPayees[o][s] # None
      /\ OrderPayees[o][s].chain_id = OrderPayeeRequirements[o]
      /\ PayeeIsValid(OrderPayees[o][s])

(***************************************************************************)
(* From the effective expiry on, also while a finalisation backlog leaves  *)
(* the order Opened, nobody changes its solutions, ranking, payees or      *)
(* closing time.                                                           *)
(***************************************************************************)
OutcomeFrozenAtExpiry ==
  [][\A o \in OrderIds : JobOrders[o] # None /\ is_expired(now, JobOrders[o]) =>
       /\ OrderSolutions'[o] = OrderSolutions[o]
       /\ OrderPayees'[o] = OrderPayees[o]
       /\ StoredRanking(o)' = StoredRanking(o)
       /\ effective_expiry(JobOrders'[o]) = effective_expiry(JobOrders[o])]_vars

(***************************************************************************)
(* Orders beyond the per-block bound carry over in bucket order: an order  *)
(* is finalised only when no earlier bucket still holds one.               *)
(***************************************************************************)
FinalisedInBucketOrder ==
  [][\A d \in OrdersExpiringAt, e \in OrdersExpiringAt' :
       (IsOpen(d[2]) /\ ~IsOpen(d[2])') => d[1] <= e[1]]_vars

\* What a backlog may not do: let anybody change the outcome of an order that expired
\* (submit_solution), or let a later bucket overtake it (finalise_expired_orders).
BacklogIsHarmless == OutcomeFrozenAtExpiry /\ FinalisedInBucketOrder

(***************************************************************************)
(* Every open order is eventually finalised, whatever backlog builds up,   *)
(* and also when the program of its spec is removed from pallet-xqvm.      *)
(***************************************************************************)
EveryOrderExpires == \A o \in OrderIds : IsOpen(o) ~> ~IsOpen(o)
=============================================================================
