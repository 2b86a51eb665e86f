---------------------------- MODULE MempoolUpgrade ----------------------------
(***************************************************************************)
(* The mempool on a chain that upgraded to this runtime.  on_runtime_      *)
(* upgrade of quantum-compute-mempool runs before System::initialize of    *)
(* the upgrade block, when block_number() is still the block before, and   *)
(* before any hook or call of the new runtime: a behaviour starts with the *)
(* storage the migration leaves, and its first step is the hook of the     *)
(* upgrade block.                                                          *)
(*                                                                         *)
(* Version 2 kept the same orders, ranking and open list but had no expiry *)
(* queue.  A chain of version 3 already holds the queue: its upgrade moves *)
(* the version marker and nothing else, so its behaviours are those of     *)
(* ComputeMempool.                                                         *)
(***************************************************************************)
EXTENDS ComputeMempool

CONSTANTS
  UpgradeBlock,        \* the last block of the old runtime
  LegacyTerms,         \* terms of the orders it left open
  LegacyEnergy         \* energy of the solution it accepted for a solved one

\* Ids are handed out from 0, and the old runtime checked resolutions as this one does.
ASSUME LegacyAssumption ==
  /\ UpgradeBlock \in Nat /\ LegacyEnergy \in Int
  /\ \A n \in OrderIds : 0..n \subseteq OrderIds
  /\ LegacyTerms \subseteq Terms
  /\ \A t \in LegacyTerms : ensure_valid_resolution(t.resolution)

VARIABLE hooked        \* a block of the new runtime has been initialised

upgradeVars == <<vars, hooked>>

\* An open order as the old runtime stored it: solved, if at all, before its deadline.
LegacyOrders(who) ==
  {[proposer |-> who, terms |-> t, status |-> "Opened", created_at |-> c,
    first_solution_at |-> f, solution_count |-> IF f = None THEN 0 ELSE 1] :
     t \in LegacyTerms, c \in 1..UpgradeBlock, f \in 1..UpgradeBlock \cup {None}}

LegacyOrder(who) ==
  {order \in LegacyOrders(who) :
     order.first_solution_at # None =>
       order.first_solution_at \in order.created_at..(hard_deadline(order) - 1)}

\* The queue and its cursor over the open orders of `book`.
index_open_orders_for_expiry(book) ==
  /\ OrdersExpiringAt = {<<expiry_bucket(effective_expiry(book[o])), o>> : o \in DOMAIN book}
  /\ NextExpiryBucket = now + 1

\* The storage an old chain keeps of its orders: all of it, or none below version 2.
Kept(version, book) == IF version < 2 THEN << >> ELSE book

\* The cumulative migration from `version`, on a chain with open orders `book`, all
\* proposed by `who` and solved, where they are, by `solver`.
on_runtime_upgrade(version, book, who, solver) ==
  LET kept == Kept(version, book)
      Known(o) == o \in DOMAIN kept
      Solved(o) == IF Known(o) THEN kept[o].first_solution_at # None ELSE FALSE
      SingleBest(o) == kept[o].terms.resolution.kind = "SingleBest"
      owed == SumFunction([o \in DOMAIN book |-> book[o].terms.reward])
  IN  /\ now = UpgradeBlock
      /\ JobSpecs = {DefaultIsingSpec}
      /\ JobOrders = [o \in OrderIds |-> IF Known(o) THEN kept[o] ELSE None]
      /\ NextOrderId = Cardinality(DOMAIN kept)
      /\ OpenOrders = DOMAIN kept
      /\ index_open_orders_for_expiry(kept)
      /\ OrderSolutions = [o \in OrderIds |-> [s \in Accounts |->
           IF Solved(o) /\ s = solver THEN LegacyEnergy ELSE None]]
      /\ OrderFrontRunner = [o \in OrderIds |->
           IF Solved(o) /\ SingleBest(o) THEN RankedSolver(solver, LegacyEnergy) ELSE None]
      /\ OrderTopSolvers = [o \in OrderIds |->
           IF Solved(o) /\ ~SingleBest(o) THEN << RankedSolver(solver, LegacyEnergy) >> ELSE << >>]
      /\ arrival = [o \in OrderIds |-> {}]
      /\ OrderPayeeRequirements = [o \in OrderIds |-> None]
      /\ OrderPayees = [o \in OrderIds |-> [s \in Accounts |-> None]]
      /\ Solvers = [a \in Accounts |-> None]
      /\ ProposerOrders = [a \in Accounts |-> IF a = who THEN DOMAIN kept ELSE {}]
      /\ OrderResults = [o \in OrderIds |-> None]
      \* The wipe clears the pallet's storage; what it had reserved stays reserved.
      /\ free = [InitialFree EXCEPT ![who] = @ - owed]
      /\ reserved = [a \in Accounts |-> IF a = who THEN owed ELSE 0]
      /\ locked = {} /\ programs = {}
      /\ announced = [o \in OrderIds |-> << >>]
      /\ paid = [o \in OrderIds |-> << >>]

\* A chain born with this runtime, or upgraded from a version below 3.
UpgradeInit ==
  /\ hooked = FALSE
  /\ \/ Init
     \/ \E version \in {1, 2}, who \in Proposers, solver \in Miners, n \in OrderIds :
          \E book \in [0..n -> LegacyOrder(who)] :
            on_runtime_upgrade(version, book, who, solver)

Block == on_initialize /\ hooked' = TRUE

UpgradeNext == Block \/ (hooked /\ (Calls \/ External) /\ UNCHANGED hooked)

UpgradeSpec == UpgradeInit /\ [][UpgradeNext]_upgradeVars /\ WF_upgradeVars(Block)
=============================================================================
