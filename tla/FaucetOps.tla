------------------------------ MODULE FaucetOps ------------------------------
(***************************************************************************)
(* Pallet faucet-ops on top of the emission controller: an authority or    *)
(* the Foundation mints from the finite budget until the fuse is blown.    *)
(* Source: pallets/faucet-ops/src/lib.rs.  This module composes the two    *)
(* pallets: one block runs the hooks of both, and the faucet's calls       *)
(* change the controller's state.                                          *)
(*                                                                         *)
(* An account that is not the authority holds no origin, so its calls are  *)
(* no steps.  The Foundation is the collective origin, not an account.     *)
(***************************************************************************)
EXTENDS EmissionController

CONSTANT Foundation
ASSUME FoundationAssumption == Foundation \notin Accounts /\ None \notin Accounts

\* The legacy pallet kept no storage: its State is absent.
FaucetStates == {"Absent", "Enabled", "PermanentlyDisabled", "Paused"}

VARIABLES State, Authority, faucetVersion
faucetVars == <<State, Authority, faucetVersion>>
vars == <<emissionVars, faucetVars>>

\* A genesis of this code, a legacy chain without storage, or one whose
\* version metadata is missing.
FaucetInit ==
  \/ /\ faucetVersion = 1
     /\ State \in FaucetStates \ {"Absent"}
     /\ Authority \in Users \cup {None}
     /\ State = "Enabled" => Authority # None
  \/ /\ faucetVersion = 0 /\ Authority = None
     /\ State \in {"Absent", "PermanentlyDisabled"}

Init == EmissionInit /\ FaucetInit

\* EitherOfDiverse<EnsureFaucetAuthority, FoundationOrigin>
MintOrigin(origin) == origin = Foundation \/ (origin = Authority /\ Authority # None)

MintFaucet(origin, who, amount) ==
  /\ MintOrigin(origin)
  /\ State = "Enabled"
  /\ mint_faucet(who, amount)
  /\ UNCHANGED faucetVars

\* The legacy pallet has no such call.
set_authority(authority) ==
  /\ faucetVersion = 1
  /\ Authority' = authority
  /\ UNCHANGED <<State, faucetVersion, emissionVars>>

disable(origin) ==
  /\ MintOrigin(origin)
  /\ State = "Enabled"
  /\ State' = "PermanentlyDisabled"
  /\ UNCHANGED <<Authority, faucetVersion, emissionVars>>

\* Mutant: a blown fuse is forgotten.
LegacyState_Forgets == "Paused"

\* A legacy faucet is paused, unless its fuse was blown.
LegacyState == IF State = "PermanentlyDisabled" THEN State ELSE "Paused"

\* The upgrade closes a legacy faucet and removes its authority.
UpgradeFaucet ==
  /\ State' = IF faucetVersion < 1 THEN LegacyState ELSE State
  /\ Authority' = IF faucetVersion < 1 THEN None ELSE Authority
  /\ faucetVersion' = 1

Block(t) == on_initialize(t) /\ UNCHANGED faucetVars
UpgradeBlock(t) == on_runtime_upgrade(t) /\ UpgradeFaucet
Reward(who, requested) == pay(who, requested) /\ UNCHANGED faucetVars
Send(from, to, amount) == Transfer(from, to, amount) /\ UNCHANGED faucetVars

Next ==
  \/ \E t \in 0..MaxTime : Block(t)
  \/ \E t \in 0..MaxTime : UpgradeBlock(t)
  \/ \E who \in Accounts, requested \in Amounts : Reward(who, requested)
  \/ \E from \in Users, to \in Accounts, amount \in Amounts : Send(from, to, amount)
  \/ \E origin \in Users \cup {Foundation}, who \in Accounts, amount \in Amounts :
        MintFaucet(origin, who, amount)
  \/ \E authority \in Users \cup {None} : set_authority(authority)
  \/ \E origin \in Users \cup {Foundation} : disable(origin)

Spec == Init /\ [][Next]_vars

-----------------------------------------------------------------------------
(* Properties. *)

Balance == 0..MaxBalance

\* Storage items and balances keep their types; no account, in particular no pot,
\* is left between zero and the existential deposit.
TypeOK ==
  /\ now \in 0..MaxTime /\ Enabled \in BOOLEAN
  /\ StartAt \in Nat \cup {None}
  /\ SubnetIssued \in [Subnets -> Balance] /\ ScheduledIssued \in Balance
  /\ FaucetBudget \in Balance /\ FaucetIssued \in Balance
  /\ free \in [Accounts -> {0} \cup ExistentialDeposit..MaxBalance]
  /\ emissionVersion \in {1, 2} /\ credit \in Nat /\ covered \in 0..credit
  /\ State \in FaucetStates /\ Authority \in Users \cup {None} /\ faucetVersion \in {0, 1}

\* Every unit in circulation is accounted for: genesis, schedule and faucet are
\* the only sources, and the schedule's total is the sum of its subnets (try_state).
\* SubnetRewards::pay only moves units, and fund_subnet does not book a deposit
\* that fails.
IssuanceAccounted ==
  /\ TotalIssuance(free) = GenesisFree * Cardinality(Users) + ScheduledIssued + FaucetIssued
  /\ ScheduledIssued = SumFunction(SubnetIssued)

\* The ledger of the chain: typed, free of dust, and explained by its three sources,
\* through partial accruals, rewards, mints and upgrades in any order.
LedgerSound == TypeOK /\ IssuanceAccounted

\* No subnet is ever issued more than its share of the rates that were in
\* force since the anchor: neither gaps, nor the retries of accrue, nor
\* rebased_start mints a second that was already paid.
NeverAheadOfSchedule ==
  \A s \in Subnets : SubnetIssued[s] * One * Year <= Share(s) * covered

\* The constants leave room for the schedule: the rate does not rise ("the annual rate
\* drops from 40M to 30M"), balances hold a year's product and all that genesis, faucet
\* and schedule can issue, and anchors are dates of the chain, late enough on the
\* clock for the rebased one to be positive.
ScheduleFits ==
  /\ NewAnnual <= OldAnnual
  /\ OldAnnual * Year <= MaxBalance
  /\ \A budget \in FaucetBudgets :
       Year * (GenesisFree * Cardinality(Users) + budget) + OldAnnual * MaxTime <= Year * MaxBalance
  /\ \A start \in StartsAt : start # None => start >= FirstTime
  /\ (OldAnnual - NewAnnual) * MaxTime < OldAnnual * FirstTime

\* What rebased_start forfeits, in seconds times the rate: the block whose accrual it
\* precedes, the second it rounds off, and what no pot had received by then.
Forfeited ==
  IF emissionVersion = 2
  THEN MaxGap * OldAnnual + (NewAnnual - 1) + (Year - 1) + Year * ExistentialDeposit * Cardinality(Subnets)
  ELSE 0

\* No subnet is left behind: what it falls short of its share of the rates in
\* force is bounded by what rebased_start forfeits, by an amount too little to
\* open its pot, and by the rounding of entitlement and mul_floor.  accrue
\* retries a failed deposit, and the anchor is rebased but once.
ShortfallBounded ==
  \A s \in Subnets :
    Share(s) * covered <= SubnetIssued[s] * One * Year + Share(s) * Forfeited
                          + (Share(s) * (Year - 1) + One * Year * ExistentialDeposit - Year)

\* What accrue issues follows the rates in force from both sides.
IssuanceTracksSchedule == NeverAheadOfSchedule /\ ShortfallBounded

\* The fuse is final: a faucet found closed, by the fuse or by the closing of a
\* legacy pallet, never mints again, whatever governance, upgrades or a later
\* authority do.
FaucetStaysClosed ==
  [][/\ State # "Enabled" => State' # "Enabled" /\ FaucetIssued' = FaucetIssued
     /\ State = "PermanentlyDisabled" => State' = State]_vars

\* The budget bounds what the faucet issues over the life of the chain, over
\* all calls of all authorities and across upgrades.
BudgetIsLifetime == FaucetIssued <= FaucetBudget
=============================================================================
