-------------------------- MODULE EmissionController --------------------------
(***************************************************************************)
(* Pallet emission-controller: the time-accrued issuance into subnet pots, *)
(* the rewards paid out of them, and the finite budget of the faucet.      *)
(* Source: pallets/emission-controller/src/lib.rs.                         *)
(*                                                                         *)
(* Before its upgrade a chain accrues at OldAnnual, afterwards at          *)
(* NewAnnual: the annual rate is a constant of the runtime's code.         *)
(***************************************************************************)
EXTENDS Integers, FiniteSets, SequencesExt

CONSTANTS
  Users,                  \* accounts other than the pots
  Routes,                 \* sequence of <<subnet, share>>
  RewardSubnet,           \* ISING_SUBNET: the pot the proof-of-work pallet pays from
  One,                    \* the whole a share is a part of (10^9 parts in Perbill)
  OldAnnual, NewAnnual,   \* AnnualEmission before and after the upgrade
  Year,                   \* YEAR_SECONDS
  ExistentialDeposit,
  MaxBalance,             \* the largest balance (2^128 - 1)
  FaucetBudgets,          \* bound: the budgets a genesis may set
  GenesisFree,            \* what every user starts with
  StartsAt,               \* the anchors a genesis may set, None included
  FirstTime, MaxTime,     \* bounds: the first nonzero and the last timestamp, in seconds
  MaxGap,                 \* bound on the seconds between two blocks
  Amounts,                \* bound: the amounts of rewards and transfers
  None

Subnets == {Routes[i][1] : i \in DOMAIN Routes}
Share(s) == LET i == CHOOSE j \in DOMAIN Routes : Routes[j][1] = s IN Routes[i][2]

\* The genesis check of the pallet, for an enabled schedule.
valid_routes ==
  /\ Routes # << >>
  /\ \A i \in DOMAIN Routes : Routes[i][2] > 0
  /\ \A i, j \in DOMAIN Routes : Routes[i][1] = Routes[j][1] => i = j
  /\ SumFunction([i \in DOMAIN Routes |-> Routes[i][2]]) = One

pot(s) == <<"pot", s>>
Accounts == Users \cup {pot(s) : s \in Subnets}

ASSUME EmissionAssumption ==
  /\ Routes \in Seq(Subnets \X Nat) /\ One \in Nat \ {0}
  /\ valid_routes /\ RewardSubnet \in Subnets
  /\ OldAnnual \in Nat \ {0} /\ NewAnnual \in Nat \ {0} /\ Year \in Nat \ {0}
  /\ MaxBalance \in Nat /\ ExistentialDeposit \in Nat \ {0}
  /\ FaucetBudgets \subseteq 0..MaxBalance /\ Amounts \subseteq Nat
  /\ FirstTime \in Nat \ {0} /\ MaxTime \in Nat /\ MaxGap \in Nat
  /\ StartsAt \subseteq (Nat \ {0}) \cup {None} /\ None \notin Nat
  /\ GenesisFree \in {0} \cup (ExistentialDeposit..MaxBalance)
  /\ IsFiniteSet(Users) /\ GenesisFree * Cardinality(Users) <= MaxBalance

VARIABLES
  now,              \* pallet_timestamp: the previous block's time, 0 before the first
  Enabled, StartAt, SubnetIssued, ScheduledIssued,
  FaucetBudget, FaucetIssued,
  free,             \* [Accounts -> free balance]
  emissionVersion   \* on-chain storage version
VARIABLES           \* history: seconds since the anchor, each times the rate in force then,
  credit,           \* up to now
  covered           \* up to the last accrual

schedule == <<StartAt, SubnetIssued, ScheduledIssued>>
emissionVars == <<now, Enabled, schedule, FaucetBudget, FaucetIssued, free, emissionVersion, credit, covered>>

AnnualEmission == IF emissionVersion = 2 THEN NewAnnual ELSE OldAnnual
TotalIssuance(balances) == SumFunction(balances)

EmissionInit ==
  /\ now = 0
  /\ Enabled \in BOOLEAN
  /\ StartAt \in StartsAt
  /\ SubnetIssued = [s \in Subnets |-> 0] /\ ScheduledIssued = 0
  /\ FaucetBudget \in FaucetBudgets /\ FaucetIssued = 0
  /\ free = [a \in Accounts |-> IF a \in Users THEN GenesisFree ELSE 0]
  /\ emissionVersion \in {1, 2}
  /\ credit = 0 /\ covered = 0

-----------------------------------------------------------------------------
(* Deposits and transfers of the currency. *)

\* A deposit fails when it would overflow the issuance, and when it would
\* open an account below the existential deposit.
deposit_exact(balances, who, amount) ==
  /\ TotalIssuance(balances) + amount <= MaxBalance
  /\ balances[who] + amount >= ExistentialDeposit

\* Currency::transfer with KeepAlive.
CanTransfer(from, to, amount) ==
  /\ free[from] >= amount + ExistentialDeposit
  /\ free[to] + amount >= ExistentialDeposit

Move(from, to, amount) ==
  free' = [free EXCEPT ![from] = @ - amount, ![to] = @ + amount]

Transfer(from, to, amount) ==
  /\ from # to /\ CanTransfer(from, to, amount)
  /\ Move(from, to, amount)
  /\ UNCHANGED <<now, Enabled, schedule, FaucetBudget, FaucetIssued, emissionVersion, credit, covered>>

-----------------------------------------------------------------------------
(* The schedule. *)

\* Cumulative entitlement; None when a product or the sum overflows.
entitlement(elapsed, annual) ==
  LET years    == annual * (elapsed \div Year)
      product  == annual * (elapsed % Year)
      total    == years + (product \div Year)
  IN  IF years > MaxBalance \/ product > MaxBalance \/ total > MaxBalance THEN None ELSE total

mul_floor(share, total) == (share * total) \div One

\* Mutant: books a deposit that failed.
fund_subnet_RecordsFailed(books, route, total) ==
  LET s == route[1]
      amount == mul_floor(route[2], total) - books.issued[s]
  IN  IF amount > 0
      THEN [issued    |-> [books.issued EXCEPT ![s] = @ + amount],
            scheduled |-> books.scheduled + amount,
            free      |-> IF deposit_exact(books.free, pot(s), amount)
                          THEN [books.free EXCEPT ![pot(s)] = @ + amount] ELSE books.free]
      ELSE books

\* One turn of the loop over the routes: bring the subnet up to its target.
\* A subnet that cannot be funded is left for the next block.
fund_subnet(books, route, total) ==
  LET s == route[1]
      amount == mul_floor(route[2], total) - books.issued[s]
  IN  IF amount > 0 /\ deposit_exact(books.free, pot(s), amount)
      THEN [issued    |-> [books.issued EXCEPT ![s] = @ + amount],
            scheduled |-> books.scheduled + amount,
            free      |-> [books.free EXCEPT ![pot(s)] = @ + amount]]
      ELSE books

\* The loop over the routes.
fund_subnets(total) ==
  FoldLeft(LAMBDA b, r : fund_subnet(b, r, total),
           [issued |-> SubnetIssued, scheduled |-> ScheduledIssued, free |-> free], Routes)

\* accrue(now): the first nonzero timestamp anchors an unanchored schedule.
accrue(start, annual) ==
  LET closed   == ~Enabled \/ now = 0
      elapsed  == IF now > start THEN now - start ELSE 0
      total    == entitlement(elapsed, annual)
      books    == fund_subnets(total)
      Keep     == UNCHANGED <<SubnetIssued, ScheduledIssued, free>>
  IN  CASE closed                     -> StartAt' = start /\ Keep
        [] ~closed /\ start = None    -> StartAt' = now /\ Keep
        [] ~closed /\ start # None    ->
             /\ StartAt' = start
             /\ IF total = None THEN Keep
                ELSE /\ SubnetIssued' = books.issued
                     /\ ScheduledIssued' = books.scheduled
                     /\ free' = books.free

\* Mutant: rounds the paid time up.
rebased_start_Up(annual) ==
  LET elapsed == (ScheduledIssued * Year + annual - 1) \div annual
  IN  IF ~Enabled \/ StartAt = None \/ ScheduledIssued = 0 THEN StartAt
      ELSE IF now > elapsed THEN now - elapsed ELSE 0

\* Pick the anchor that makes the entitlement at the new rate meet what was issued.
\* The code's Err (a zero rate, or a duration beyond u128) leaves the upgrade undone; the
\* rate is a positive constant and what was issued is a part of the supply, so it is left out.
rebased_start(annual) ==
  LET elapsed == (ScheduledIssued * Year) \div annual
  IN  IF ~Enabled \/ StartAt = None \/ ScheduledIssued = 0 THEN StartAt
      ELSE IF now > elapsed THEN now - elapsed ELSE 0

\* The seconds of the schedule that pass when the clock moves to t.
Passed(t) ==
  LET Since(x) == IF x > StartAt' THEN x - StartAt' ELSE 0
  IN  IF ~Enabled \/ StartAt' = None THEN 0 ELSE Since(t) - Since(now)

\* The timestamp inherent, which ends what a block does by itself.
SetTime(t) ==
  /\ IF now = 0 THEN t = FirstTime ELSE t \in now..(now + MaxGap) /\ t <= MaxTime
  /\ now' = t

\* A block: accrual up to the previous block's time, then the new timestamp.
on_initialize(t) ==
  /\ SetTime(t)
  /\ accrue(StartAt, AnnualEmission)
  /\ credit' = credit + AnnualEmission * Passed(t) /\ covered' = credit
  /\ UNCHANGED <<Enabled, FaucetBudget, FaucetIssued, emissionVersion>>

\* The first block of new code: on_runtime_upgrade runs before on_initialize.
\* Behind the version guard it is an ordinary block.
on_runtime_upgrade(t) ==
  /\ SetTime(t)
  /\ accrue(IF emissionVersion < 2 THEN rebased_start(NewAnnual) ELSE StartAt, NewAnnual)
  /\ emissionVersion' = 2
  /\ credit' = credit + NewAnnual * Passed(t) /\ covered' = credit
  /\ UNCHANGED <<Enabled, FaucetBudget, FaucetIssued>>

\* What a pot can pay while it keeps the existential deposit.
Available(s) == IF free[pot(s)] > ExistentialDeposit THEN free[pot(s)] - ExistentialDeposit ELSE 0

\* SubnetRewards::pay, called by proof-of-work finalisation.
pay(who, requested) ==
  LET from   == pot(RewardSubnet)
      amount == IF requested < Available(RewardSubnet) THEN requested ELSE Available(RewardSubnet)
  IN  /\ amount # 0 /\ from # who
      /\ CanTransfer(from, who, amount)
      /\ Move(from, who, amount)
      /\ UNCHANGED <<now, Enabled, schedule, FaucetBudget, FaucetIssued, emissionVersion, credit, covered>>

\* Mutant: checks the budget against each call alone.
mint_faucet_PerCall(who, amount) ==
  /\ amount > 0
  /\ amount <= FaucetBudget
  /\ deposit_exact(free, who, amount)
  /\ free' = [free EXCEPT ![who] = @ + amount]
  /\ FaucetIssued' = FaucetIssued + amount
  /\ UNCHANGED <<now, Enabled, schedule, FaucetBudget, emissionVersion, credit, covered>>

\* The backend of the faucet.
mint_faucet(who, amount) ==
  /\ amount > 0
  /\ FaucetIssued + amount <= MaxBalance
  /\ FaucetIssued + amount <= FaucetBudget
  /\ deposit_exact(free, who, amount)
  /\ free' = [free EXCEPT ![who] = @ + amount]
  /\ FaucetIssued' = FaucetIssued + amount
  /\ UNCHANGED <<now, Enabled, schedule, FaucetBudget, emissionVersion, credit, covered>>

=============================================================================
