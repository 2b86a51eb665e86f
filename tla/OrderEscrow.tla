----------------------------- MODULE OrderEscrow -----------------------------
(***************************************************************************)
(* What the compute market promises about money, and nothing about how: a  *)
(* proposer pledges a reward for an order; at some point the order is      *)
(* decided, which fixes its winners for good; a decided order is settled   *)
(* once, by paying the whole pledge to its winners and to nobody else, or  *)
(* by returning it to the proposer when there are none.                    *)
(***************************************************************************)
EXTENDS Integers, Functions

CONSTANTS Accounts, Orders

VARIABLES
  wealth,     \* [Accounts -> Nat], what an account can spend
  stage,      \* [Orders -> {"absent", "open", "decided", "settled"}]
  pledge,     \* [Orders -> Nat]
  pledger,    \* [Orders -> Accounts], meaningful once the order exists
  winners     \* [Orders -> SUBSET Accounts]

escrowVars == <<wealth, stage, pledge, pledger, winners>>

EscrowInit ==
  /\ stage = [o \in Orders |-> "absent"]
  /\ pledge = [o \in Orders |-> 0]
  /\ winners = [o \in Orders |-> {}]

Pledge(o) ==
  /\ stage[o] = "absent"
  /\ stage' = [stage EXCEPT ![o] = "open"]
  /\ \E p \in Accounts : \E r \in 0..wealth[p] :
       /\ pledge' = [pledge EXCEPT ![o] = r]
       /\ pledger' = [pledger EXCEPT ![o] = p]
       /\ wealth' = [wealth EXCEPT ![p] = @ - r]
  /\ UNCHANGED winners

\* One block may decide several orders.
Decide(S) ==
  /\ \A o \in S : stage[o] = "open"
  /\ stage' = [o \in Orders |-> IF o \in S THEN "decided" ELSE stage[o]]
  /\ \A o \in Orders \ S : winners'[o] = winners[o]
  /\ \A o \in S : winners'[o] \subseteq Accounts
  /\ UNCHANGED <<wealth, pledge, pledger>>

Settle(o) ==
  /\ stage[o] = "decided"
  /\ stage' = [stage EXCEPT ![o] = "settled"]
  /\ UNCHANGED <<pledge, pledger, winners>>

Pay(o) ==
  /\ Settle(o) /\ winners[o] # {}
  /\ \E share \in [winners[o] -> 0..pledge[o]] :
       /\ SumFunction(share) = pledge[o]
       /\ wealth' = [a \in Accounts |-> wealth[a] + IF a \in winners[o] THEN share[a] ELSE 0]

Return(o) ==
  /\ Settle(o) /\ winners[o] = {}
  /\ wealth' = [wealth EXCEPT ![pledger[o]] = @ + pledge[o]]

EscrowNext ==
  \/ \E o \in Orders : Pledge(o) \/ Pay(o) \/ Return(o)
  \/ \E S \in SUBSET Orders : Decide(S)

EscrowSpec == EscrowInit /\ [][EscrowNext]_escrowVars
=============================================================================
