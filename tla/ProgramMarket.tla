----------------------------- MODULE ProgramMarket -----------------------------
(***************************************************************************)
(* Pallet xqvm composed with the mempool that runs its programs.           *)
(* `programs` of ComputeMempool is the key set of pallet-xqvm's Programs   *)
(* map; the two pallets take escrow and deposits from the same balances.   *)
(* A program is named by the hash of its bytes: what the bytes are is      *)
(* fixed, whether they are stored changes.                                 *)
(*                                                                         *)
(* `execute` writes no storage and is left out; see XqvmShape for the      *)
(* mempool's own runs.  Source: pallets/xqvm/src/lib.rs.                   *)
(***************************************************************************)
EXTENDS ComputeMempool, XqvmShape

CONSTANTS
  Authors,           \* bound: the accounts that store programs
  Code,              \* [Programs -> Seq(Instructions)]
  Decodes, Verifies, \* [Programs -> BOOLEAN]: the container, the instruction stream
  Size,              \* [Programs -> Nat], bytes
  DepositBase, DepositPerByte, MaxProgramBlocks, MaxLoopDepth

ASSUME MarketAssumption ==
  /\ IsFiniteSet(Programs) /\ Size \in [Programs -> Nat]
  /\ DepositBase \in Nat /\ DepositPerByte \in Nat
  /\ Authors \subseteq Accounts /\ None \notin Accounts

VARIABLES ProgramOwner, ProgramDeposit,
          held               \* pallet-balances: HoldReason::StoredProgram

xqvmVars == <<ProgramOwner, ProgramDeposit, held>>
marketVars == <<vars, xqvmVars>>
mempoolRest == <<now, orderVars, queueVars, rankVars, reserved, ProposerOrders, paid,
                 resultVars, registryVars, locked>>

deposit_for(h) == DepositBase + DepositPerByte * Size[h]

\* External: MutateHold::hold protects the account; locks do not stand in its way.
CanHold(who, amount) == free[who] >= amount + ExistentialDeposit

\* What `verify` may be run on, and what passes it.
Admissible(h) ==
  LET shape == ControlFlowShape(Code[h])
  IN  /\ Decodes[h] /\ Verifies[h]
      /\ shape.blocks <= MaxProgramBlocks /\ shape.loop_depth <= MaxLoopDepth

store_program(who, h) ==
  LET deposit == deposit_for(h) IN
  /\ Admissible(h)
  /\ h \notin programs
  /\ CanHold(who, deposit)
  /\ free' = [free EXCEPT ![who] = @ - deposit]
  /\ held' = [held EXCEPT ![who] = @ + deposit]
  /\ programs' = programs \cup {h}
  /\ ProgramOwner' = [ProgramOwner EXCEPT ![h] = who]
  /\ ProgramDeposit' = [ProgramDeposit EXCEPT ![h] = deposit]
  /\ UNCHANGED mempoolRest

\* Mutant: only the flat part of the deposit is released.
do_remove_BaseOnly(h, owner) ==
  /\ h \in programs
  /\ free' = [free EXCEPT ![owner] = @ + DepositBase]
  /\ held' = [held EXCEPT ![owner] = @ - DepositBase]
  /\ programs' = programs \ {h}
  /\ ProgramOwner' = [ProgramOwner EXCEPT ![h] = None]
  /\ ProgramDeposit' = [ProgramDeposit EXCEPT ![h] = None]
  /\ UNCHANGED mempoolRest

\* The recorded deposit goes back as far as the hold allows (BestEffort).
do_remove(h, owner) ==
  LET released == Min({ProgramDeposit[h], held[owner]}) IN
  /\ h \in programs
  /\ free' = [free EXCEPT ![owner] = @ + released]
  /\ held' = [held EXCEPT ![owner] = @ - released]
  /\ programs' = programs \ {h}
  /\ ProgramOwner' = [ProgramOwner EXCEPT ![h] = None]
  /\ ProgramDeposit' = [ProgramDeposit EXCEPT ![h] = None]
  /\ UNCHANGED mempoolRest

remove_program(who, h) == ProgramOwner[h] = who /\ do_remove(h, who)

\* Root; the deposit goes back to whoever stored the program.
evict_program(h) == ProgramOwner[h] # None /\ do_remove(h, ProgramOwner[h])

-----------------------------------------------------------------------------
(* The mempool's side of the two points where the pallets meet. *)

\* submit_solution_inner runs the transform, under one budget, before scoring.
SubmitTransformed(solver, o, submission, payee) ==
  /\ submit_solution(solver, o, submission, payee)
  /\ TransformProgram[JobOrders[o].terms.spec_id] # None => transform(submission.runs).error = ""
  /\ UNCHANGED xqvmVars

\* External: an account with other reserves or holds is kept alive, so the last transfer
\* of a settlement must leave it the existential deposit.
KeepsAlive(o) ==
  LET p == JobOrders[o].proposer
      r == JobOrders[o].terms.reward
      payouts == compute_payouts(o)
  IN  reserved[p] > r \/ held[p] > 0 =>
        free[p] + AmountFor(payouts, p) + r - PayoutTotal(payouts) >= ExistentialDeposit

\* claim_reward where the proposer may hold deposits; validate_result runs no program.
ClaimHeld(o) == claim_reward(o) /\ KeepsAlive(o) /\ UNCHANGED xqvmVars

MarketInit ==
  /\ Init
  /\ ProgramOwner = [h \in Programs |-> None] /\ ProgramDeposit = [h \in Programs |-> None]
  /\ held = [a \in Accounts |-> 0]

MempoolCalls ==
  \/ \E who \in Miners, ty \in MinerTypes : register_solver(who, ty)
  \/ \E who \in Miners : deregister_solver(who)
  \/ \E spec \in Specs : register_job_spec(spec)
  \/ \E who \in Proposers, t \in Terms : propose_job(who, t)
  \/ \E who \in Proposers, t \in Terms, c \in Chains :
       propose_job_with_payee_requirement(who, t, c)
  \/ \E who \in Proposers, o \in OrderIds : reclaim_order(who, o)
  \/ \E o \in OrderIds : purge_result(o)

MarketNext ==
  \/ on_initialize /\ UNCHANGED xqvmVars
  \/ /\ now > 0
     /\ \/ MempoolCalls /\ UNCHANGED xqvmVars
        \/ \E who \in Miners, o \in OrderIds, s \in Submissions, p \in Payees \cup {None} :
             SubmitTransformed(who, o, s, p)
        \/ \E o \in OrderIds : ClaimHeld(o)
        \/ \E who \in Authors, h \in Programs : store_program(who, h) \/ remove_program(who, h)
        \/ \E h \in Programs : evict_program(h)

MarketSpec == MarketInit /\ [][MarketNext]_marketVars

-----------------------------------------------------------------------------
(* Properties. *)

Owned(who) == {h \in Programs : ProgramOwner[h] = who}

(***************************************************************************)
(* The three maps of pallet-xqvm have the same keys, an account's hold is  *)
(* the sum of the deposits of the programs it stored, whoever removed the  *)
(* others, and no call of either pallet creates or destroys funds.         *)
(***************************************************************************)
DepositsBackPrograms ==
  /\ \A h \in Programs :
       (h \in programs) = (ProgramOwner[h] # None) /\ (h \in programs) = (ProgramDeposit[h] # None)
  /\ \A a \in Accounts : held[a] = SumFunctionOnSet(ProgramDeposit, Owned(a))
  /\ SumFunction([a \in Accounts |-> free[a] + reserved[a] + held[a]]) = SumFunction(InitialFree)

(***************************************************************************)
(* An expired order can be settled at once, whatever became of the         *)
(* programs of its spec and however much of the proposer's balance is tied *)
(* up in other orders and in program deposits: claim_reward is accepted if *)
(* it was solved, reclaim_order if not.                                    *)
(***************************************************************************)
SettlementNeverBlocked ==
  \A o \in OrderIds :
    JobOrders[o] # None =>
      (JobOrders[o].status = "Expired" =>
         (ClaimAccepted(o) /\ KeepsAlive(o)) \/ ReclaimAccepted(JobOrders[o].proposer, o))
=============================================================================
