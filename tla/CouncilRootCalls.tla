--------------------------- MODULE CouncilRootCalls ---------------------------
(***************************************************************************)
(* The filter a council motion passes before it is dispatched as Root      *)
(* (runtime/src/configs/slashing.rs).  Root bypasses the base call filter,  *)
(* so the whole tree of nested calls is inspected, within a depth and a     *)
(* budget of calls that siblings share.  A call is its name and the calls   *)
(* it carries.                                                             *)
(***************************************************************************)
EXTENDS Integers, Sequences, SequencesExt, FiniteSets

CONSTANTS MaxDepth,  \* 8
          MaxCalls   \* 256

ASSUME LimitsAssumption == MaxDepth \in Nat /\ MaxCalls \in Nat

Call(name, inner) == [name |-> name, inner |-> inner]

DeniedCalls ==
  {"Vesting.force_vested_transfer", "Vesting.force_remove_vesting_schedule",
   "Staking.manual_slash", "System.set_storage", "System.kill_storage", "System.kill_prefix"}

\* Calls that carry one other call.
SingleWrappers ==
  {"Proxy.proxy", "Proxy.proxy_announced", "Multisig.as_multi", "Multisig.as_multi_threshold_1",
   "ValidatorAdmission.dispatch_as_root", "Revive.eth_substrate_call",
   "Revive.dispatch_as_fallback_account", "Foundation.execute", "Foundation.propose",
   "Utility.as_derivative", "Utility.dispatch_as", "Utility.dispatch_as_fallible",
   "Utility.with_weight"}

Batches == {"Utility.batch", "Utility.batch_all", "Utility.force_batch"}

\* Any other call of pallet-utility is refused, known or not.
UtilityCalls == {"Utility.unknown"}

Wrappers == SingleWrappers \cup Batches \cup {"Utility.if_else"}

\* Mutant: if_else is inspected in its main branch only.
Inspected_MainOnly(call) ==
  IF call.name \notin Wrappers THEN <<>>
  ELSE IF call.name = "Utility.if_else" THEN <<call.inner[1]>> ELSE call.inner

\* The calls `allowed` descends into.
Inspected(call) == IF call.name \in Wrappers THEN call.inner ELSE <<>>

\* The children are walked in order, each with what its elder siblings left of the
\* budget; the first refusal ends the walk.
RECURSIVE allowed(_, _, _)
allowed(call, depth, remaining) ==
  IF depth > MaxDepth THEN [error |-> "DepthLimit", remaining |-> remaining]
  ELSE IF remaining = 0 THEN [error |-> "CallLimit", remaining |-> 0]
  ELSE IF call.name \in DeniedCalls \cup UtilityCalls
  THEN [error |-> "Denied", remaining |-> remaining - 1]
  ELSE FoldLeft(LAMBDA acc, c : IF acc.error # "" THEN acc
                                ELSE allowed(c, depth + 1, acc.remaining),
                [error |-> "", remaining |-> remaining - 1], Inspected(call))

\* CouncilRootCalls::check; "" is Ok.
check(call) == allowed(call, 0, MaxCalls).error

-----------------------------------------------------------------------------
(* The reference: the tree as a set of nodes, each with its path. *)

RECURSIVE NodesAt(_, _)
NodesAt(call, path) ==
  {<<path, call.name>>}
  \cup UNION {NodesAt(call.inner[i], Append(path, i)) : i \in DOMAIN call.inner}
Nodes(call) == NodesAt(call, <<>>)
=============================================================================
