----------------------------- MODULE ValidatorSet -----------------------------
(***************************************************************************)
(* How the validator set is chosen: pallet validator-admission, the        *)
(* admission-first election data of runtime/src/configs/                   *)
(* validator_onboarding.rs and the rounds and scheduler of election.rs.    *)
(*                                                                         *)
(* External, as the runtime uses them: pallet-election-provider-multi-     *)
(* block (one page, no signed phase; start, status, elect, manage, on_poll *)
(* and the unsigned miner), pallet-staking (ForceEra, CurrentEra and the   *)
(* rule by which new_session asks for a result) and pallet-session.        *)
(*                                                                         *)
(* In a block the session may rotate (on_initialize), then the election    *)
(* polls, then calls run.  Left out: stakes and supports (a result is its  *)
(* set of winners), weights and events.                                    *)
(***************************************************************************)
EXTENDS Integers, FiniteSets

CONSTANTS
  Validator,           \* accounts that may validate
  MaxAuthorities,      \* bound of Approved
  ValidatorCount,      \* staking's desired number of validators
  MinimumValidatorCount,  \* staking's floor: 3 or 4 in the presets
  MaxValidatorSetCap,
  UnsignedPhase,       \* blocks of the unsigned phase
  PlanningSession,     \* session offset in the era at which a round starts
  SessionsPerEra,
  Graduated,           \* Graduation::ready(); FALSE until it is specified
  MaxInputs,           \* bound: calls and export failures in a behaviour
  None

ASSUME ConstantsAssumption ==
  /\ MaxAuthorities \in Nat \ {0} /\ ValidatorCount \in Nat /\ MaxValidatorSetCap \in Nat
  /\ UnsignedPhase \in Nat /\ PlanningSession \in Nat /\ SessionsPerEra \in Nat
  /\ MaxInputs \in Nat /\ Graduated \in BOOLEAN
  /\ IsFiniteSet(Validator)
  /\ \A S \in SUBSET Validator : S # None

\* The presets assert a floor of at least one and at most the genesis authorities, whose
\* number is the desired one.
ASSUME FloorAssumption == MinimumValidatorCount \in 1..ValidatorCount

\* desired_targets refuses more than the cap, which staking enforces on its own count.
ASSUME CapAssumption == ValidatorCount <= MaxValidatorSetCap
\* ElectionScheduler::integrity_test, the part that does not depend on block times.
ASSUME IntegrityAssumption == UnsignedPhase >= 2 /\ PlanningSession < SessionsPerEra - 1

AdmissionMode == {"FixedTestnet", "FoundationOnly", "PermissionlessEligibility"}
Forcing == {"NotForcing", "ForceNew", "ForceNone", "ForceAlways"}
\* multi_block::Phase; `left` counts the pages or blocks that remain.
Phase == [kind : {"Off", "Done", "Emergency"}, left : {0}]
           \cup [kind : {"Snapshot"}, left : 0..1]
           \cup [kind : {"Unsigned"}, left : 0..(UnsignedPhase - 1)]
\* The election round: phase, target snapshot, winners required, queued winners.
Round == [phase : Phase, targets : SUBSET Validator, desired : Nat,
          queued : (SUBSET Validator) \cup {None}]

VARIABLES
  Mode, Approved,      \* pallet validator-admission
  Validators,          \* staking: accounts that declared the intent to validate
  NextKeys,            \* session: accounts with registered keys
  ForceEra,            \* staking
  era_age,             \* active session - start session of CurrentEra, capped
  CurrentEra,          \* "Some" or "None": the genesis election may have failed
  round,               \* the multi-block election
  planned,             \* validators of the last era staking planned
  polled               \* the election has polled since the session last rotated
VARIABLES              \* history and bound, read by no operation
  stale,               \* a removal or a paused session since the snapshot was taken
  inputs               \* calls and failures so far

admissionVars == <<Mode, Approved>>
stakingVars == <<ForceEra, era_age, CurrentEra, planned>>
vars == <<admissionVars, Validators, NextKeys, stakingVars, round, polled, stale, inputs>>

Input == inputs < MaxInputs /\ inputs' = inputs + 1

-----------------------------------------------------------------------------
(* Multi-block election, external. *)

Off == [phase |-> [kind |-> "Off", left |-> 0], targets |-> {}, desired |-> 0, queued |-> None]
Started == [Off EXCEPT !.phase = [kind |-> "Snapshot", left |-> 1]]

is_running(r) == r.phase.kind # "Off"                 \* status().is_ok()
start(r) == IF is_running(r) THEN r ELSE Started      \* Err(Ongoing) changes nothing

-----------------------------------------------------------------------------
(* AdmissionData: the admitted accounts that staking and session know. *)

candidates == Approved \cap Validators \cap NextKeys

desired_targets ==
  IF ValidatorCount < Cardinality(candidates) THEN ValidatorCount ELSE Cardinality(candidates)

(***************************************************************************)
(* on_poll: targets, then voters, then the unsigned phase counts down.     *)
(***************************************************************************)
NextPhase(p) ==
  CASE p.kind = "Snapshot" /\ p.left = 1 -> [p EXCEPT !.left = 0]
    [] p.kind = "Snapshot" /\ p.left = 0 -> [kind |-> "Unsigned", left |-> UnsignedPhase - 1]
    [] p.kind = "Unsigned" /\ p.left > 0 -> [p EXCEPT !.left = @ - 1]
    [] p.kind = "Unsigned" /\ p.left = 0 -> [kind |-> "Done", left |-> 0]
    [] OTHER -> p

TakesTargets(r) == r.phase = Started.phase

Poll ==
  /\ round' = IF TakesTargets(round)
                THEN [round EXCEPT !.phase = NextPhase(@), !.targets = candidates,
                                   !.desired = desired_targets]
                ELSE [round EXCEPT !.phase = NextPhase(@)]
  /\ stale' = IF TakesTargets(round) THEN FALSE ELSE stale
  /\ polled' = TRUE
  /\ UNCHANGED <<admissionVars, Validators, NextKeys, stakingVars, inputs>>

\* The unsigned miner: a verified solution has exactly the required winners.
submit_unsigned(winners) ==
  /\ round.phase.kind = "Unsigned"
  /\ winners \subseteq round.targets /\ Cardinality(winners) = round.desired
  /\ round.queued # winners
  /\ round' = [round EXCEPT !.queued = winners]
  /\ UNCHANGED <<admissionVars, Validators, NextKeys, stakingVars, polled, stale, inputs>>

\* manage(ForceRotateRound) by FoundationOrRoot.
ForceRotateRound ==
  /\ Input /\ is_running(round)
  /\ round' = Off
  /\ UNCHANGED <<admissionVars, Validators, NextKeys, stakingVars, polled, stale>>

\* manage(ForceSetPhase, EmergencySetSolution) by FoundationOrRoot: any winners.
EmergencySetSolution(winners) ==
  /\ Input
  /\ round' = [round EXCEPT !.phase = [kind |-> "Emergency", left |-> 0], !.queued = winners]
  /\ stale' = FALSE
  /\ UNCHANGED <<admissionVars, Validators, NextKeys, stakingVars, polled>>

-----------------------------------------------------------------------------
(* AdmissionMultiBlockElection::elect. *)

NotReady(r) ==
  \/ r.phase.kind = "Snapshot"
  \/ r.phase.kind = "Unsigned" /\ r.phase.left >= UnsignedPhase - 1

(***************************************************************************)
(* MultiBlockElection::elect: the queued solution, else the on-chain       *)
(* fallback on the snapshot, which may fail.                               *)
(***************************************************************************)
Results(r) ==
  IF r.queued # None THEN {r.queued}
  ELSE {w \in SUBSET r.targets : Cardinality(w) = r.desired}

Elected(r, winners) == [round |-> r, winners |-> winners]

\* The export rotates the round; winners that left admission void the result.
AdmittedResult(winners) ==
  IF winners \subseteq Approved THEN Elected(Off, winners) ELSE Elected(start(Off), None)

\* What elect returns (winners None for an error) and the round it leaves.
elect(r, fails) ==
  IF ~is_running(r) \/ NotReady(r) THEN {Elected(r, None)}
  ELSE IF fails THEN {Elected(Off, None)}
  ELSE {AdmittedResult(w) : w \in Results(r)}

-----------------------------------------------------------------------------
(* ElectionScheduler. *)

\* Mutant: a round starts only in the planning session itself.
Due_Exactly(forcing, age) ==
  age = PlanningSession \/ forcing \in {"ForceNew", "ForceAlways"}
\* Due to start a round: at or after the planning session, or forced.
Due(forcing, age) ==
  age >= PlanningSession \/ forcing \in {"ForceNew", "ForceAlways"}

maybe_start(r, forcing, age) ==
  IF forcing = "ForceNone" THEN Off
  ELSE IF Due(forcing, age) THEN start(r) ELSE r

\* Staking's rule: does new_session(i + 1) at active session i ask for a result?
AsksForResult(age) ==
  \/ CurrentEra = "None"
  \/ ForceEra \in {"ForceNew", "ForceAlways"}
  \/ ForceEra = "NotForcing" /\ age + 1 >= SessionsPerEra

(***************************************************************************)
(* rotate_session enters session i and calls new_session(i + 1): staking   *)
(* first, which may plan an era that starts at i + 1, then maybe_start.    *)
(* A result below the floor plans nothing, and the validators of the last  *)
(* era stay; it only opens era 0, without validators, if there is none.    *)
(***************************************************************************)
Suffices(winners) == winners # None /\ Cardinality(winners) >= MinimumValidatorCount

new_session(fails) ==
  LET age == IF era_age < SessionsPerEra THEN era_age + 1 ELSE era_age IN
  \E e \in IF AsksForResult(age) THEN elect(round, fails) ELSE {Elected(round, None)} :
    LET plans   == Suffices(e.winners)
        opens   == plans \/ (e.winners # None /\ CurrentEra = "None")
        forcing == IF plans /\ ForceEra = "ForceNew" THEN "NotForcing" ELSE ForceEra
    IN /\ planned' = IF plans THEN e.winners ELSE planned
       /\ CurrentEra' = IF opens THEN "Some" ELSE CurrentEra
       /\ ForceEra' = forcing
       /\ era_age' = IF opens THEN -1 ELSE age
       /\ round' = maybe_start(e.round, forcing, IF opens THEN 0 ELSE age)

RotateSession(fails) ==
  /\ polled /\ polled' = FALSE
  /\ IF fails THEN Input ELSE UNCHANGED inputs
  /\ new_session(fails)
  /\ stale' = (stale \/ ForceEra = "ForceNone")
  /\ UNCHANGED <<admissionVars, Validators, NextKeys>>

-----------------------------------------------------------------------------
(* pallet validator-admission, called by the Foundation. *)

approve(who) ==
  /\ Input /\ Mode = "FoundationOnly"
  /\ who \notin Approved /\ Cardinality(Approved) < MaxAuthorities
  /\ Approved' = Approved \cup {who}
  /\ UNCHANGED <<Mode, Validators, NextKeys, stakingVars, round, polled, stale>>

\* Mutant: the round goes on with the snapshot it has.
on_removal_Ignored(r) == r
\* Mutant: only the queued solution is dropped.
on_removal_DropsSolution(r) == [r EXCEPT !.queued = None]

\* InvalidateAdmissionRound::on_removal
on_removal(r) ==
  IF ~is_running(r) THEN r
  ELSE IF ForceEra # "ForceNone" THEN start(Off) ELSE Off

remove(who) ==
  /\ Input /\ Mode = "FoundationOnly"
  /\ who \in Approved
  /\ Approved' = Approved \ {who}
  /\ round' = on_removal(round)
  /\ stale' = TRUE
  /\ UNCHANGED <<Mode, Validators, NextKeys, stakingVars, polled>>

Transition(from, to) ==
  \/ from = "FixedTestnet" /\ to = "FoundationOnly"
  \/ from = "FoundationOnly" /\ to = "PermissionlessEligibility" /\ Graduated

advance(mode) ==
  /\ Input /\ Transition(Mode, mode)
  /\ Mode' = mode
  /\ UNCHANGED <<Approved, Validators, NextKeys, stakingVars, round, polled, stale>>

-----------------------------------------------------------------------------
(* Calls of other pallets: staking intents, session keys, forcing. *)

Toggle(S, who) == IF who \in S THEN S \ {who} ELSE S \cup {who}

ValidateOrChill(who) ==
  /\ Input /\ Validators' = Toggle(Validators, who)
  /\ UNCHANGED <<admissionVars, NextKeys, stakingVars, round, polled, stale>>

SetOrPurgeKeys(who) ==
  /\ Input /\ NextKeys' = Toggle(NextKeys, who)
  /\ UNCHANGED <<admissionVars, Validators, stakingVars, round, polled, stale>>

ForceEras(forcing) ==
  /\ Input /\ ForceEra # forcing /\ ForceEra' = forcing
  /\ UNCHANGED <<admissionVars, Validators, NextKeys, era_age, CurrentEra, planned, round,
                 polled, stale>>

-----------------------------------------------------------------------------
\* Genesis: an admitted set within the bounds, in a mode other than permissionless.
GenesisBuild ==
  /\ Mode \in AdmissionMode \ {"PermissionlessEligibility"}
  /\ Approved \in SUBSET Validator
  /\ Cardinality(Approved) \in MinimumValidatorCount..MaxAuthorities

Init ==
  /\ GenesisBuild
  /\ Validators = Approved /\ NextKeys = Approved
  /\ ForceEra = "NotForcing"
  /\ era_age = 0
  /\ \/ CurrentEra = "Some" /\ planned = candidates
     \/ CurrentEra = "None" /\ planned = {}
  /\ round = Off
  /\ polled = FALSE /\ stale = FALSE /\ inputs = 0

Admission == \/ \E who \in Validator : approve(who) \/ remove(who)
             \/ \E mode \in AdmissionMode : advance(mode)

External == \/ \E who \in Validator : ValidateOrChill(who) \/ SetOrPurgeKeys(who)
            \/ \E forcing \in Forcing : ForceEras(forcing)
            \/ \E winners \in SUBSET Validator :
                 submit_unsigned(winners) \/ EmergencySetSolution(winners)
            \/ ForceRotateRound

Next == Poll \/ (\E fails \in BOOLEAN : RotateSession(fails)) \/ Admission \/ External

(***************************************************************************)
(* Blocks are produced and sessions end; nobody has to call anything.      *)
(***************************************************************************)
Fairness == WF_vars(Poll) /\ WF_vars(RotateSession(FALSE))

Spec == Init /\ [][Next]_vars /\ Fairness

-----------------------------------------------------------------------------
(* Properties. *)

\* Every variable has its type: Approved within MaxAuthorities, the round a phase of
\* the multi-block pallet, the age of the era within the cap.
TypeOK ==
  /\ Mode \in AdmissionMode
  /\ Approved \subseteq Validator /\ Cardinality(Approved) <= MaxAuthorities
  /\ Validators \subseteq Validator /\ NextKeys \subseteq Validator
  /\ ForceEra \in Forcing /\ era_age \in -1..SessionsPerEra
  /\ CurrentEra \in {"Some", "None"} /\ planned \subseteq Validator
  /\ round \in Round
  /\ polled \in BOOLEAN /\ stale \in BOOLEAN /\ inputs \in 0..MaxInputs

\* The snapshot an election works on never holds an account that admission no longer
\* approves: removal invalidates the round that is under way (on_removal).
SnapshotAdmitted == round.targets \subseteq Approved

\* The session rotated and staking planned an era; era 0 may open without validators.
PlansEra == polled /\ ~polled' /\ era_age' = -1 /\ planned' # {}

\* An era is only ever planned with validators that are admitted at that moment, also
\* when the council set the solution itself; the whole result is refused otherwise, so
\* a planned set is one that was solved for (AdmissionMultiBlockElection::elect).  No
\* other step changes the set in charge: removals below the floor retain the old one.
WinnersAdmitted ==
  [][/\ PlansEra => planned' \subseteq Approved /\ (round.queued # None => planned' = round.queued)
     /\ planned' # planned => PlansEra /\ Cardinality(planned') >= MinimumValidatorCount]_vars

\* No era is planned from data collected before a validator was removed or before a
\* session passed with eras paused, even if the account was admitted again meanwhile
\* (on_removal, maybe_start under ForceNone).
NoStaleExport == [][PlansEra => ~stale]_vars

\* Whoever becomes a validator is admitted, and was elected from current data.
ElectedAreCurrent == WinnersAdmitted /\ NoStaleExport

\* A round that is over, or that waits for its targets, holds no data of an earlier one.
FreshRoundIsEmpty ==
  /\ ~is_running(round) => round = Off
  /\ TakesTargets(round) => round = Started

\* Removal and pauses leave no stale data behind: a round that holds a snapshot or may
\* take a solution is not stale.  The strengthening that makes NoStaleExport hold.
LiveRoundIsFresh == stale => round \in {Off, Started}

\* The round under way works on typed, admitted and current data, after removals,
\* pauses, failed exports and restarts in any order.
RoundSound == TypeOK /\ SnapshotAdmitted /\ FreshRoundIsEmpty /\ LiveRoundIsFresh

\* Whatever failed exports, refused results, removals, restarts and pauses came before,
\* once eras are not paused and as many candidates as the floor demands stay, eras are
\* planned again and again (maybe_start restarts with >= instead of freezing; elect
\* spares unready rounds).
ErasKeepComing ==
  <>[](ForceEra # "ForceNone" /\ Cardinality(candidates) >= MinimumValidatorCount)
    => []<>(era_age = -1 /\ planned # {})

=============================================================================
