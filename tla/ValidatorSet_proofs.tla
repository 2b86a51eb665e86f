-------------------------- MODULE ValidatorSet_proofs --------------------------
(***************************************************************************)
(* Whoever becomes a validator is admitted and was elected from current    *)
(* data, proved for every set of accounts, every phase length and every    *)
(* number of calls.                                                        *)
(***************************************************************************)
EXTENDS ValidatorSet, FiniteSetTheorems, TLAPS

\* The two rounds that hold no data are rounds.
LEMMA EmptyRounds ==
  /\ Off \in Round /\ Started \in Round /\ Off # Started
  /\ Off.targets = {} /\ Started.targets = {} /\ Off.queued = None /\ Started.queued = None
  /\ ~is_running(Off) /\ is_running(Started) /\ start(Off) = Started
  /\ ~TakesTargets(Off) /\ NotReady(Started)
  /\ Off.desired = 0 /\ Started.desired = 0
<1>1. Off.phase.kind = "Off" /\ Started.phase.kind = "Snapshot"
  BY DEF Off, Started
<1>2. /\ Off.targets = {} /\ Started.targets = {} /\ Off.queued = None /\ Started.queued = None
      /\ Off.desired = 0 /\ Started.desired = 0
  BY DEF Off, Started
<1>3. Off.phase \in Phase /\ Started.phase \in Phase
  BY DEF Off, Started, Phase
<1>4. Off \in Round
  BY <1>3 DEF Off, Round
<1>5. Started \in Round
  <2>1. Started = [phase |-> [kind |-> "Snapshot", left |-> 1], targets |-> {}, desired |-> 0,
                   queued |-> None]
    BY DEF Started, Off
  <2>2. [kind |-> "Snapshot", left |-> 1] \in Phase
    BY DEF Phase
  <2> QED BY <2>1, <2>2 DEF Round
<1>6. /\ ~is_running(Off) /\ is_running(Started) /\ start(Off) = Started
      /\ ~TakesTargets(Off) /\ NotReady(Started) /\ Off # Started
  BY <1>1 DEF is_running, start, TakesTargets, NotReady
<1> QED BY <1>2, <1>4, <1>5, <1>6

\* on_poll moves a phase to a phase.
LEMMA NextPhaseTyped ==
  ASSUME NEW p \in Phase
  PROVE  /\ NextPhase(p) \in Phase
         /\ NextPhase(p).kind = "Off" <=> p.kind = "Off"
         /\ NextPhase(p) # Started.phase
  BY ConstantsAssumption, IntegrityAssumption DEF NextPhase, Phase, Started, Off

\* desired_targets counts a finite set.
LEMMA DesiredIsNat ==
  ASSUME Approved \subseteq Validator
  PROVE  desired_targets \in Nat /\ candidates \subseteq Approved
<1>1. IsFiniteSet(candidates) /\ candidates \subseteq Approved
  BY ConstantsAssumption, FS_Subset DEF candidates
<1> QED BY <1>1, FS_CardinalityType, ConstantsAssumption DEF desired_targets

-----------------------------------------------------------------------------
\* Rounds that elect and maybe_start hand on keep the invariant's shape.
GoodRound(r) ==
  /\ r \in Round /\ r.targets \subseteq Approved
  /\ ~is_running(r) => r = Off
  /\ TakesTargets(r) => r = Started

LEMMA EmptyRoundsGood == GoodRound(Off) /\ GoodRound(Started)
  BY EmptyRounds DEF GoodRound

\* What elect returns: either nothing, and then the round as it was or an empty one, or
\* admitted winners of a round that was ready, the queued ones if there were any.
LEMMA ElectResults ==
  ASSUME NEW r, GoodRound(r), NEW fails \in BOOLEAN, NEW e \in elect(r, fails)
  PROVE  \/ e.winners = None /\ e.round \in {r, Off, Started} /\ GoodRound(e.round)
         \/ /\ r \notin {Off, Started} /\ e.round = Off
            /\ e.winners \subseteq Approved /\ e.winners \subseteq Validator
            /\ r.queued # None => e.winners = r.queued
<1>1. CASE ~is_running(r) \/ NotReady(r)
  BY <1>1 DEF elect, Elected
<1>2. CASE ~(~is_running(r) \/ NotReady(r)) /\ fails
  BY <1>2, EmptyRoundsGood DEF elect, Elected
<1>3. CASE ~(~is_running(r) \/ NotReady(r)) /\ ~fails
  <2>1. PICK w \in Results(r) : e = AdmittedResult(w)
    BY <1>3 DEF elect
  <2>2. r \notin {Off, Started}
    BY <1>3, EmptyRounds
  <2>3. w \subseteq Validator /\ (r.queued # None => w = r.queued)
    BY DEF Results, GoodRound, Round
  <2>4. CASE w \subseteq Approved
    BY <2>1, <2>2, <2>3, <2>4 DEF AdmittedResult, Elected
  <2>5. CASE ~(w \subseteq Approved)
    BY <2>1, <2>5, EmptyRounds, EmptyRoundsGood DEF AdmittedResult, Elected
  <2> QED BY <2>4, <2>5
<1> QED BY <1>1, <1>2, <1>3

\* maybe_start keeps a round, or leaves an empty one.
LEMMA MaybeStartRounds ==
  ASSUME NEW r, GoodRound(r), NEW forcing, NEW age
  PROVE  /\ maybe_start(r, forcing, age) \in {r, Off, Started}
         /\ GoodRound(maybe_start(r, forcing, age))
         /\ forcing = "ForceNone" => maybe_start(r, forcing, age) = Off
         /\ r \in {Off, Started} => maybe_start(r, forcing, age) \in {Off, Started}
  BY EmptyRoundsGood, EmptyRounds DEF maybe_start, start

\* What is true of the set that a rotation puts in charge.
PlansCurrent ==
  /\ Cardinality(planned') >= MinimumValidatorCount
  /\ round \notin {Off, Started} /\ planned' \subseteq Approved
  /\ round.queued # None => planned' = round.queued

(***************************************************************************)
(* The rotation of a session: what staking plans, and the round that is    *)
(* left.  The facts every later step needs about RotateSession.            *)
(***************************************************************************)
LEMMA RotationResult ==
  ASSUME RoundSound, NEW fails \in BOOLEAN, RotateSession(fails)
  PROVE  /\ GoodRound(round')
         /\ era_age' \in -1..SessionsPerEra /\ ForceEra' \in Forcing
         /\ CurrentEra' \in {"Some", "None"} /\ planned' \subseteq Validator
         /\ UNCHANGED planned \/ (era_age' = -1 /\ planned' # {} /\ PlansCurrent)
         /\ era_age' = -1 => PlansCurrent \/ (CurrentEra = "None" /\ UNCHANGED planned)
         /\ CurrentEra' = "None" => CurrentEra = "None" /\ UNCHANGED planned
         /\ round \in {Off, Started} => round' \in {Off, Started}
         /\ ForceEra = "ForceNone" => round' = Off
<1> DEFINE age == IF era_age < SessionsPerEra THEN era_age + 1 ELSE era_age
<1>1. PICK e \in IF AsksForResult(age) THEN elect(round, fails) ELSE {Elected(round, None)} :
        LET plans   == Suffices(e.winners)
            opens   == plans \/ (e.winners # None /\ CurrentEra = "None")
            forcing == IF plans /\ ForceEra = "ForceNew" THEN "NotForcing" ELSE ForceEra
        IN /\ planned' = IF plans THEN e.winners ELSE planned
           /\ CurrentEra' = IF opens THEN "Some" ELSE CurrentEra
           /\ ForceEra' = forcing
           /\ era_age' = IF opens THEN -1 ELSE age
           /\ round' = maybe_start(e.round, forcing, IF opens THEN 0 ELSE age)
  BY DEF RotateSession, new_session
<1> DEFINE plans == Suffices(e.winners)
           opens == plans \/ (e.winners # None /\ CurrentEra = "None")
           forcing == IF plans /\ ForceEra = "ForceNew" THEN "NotForcing" ELSE ForceEra
<1>2. age \in 0..SessionsPerEra
  BY ConstantsAssumption, IntegrityAssumption DEF RoundSound, TypeOK
<1>3. GoodRound(round)
  BY DEF RoundSound, TypeOK, SnapshotAdmitted, FreshRoundIsEmpty, GoodRound
<1>4. \/ e.winners = None /\ e.round \in {round, Off, Started} /\ GoodRound(e.round)
      \/ /\ round \notin {Off, Started} /\ e.round = Off
         /\ e.winners \subseteq Approved /\ e.winners \subseteq Validator
         /\ round.queued # None => e.winners = round.queued
  <2>1. CASE AsksForResult(age)
    BY <1>1, <1>3, <2>1, ElectResults
  <2>2. CASE ~AsksForResult(age)
    BY <1>1, <1>3, <2>2 DEF Elected
  <2> QED BY <2>1, <2>2
<1>5. GoodRound(e.round)
  BY <1>4, EmptyRoundsGood
<1>6. /\ round' \in {e.round, Off, Started} /\ GoodRound(round')
      /\ forcing = "ForceNone" => round' = Off
      /\ e.round \in {Off, Started} => round' \in {Off, Started}
  <2> DEFINE a == IF opens THEN 0 ELSE age
  <2>1. round' = maybe_start(e.round, forcing, a)
    BY <1>1
  <2> HIDE DEF forcing, a
  <2>2. /\ maybe_start(e.round, forcing, a) \in {e.round, Off, Started}
        /\ GoodRound(maybe_start(e.round, forcing, a))
        /\ forcing = "ForceNone" => maybe_start(e.round, forcing, a) = Off
        /\ e.round \in {Off, Started} => maybe_start(e.round, forcing, a) \in {Off, Started}
    BY <1>5, MaybeStartRounds
  <2> QED BY <2>1, <2>2
<1>7. /\ era_age' = IF opens THEN -1 ELSE age
      /\ ForceEra' = forcing
      /\ planned' = IF plans THEN e.winners ELSE planned
      /\ CurrentEra' = IF opens THEN "Some" ELSE CurrentEra
  BY <1>1
<1>8. ForceEra \in Forcing /\ CurrentEra \in {"Some", "None"} /\ planned \subseteq Validator
  BY DEF RoundSound, TypeOK
<1>9. e.round \in {round, Off, Started}
  BY <1>4
<1> HIDE DEF age
<1>10. era_age' = -1 <=> opens
  BY <1>2, <1>7
<1>11. ForceEra = "ForceNone" => forcing = "ForceNone"
  OBVIOUS
<1>12. plans => planned' # {} /\ PlansCurrent
  <2> SUFFICES ASSUME plans PROVE planned' # {} /\ PlansCurrent
    OBVIOUS
  <2>1. planned' = e.winners /\ e.winners # None /\ Cardinality(e.winners) >= MinimumValidatorCount
    BY <1>7 DEF Suffices
  <2>2. e.winners # {}
    BY <2>1, FloorAssumption, ConstantsAssumption, FS_EmptySet
  <2> QED BY <1>4, <2>1, <2>2 DEF PlansCurrent
<1>13. ~plans => UNCHANGED planned
  BY <1>7
<1>14. /\ UNCHANGED planned \/ (era_age' = -1 /\ planned' # {} /\ PlansCurrent)
       /\ era_age' = -1 => PlansCurrent \/ (CurrentEra = "None" /\ UNCHANGED planned)
       /\ CurrentEra' = "None" => CurrentEra = "None" /\ UNCHANGED planned
  <2> HIDE DEF plans
  <2> QED BY <1>7, <1>10, <1>12, <1>13
<1>15. planned' \subseteq Validator
  <2>1. plans => e.winners \subseteq Validator
    BY <1>4 DEF Suffices
  <2> QED BY <1>7, <1>8, <2>1
<1>16. era_age' \in -1..SessionsPerEra
  BY <1>2, <1>7, ConstantsAssumption
<1>17. ForceEra' \in Forcing /\ CurrentEra' \in {"Some", "None"}
  BY <1>7, <1>8 DEF Forcing
<1>18. round \in {Off, Started} => round' \in {Off, Started}
  BY <1>6, <1>9
<1>19. ForceEra = "ForceNone" => round' = Off
  BY <1>6, <1>11
<1> QED BY <1>6, <1>14, <1>15, <1>16, <1>17, <1>18, <1>19

-----------------------------------------------------------------------------
LEMMA RoundSoundInit == Init => RoundSound
<1> SUFFICES ASSUME Init PROVE RoundSound
  OBVIOUS
<1>1. TypeOK
  <2>1. Mode \in AdmissionMode /\ Approved \subseteq Validator
        /\ Cardinality(Approved) <= MaxAuthorities
    BY DEF Init, GenesisBuild
  <2>2. ForceEra \in Forcing /\ era_age \in -1..SessionsPerEra /\ inputs \in 0..MaxInputs
    BY ConstantsAssumption DEF Init, Forcing
  <2>3. CurrentEra \in {"Some", "None"} /\ planned \subseteq Validator
    BY <2>1 DEF Init, candidates
  <2>4. Validators \subseteq Validator /\ NextKeys \subseteq Validator /\ round \in Round
    BY <2>1, EmptyRounds DEF Init
  <2>5. polled \in BOOLEAN /\ stale \in BOOLEAN
    BY DEF Init
  <2> QED BY <2>1, <2>2, <2>3, <2>4, <2>5 DEF TypeOK
<1>2. SnapshotAdmitted /\ FreshRoundIsEmpty /\ LiveRoundIsFresh
  BY EmptyRounds DEF Init, SnapshotAdmitted, FreshRoundIsEmpty, LiveRoundIsFresh
<1> QED BY <1>1, <1>2 DEF RoundSound

\* A counted call stays within the bound.
LEMMA InputTyped ==
  ASSUME Input, inputs \in 0..MaxInputs
  PROVE  inputs' \in 0..MaxInputs
  BY ConstantsAssumption DEF Input

\* Poll takes targets from the candidates of this block, or counts down.
LEMMA PollKeeps == ASSUME RoundSound, Poll PROVE RoundSound'
<1> USE DEF RoundSound, TypeOK
<1>1. round.phase \in Phase
  BY DEF Round
<1>2. CASE TakesTargets(round)
  <2> DEFINE next == [round EXCEPT !.phase = NextPhase(@), !.targets = candidates,
                                   !.desired = desired_targets]
  <2>1. round' = next /\ stale' = FALSE
    BY <1>2 DEF Poll
  <2>2. next \in Round /\ next.targets = candidates /\ next.phase = NextPhase(round.phase)
    BY <1>1, NextPhaseTyped, DesiredIsNat DEF Round
  <2>3. is_running(next) /\ ~TakesTargets(next)
    BY <1>1, <1>2, <2>2, NextPhaseTyped DEF is_running, TakesTargets, Started, Off
  <2> HIDE DEF next
  <2> QED BY <2>1, <2>2, <2>3, DesiredIsNat
          DEF Poll, admissionVars, stakingVars, SnapshotAdmitted, FreshRoundIsEmpty,
              LiveRoundIsFresh
<1>3. CASE ~TakesTargets(round)
  <2> DEFINE next == [round EXCEPT !.phase = NextPhase(@)]
  <2>1. round' = next /\ stale' = stale
    BY <1>3 DEF Poll
  <2>2. next \in Round /\ next.targets = round.targets /\ next.phase = NextPhase(round.phase)
    BY <1>1, NextPhaseTyped DEF Round
  <2>3. ~TakesTargets(next) /\ (is_running(next) <=> is_running(round))
    BY <1>1, <2>2, NextPhaseTyped DEF is_running, TakesTargets
  <2>4. ~is_running(round) => next = round
    <3>1. ~is_running(round) => NextPhase(round.phase) = round.phase
      BY DEF is_running, NextPhase
    <3> QED BY <3>1 DEF Round
  <2>5. stale => round = Off
    BY <1>3 DEF LiveRoundIsFresh, TakesTargets
  <2>6. stale => next = Off
    BY <2>4, <2>5, EmptyRounds
  <2> HIDE DEF next
  <2>7. TypeOK'
    BY <2>1, <2>2 DEF Poll, admissionVars, stakingVars
  <2>8. SnapshotAdmitted'
    BY <2>1, <2>2 DEF Poll, admissionVars, SnapshotAdmitted
  <2>10. LiveRoundIsFresh'
    BY <2>1, <2>6, Zenon DEF LiveRoundIsFresh
  <2>9. FreshRoundIsEmpty'
    BY <2>1, <2>3, <2>4 DEF FreshRoundIsEmpty
  <2> QED BY <2>7, <2>8, <2>9, <2>10
<1> QED BY <1>2, <1>3

LEMMA RotateKeeps ==
  ASSUME RoundSound, NEW fails \in BOOLEAN, RotateSession(fails)
  PROVE  RoundSound'
<1>1. /\ GoodRound(round')
      /\ era_age' \in -1..SessionsPerEra /\ ForceEra' \in Forcing
      /\ CurrentEra' \in {"Some", "None"} /\ planned' \subseteq Validator
      /\ round \in {Off, Started} => round' \in {Off, Started}
      /\ ForceEra = "ForceNone" => round' = Off
  BY RotationResult
<1>2. Approved' = Approved /\ Mode' = Mode /\ Validators' = Validators /\ NextKeys' = NextKeys
      /\ polled' = FALSE /\ stale' = (stale \/ ForceEra = "ForceNone")
  BY DEF RotateSession, admissionVars
<1>3. inputs' \in 0..MaxInputs
  BY InputTyped DEF RotateSession, RoundSound, TypeOK
<1>4. TypeOK'
  BY <1>1, <1>2, <1>3 DEF RoundSound, TypeOK, GoodRound
<1>5. stale' => round' \in {Off, Started}
  BY <1>1, <1>2 DEF RoundSound, LiveRoundIsFresh
<1> QED BY <1>1, <1>2, <1>4, <1>5
        DEF RoundSound, GoodRound, SnapshotAdmitted, FreshRoundIsEmpty, LiveRoundIsFresh

LEMMA ApproveKeeps ==
  ASSUME RoundSound, NEW who \in Validator, approve(who)
  PROVE  RoundSound'
<1>1. IsFiniteSet(Approved)
  BY ConstantsAssumption, FS_Subset DEF RoundSound, TypeOK
<1>2. Cardinality(Approved \cup {who}) <= MaxAuthorities
  <2>1. Cardinality(Approved) \in Nat /\ Cardinality(Approved \cup {who}) = Cardinality(Approved) + 1
    BY <1>1, FS_AddElement, FS_CardinalityType DEF approve
  <2> QED BY <2>1, ConstantsAssumption DEF approve
<1>3. inputs' \in 0..MaxInputs
  BY InputTyped DEF approve, RoundSound, TypeOK
<1> QED BY <1>2, <1>3
        DEF approve, RoundSound, TypeOK, SnapshotAdmitted, FreshRoundIsEmpty, LiveRoundIsFresh,
            stakingVars

LEMMA RemoveKeeps ==
  ASSUME RoundSound, NEW who \in Validator, remove(who)
  PROVE  RoundSound'
<1>1. IsFiniteSet(Approved)
  BY ConstantsAssumption, FS_Subset DEF RoundSound, TypeOK
<1>2. Cardinality(Approved \ {who}) <= MaxAuthorities
  <2>1. Cardinality(Approved) \in Nat /\ Cardinality(Approved \ {who}) = Cardinality(Approved) - 1
    BY <1>1, FS_RemoveElement, FS_CardinalityType DEF remove
  <2> QED BY <2>1, ConstantsAssumption DEF RoundSound, TypeOK
<1>3. inputs' \in 0..MaxInputs
  BY InputTyped DEF remove, RoundSound, TypeOK
<1>4. round' \in {Off, Started}
  BY EmptyRounds DEF remove, on_removal, RoundSound, FreshRoundIsEmpty
<1>5. TypeOK'
  BY <1>2, <1>3, <1>4, EmptyRounds DEF remove, RoundSound, TypeOK, stakingVars
<1> QED BY <1>4, <1>5, EmptyRounds
        DEF RoundSound, SnapshotAdmitted, FreshRoundIsEmpty, LiveRoundIsFresh

\* The calls of other pallets, the unsigned miner and the council's election calls.
LEMMA ExternalKeeps == ASSUME RoundSound, External PROVE RoundSound'
<1> USE DEF RoundSound, TypeOK
<1>1. ASSUME NEW who \in Validator, ValidateOrChill(who) \/ SetOrPurgeKeys(who) PROVE RoundSound'
  BY <1>1, InputTyped
  DEF ValidateOrChill, SetOrPurgeKeys, Toggle, admissionVars, stakingVars, SnapshotAdmitted,
      FreshRoundIsEmpty, LiveRoundIsFresh
<1>2. ASSUME NEW forcing \in Forcing, ForceEras(forcing) PROVE RoundSound'
  BY <1>2, InputTyped
  DEF ForceEras, admissionVars, SnapshotAdmitted, FreshRoundIsEmpty, LiveRoundIsFresh
<1>3. ASSUME NEW winners \in SUBSET Validator, submit_unsigned(winners) PROVE RoundSound'
  <2> DEFINE next == [round EXCEPT !.queued = winners]
  <2>1. next \in Round /\ next.targets = round.targets /\ next.phase = round.phase
    BY DEF Round
  <2>2. round.phase.kind = "Unsigned" /\ round' = next
    BY <1>3 DEF submit_unsigned
  <2>3. ~stale
    BY <2>2 DEF LiveRoundIsFresh, Off, Started
  <2>4. is_running(next) /\ ~TakesTargets(next)
    BY <2>1, <2>2 DEF is_running, TakesTargets, Started, Off
  <2> HIDE DEF next
  <2> QED BY <1>3, <2>1, <2>2, <2>3, <2>4
          DEF submit_unsigned, admissionVars, stakingVars, SnapshotAdmitted, FreshRoundIsEmpty,
              LiveRoundIsFresh
<1>4. ASSUME NEW winners \in SUBSET Validator, EmergencySetSolution(winners) PROVE RoundSound'
  <2> DEFINE next == [round EXCEPT !.phase = [kind |-> "Emergency", left |-> 0],
                                   !.queued = winners]
  <2>1. [kind |-> "Emergency", left |-> 0] \in Phase
    BY DEF Phase
  <2>2. next \in Round /\ next.targets = round.targets /\ next.phase.kind = "Emergency"
    BY <2>1 DEF Round
  <2>3. is_running(next) /\ ~TakesTargets(next)
    BY <2>2 DEF is_running, TakesTargets, Started, Off
  <2>4. round' = next /\ stale' = FALSE
    BY <1>4 DEF EmergencySetSolution
  <2> HIDE DEF next
  <2> QED BY <1>4, <2>2, <2>3, <2>4, InputTyped
          DEF EmergencySetSolution, admissionVars, stakingVars, SnapshotAdmitted,
              FreshRoundIsEmpty, LiveRoundIsFresh
<1>5. ASSUME ForceRotateRound PROVE RoundSound'
  BY <1>5, EmptyRounds, InputTyped
  DEF ForceRotateRound, admissionVars, stakingVars, SnapshotAdmitted, FreshRoundIsEmpty,
      LiveRoundIsFresh
<1> HIDE DEF RoundSound, TypeOK
<1> QED BY <1>1, <1>2, <1>3, <1>4, <1>5 DEF External

LEMMA RoundSoundStep == RoundSound /\ [Next]_vars => RoundSound'
<1> SUFFICES ASSUME RoundSound, [Next]_vars PROVE RoundSound'
  OBVIOUS
<1>1. CASE Poll
  BY <1>1, PollKeeps
<1>2. CASE \E fails \in BOOLEAN : RotateSession(fails)
  BY <1>2, RotateKeeps
<1>3. CASE \E who \in Validator : approve(who) \/ remove(who)
  BY <1>3, ApproveKeeps, RemoveKeeps
<1>4. CASE \E mode \in AdmissionMode : advance(mode)
  BY <1>4, InputTyped
  DEF advance, RoundSound, TypeOK, SnapshotAdmitted, FreshRoundIsEmpty, LiveRoundIsFresh,
      stakingVars
<1>5. CASE External
  BY <1>5, ExternalKeeps
<1>6. CASE UNCHANGED vars
  BY <1>6 DEF vars, admissionVars, stakingVars, RoundSound, TypeOK, SnapshotAdmitted,
              FreshRoundIsEmpty, LiveRoundIsFresh
<1> QED BY <1>1, <1>2, <1>3, <1>4, <1>5, <1>6 DEF Next, Admission

\* on_removal, maybe_start, elect: the round under way works on typed, admitted and
\* current data, after any number of removals, pauses, failed exports and restarts.
THEOREM RoundStaysSound == Spec => []RoundSound
  BY RoundSoundInit, RoundSoundStep, PTL DEF Spec

\* Of all steps only the rotation of a session plans an era.
LEMMA OnlyRotationPlans ==
  ASSUME [Next]_vars, PlansEra
  PROVE  \E fails \in BOOLEAN : RotateSession(fails)
<1>1. polled /\ ~polled'
  BY DEF PlansEra
<1>2. ~UNCHANGED polled /\ ~(polled' = TRUE)
  BY <1>1
<1>3. ~Poll /\ ~UNCHANGED vars
  BY <1>2 DEF Poll, vars
<1>4. ~Admission
  BY <1>2 DEF Admission, approve, remove, advance
<1>5. ~External
  BY <1>2 DEF External, ValidateOrChill, SetOrPurgeKeys, ForceEras, submit_unsigned,
              EmergencySetSolution, ForceRotateRound
<1> QED BY <1>3, <1>4, <1>5 DEF Next

\* Before the first era nobody is in charge, so that opening it empty plans nothing.
NoEraYet == CurrentEra = "None" => planned = {}

\* Only the rotation of a session touches the era or the set in charge.
LEMMA OthersKeepEra ==
  ASSUME [Next]_vars, ~(\E fails \in BOOLEAN : RotateSession(fails))
  PROVE  UNCHANGED <<CurrentEra, planned>>
  BY DEF Next, vars, stakingVars, Poll, Admission, approve, remove, advance, External,
         ValidateOrChill, SetOrPurgeKeys, ForceEras, submit_unsigned, EmergencySetSolution,
         ForceRotateRound

LEMMA EraPrecedesValidators == Spec => []NoEraYet
<1>1. Init => NoEraYet
  BY DEF Init, NoEraYet
<1>2. RoundSound /\ NoEraYet /\ [Next]_vars => NoEraYet'
  <2> SUFFICES ASSUME RoundSound, NoEraYet, [Next]_vars PROVE NoEraYet'
    OBVIOUS
  <2>1. ASSUME NEW fails \in BOOLEAN, RotateSession(fails) PROVE NoEraYet'
    <3>1. CurrentEra' = "None" => CurrentEra = "None" /\ UNCHANGED planned
      BY <2>1, RotationResult
    <3> QED BY <3>1 DEF NoEraYet
  <2>2. CASE ~(\E fails \in BOOLEAN : RotateSession(fails))
    BY <2>2, OthersKeepEra DEF NoEraYet
  <2> QED BY <2>1, <2>2
<1> QED BY <1>1, <1>2, RoundStaysSound, PTL DEF Spec

\* A planned era has the properties of PlansCurrent.
LEMMA PlannedIsCurrent ==
  ASSUME RoundSound, NoEraYet, [Next]_vars, PlansEra
  PROVE  PlansCurrent
<1>1. PICK fails \in BOOLEAN : RotateSession(fails)
  BY OnlyRotationPlans
<1>2. PlansCurrent \/ (CurrentEra = "None" /\ UNCHANGED planned)
  BY <1>1, RotationResult DEF PlansEra
<1> QED BY <1>2 DEF PlansEra, NoEraYet

\* AdmissionMultiBlockElection::elect, InvalidateAdmissionRound: an era is only planned
\* with winners that are admitted then, and never from data that a removal or a pause
\* made stale.
THEOREM PlannedErasAreCurrent == Spec => ElectedAreCurrent
<1>1. RoundSound /\ NoEraYet /\ [Next]_vars =>
        [/\ PlansEra => planned' \subseteq Approved
                          /\ (round.queued # None => planned' = round.queued)
         /\ planned' # planned =>
              PlansEra /\ Cardinality(planned') >= MinimumValidatorCount]_vars
  <2> SUFFICES ASSUME RoundSound, NoEraYet, [Next]_vars
               PROVE  /\ PlansEra => planned' \subseteq Approved
                                        /\ (round.queued # None => planned' = round.queued)
                      /\ planned' # planned =>
                           PlansEra /\ Cardinality(planned') >= MinimumValidatorCount
    OBVIOUS
  <2>1. PlansEra => planned' \subseteq Approved
                      /\ (round.queued # None => planned' = round.queued)
    BY PlannedIsCurrent DEF PlansCurrent
  <2>2. ASSUME planned' # planned
        PROVE  PlansEra /\ Cardinality(planned') >= MinimumValidatorCount
    <3>1. PICK fails \in BOOLEAN : RotateSession(fails)
      BY <2>2, OthersKeepEra
    <3>2. era_age' = -1 /\ planned' # {} /\ PlansCurrent
      BY <2>2, <3>1, RotationResult
    <3>3. polled /\ ~polled'
      BY <3>1 DEF RotateSession
    <3> QED BY <3>2, <3>3 DEF PlansEra, PlansCurrent
  <2> QED BY <2>1, <2>2
<1>2. RoundSound /\ NoEraYet /\ [Next]_vars => [PlansEra => ~stale]_vars
  <2> SUFFICES ASSUME RoundSound, NoEraYet, [Next]_vars, PlansEra PROVE ~stale
    OBVIOUS
  <2>1. round \notin {Off, Started}
    BY PlannedIsCurrent DEF PlansCurrent
  <2> QED BY <2>1 DEF RoundSound, LiveRoundIsFresh
<1> QED BY <1>1, <1>2, RoundStaysSound, EraPrecedesValidators, PTL
        DEF Spec, ElectedAreCurrent, WinnersAdmitted, NoStaleExport
=============================================================================
