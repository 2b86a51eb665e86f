-------------------------- MODULE SlashPolicy_proofs --------------------------
(***************************************************************************)
(* The rolling budget of council slashes and the queueing of deferred      *)
(* slashes, proved for every horizon, era structure and set of stashes.    *)
(***************************************************************************)
EXTENDS SlashPolicy, FiniteSums

\* The constants as numbers.
LEMMA Constants ==
  /\ BondingDuration \in Nat \ {0} /\ MaxBudgetWindow \in Nat \ {0}
  /\ SlashDeferDuration \in Nat \ {0} /\ MaxEra \in Nat
  /\ MIN_PER_MOTION \in Nat /\ MAX_PER_MOTION \in Nat
  /\ MIN_CUMULATIVE \in Nat /\ MAX_CUMULATIVE \in Nat
  BY IntegrityAssumption, NaturalsAssumption

\* Saturating subtraction.
LEMMA SatSubNat ==
  ASSUME NEW a \in Nat, NEW b \in Int, b >= 0
  PROVE  SatSub(a, b) \in Nat /\ SatSub(a, b) <= a
         /\ (\A c \in Int : c >= 0 /\ c <= b => SatSub(a, b) <= SatSub(a, c))
         /\ SatSub(a, b) <= SatSub(a + 1, b)
  BY DEF SatSub

\* A finite set of numbers that is not empty has its maximum.
LEMMA MaxExists ==
  ASSUME NEW S, IsFiniteSet(S), S \subseteq Int, S # {}
  PROVE  Max(S) \in S /\ \A y \in S : Max(S) >= y
  BY HasMaximum DEF Max

-----------------------------------------------------------------------------
\* What a motion leaves of a history, and what it adds.
LEMMA RetainedIs ==
  ASSUME NEW charges \in Charges
  PROVE  /\ Retained(charges) \in Charges
         /\ \A e \in Eras : e >= retained_from => Retained(charges)[e] = charges[e]
         /\ \A e \in Eras : charges[e] = 0 => Retained(charges)[e] = 0
         /\ \A e \in Eras : ~(e >= retained_from) => Retained(charges)[e] = 0
  BY DEF Retained, Charges

\* The inductive invariant: the history is exact, and no slash waits in a past bucket.
SlashInv == TypeOK /\ HistoryExact /\ NoChargeAhead /\ SlashesPending

LEMMA SlashInit == Init => SlashInv
<1> SUFFICES ASSUME Init PROVE SlashInv
  OBVIOUS
<1> USE DEF Init
<1>1. TypeOK
  <2>1. check_fractions(MaxDiscretionarySlashPerMotion, MaxDiscretionarySlashCumulative)
        /\ ValidWindow(BudgetWindow)
    BY Constants, IntegrityAssumption DEF check_fractions, ValidWindow
  <2>2. SlashHistory \in [Stash -> Charges] /\ motions \in [Stash -> Charges]
    BY DEF Charges
  <2>3. ActiveEra \in Eras /\ ErasStartSessionIndex \in [Eras -> Nat]
    BY Constants DEF Eras
  <2> QED BY <2>1, <2>2, <2>3 DEF TypeOK
<1>2. HistoryExact /\ NoChargeAhead /\ SlashesPending
  BY DEF HistoryExact, NoChargeAhead, SlashesPending
<1> QED BY <1>1, <1>2 DEF SlashInv

\* Staking queues a slash in a bucket of its era, one that is still to come when the era
\* is not older than the deferral.
LEMMA QueueKeeps ==
  ASSUME TypeOK, SlashesPending, NEW era \in Eras, NEW stash \in Stash, NEW fraction \in Nat,
         QueueSlash(era, stash, fraction), apply_era(era) > ActiveEra, UNCHANGED ActiveEra
  PROVE  /\ Slashed' \in [Eras -> [Stash -> Nat]]
         /\ UnappliedSlashes' \subseteq Nat \X Eras \X Stash \X Nat
         /\ SlashesPending'
<1>1. apply_era(era) \in Nat
  BY Constants DEF apply_era, Eras
<1> DEFINE u == <<apply_era(era), era, stash, fraction>>
<1>2. u \in Nat \X Eras \X Stash \X Nat /\ u[1] = apply_era(era)
  BY <1>1
<1>3. UnappliedSlashes' = UnappliedSlashes \cup {u}
  BY DEF QueueSlash
<1> HIDE DEF u
<1>4. Slashed' \in [Eras -> [Stash -> Nat]]
  BY DEF QueueSlash, TypeOK
<1> QED BY <1>2, <1>3, <1>4 DEF TypeOK, SlashesPending

LEMMA SlashMotionKeeps ==
  ASSUME SlashInv, NEW s \in Stash, NEW era \in Eras, NEW f \in Fractions,
         discretionary_slash(s, era, f)
  PROVE  SlashInv'
<1> USE DEF SlashInv
<1> DEFINE history == Retained(SlashHistory[s])
<1>1. f \in Nat /\ ActiveEra \in Eras /\ ActiveEra \in Nat
  BY NaturalsAssumption DEF TypeOK, Eras
<1>2. /\ SlashHistory' = [SlashHistory EXCEPT ![s] = [history EXCEPT ![ActiveEra] = @ + f]]
      /\ motions' = [motions EXCEPT ![s][ActiveEra] = @ + f]
      /\ QueueSlash(era, s, f) /\ ValidEra(era)
      /\ UNCHANGED <<limitVars, eraVars, pool>>
  BY DEF discretionary_slash
<1>3. /\ history \in Charges
      /\ \A e \in Eras : e >= retained_from => history[e] = SlashHistory[s][e]
      /\ \A e \in Eras : SlashHistory[s][e] = 0 => history[e] = 0
  BY RetainedIs DEF TypeOK
<1>4. apply_era(era) > ActiveEra
  BY <1>1, <1>2, Constants DEF ValidEra, apply_era, SatSub, Eras
<1>5. /\ Slashed' \in [Eras -> [Stash -> Nat]]
      /\ UnappliedSlashes' \subseteq Nat \X Eras \X Stash \X Nat
      /\ SlashesPending'
  BY <1>1, <1>2, <1>4, QueueKeeps DEF eraVars
<1> HIDE DEF history
<1> DEFINE after == [history EXCEPT ![ActiveEra] = @ + f]
<1>6. after \in Charges /\ \A e \in Eras : after[e] = history[e] + IF e = ActiveEra THEN f ELSE 0
  BY <1>1, <1>3 DEF Charges
<1>7. /\ motions'[s] \in Charges
      /\ \A e \in Eras : motions'[s][e] = motions[s][e] + IF e = ActiveEra THEN f ELSE 0
      /\ \A t \in Stash \ {s} : motions'[t] = motions[t]
      /\ motions' \in [Stash -> Charges]
  BY <1>1, <1>2 DEF TypeOK, Charges
<1>8. /\ SlashHistory'[s] = after /\ \A t \in Stash \ {s} : SlashHistory'[t] = SlashHistory[t]
      /\ SlashHistory' \in [Stash -> Charges]
  BY <1>2, <1>6 DEF TypeOK
<1> HIDE DEF after
<1>9. TypeOK'
  BY <1>2, <1>5, <1>7, <1>8
  DEF TypeOK, limitVars, eraVars, check_fractions, ValidWindow
<1>10. HistoryExact'
  <2> SUFFICES ASSUME NEW t \in Stash, NEW e \in Eras, e >= retained_from
               PROVE  SlashHistory'[t][e] = motions'[t][e]
    BY <1>2 DEF HistoryExact, eraVars, retained_from
  <2>1. SlashHistory[t][e] = motions[t][e]
    BY DEF HistoryExact, retained_from
  <2> QED BY <2>1, <1>3, <1>6, <1>7, <1>8
<1>11. NoChargeAhead'
  <2> SUFFICES ASSUME NEW t \in Stash, NEW e \in Eras, e > ActiveEra
               PROVE  SlashHistory'[t][e] = 0
    BY <1>2 DEF NoChargeAhead, eraVars
  <2>1. SlashHistory[t][e] = 0 /\ e # ActiveEra
    BY <1>1 DEF NoChargeAhead, Eras
  <2> QED BY <2>1, <1>1, <1>3, <1>6, <1>8
<1> QED BY <1>5, <1>9, <1>10, <1>11

LEMMA ReportKeeps ==
  ASSUME SlashInv, NEW i \in Nat, NEW s \in Stash, report_offence(i, s)
  PROVE  SlashInv'
<1> USE DEF SlashInv
<1>1. /\ UNCHANGED <<limitVars, SlashHistory, eraVars, motions>>
      /\ pool' \subseteq Nat \X Stash
  BY DEF report_offence, TypeOK
<1>2. /\ Slashed' \in [Eras -> [Stash -> Nat]]
      /\ UnappliedSlashes' \subseteq Nat \X Eras \X Stash \X Nat
      /\ SlashesPending'
  <2>1. CASE UNCHANGED queueVars
    BY <1>1, <2>1 DEF TypeOK, SlashesPending, queueVars, eraVars
  <2>2. CASE ~UNCHANGED queueVars
    <3>1. PICK era \in EraOfSession(i) : QueueSlash(era, s, ReportFraction)
      BY <2>2 DEF report_offence
    <3>2. era \in Eras
      <4>1. CASE i >= ErasStartSessionIndex[ActiveEra]
        BY <4>1, <3>1 DEF EraOfSession, TypeOK
      <4>2. CASE ~(i >= ErasStartSessionIndex[ActiveEra])
        <5> DEFINE bonded == {e \in BondedEras : ErasStartSessionIndex[e] <= i}
        <5>1. bonded # {} /\ era = Max(bonded)
          BY <4>2, <3>1 DEF EraOfSession
        <5>2. IsFiniteSet(bonded) /\ bonded \subseteq Eras /\ bonded \subseteq Int
          <6>1. IsFiniteSet(Eras) /\ bonded \in SUBSET Eras /\ Eras \subseteq Int
            BY Constants, FS_Interval DEF Eras, BondedEras
          <6> QED BY <6>1, FS_Subset
        <5> HIDE DEF bonded
        <5> QED BY <5>1, <5>2, MaxExists
      <4> QED BY <4>1, <4>2
    <3>3. Authoritative(i)
      BY <2>2 DEF report_offence
    <3>4. apply_era(era) > ActiveEra
      BY <3>1, <3>3 DEF Authoritative, has_pending_slash_bucket, EraOfSession
    <3>5. ReportFraction \in Nat
      BY NaturalsAssumption
    <3> QED BY <1>1, <3>1, <3>2, <3>4, <3>5, QueueKeeps DEF eraVars
  <2> QED BY <2>1, <2>2
<1>3. TypeOK'
  BY <1>1, <1>2 DEF TypeOK, limitVars, eraVars, check_fractions, ValidWindow
<1>4. HistoryExact' /\ NoChargeAhead'
  BY <1>1 DEF HistoryExact, NoChargeAhead, eraVars
<1> QED BY <1>2, <1>3, <1>4

LEMMA NewEraKeeps == ASSUME SlashInv, NewEra PROVE SlashInv'
<1> USE DEF SlashInv
<1>1. /\ ActiveEra \in Nat /\ ActiveEra' = ActiveEra + 1 /\ ActiveEra' \in Eras
      /\ UNCHANGED <<limitVars, SlashHistory, Slashed, pool, motions>>
      /\ UnappliedSlashes' = {u \in UnappliedSlashes : u[1] # ActiveEra + 1}
  BY DEF NewEra, TypeOK, Eras
<1>2. ErasStartSessionIndex' \in [Eras -> Nat]
  <2>1. EraLength[ActiveEra] \in Nat
    BY NaturalsAssumption DEF TypeOK, Eras
  <2> QED BY <2>1, <1>1 DEF NewEra, TypeOK
<1>3. TypeOK'
  BY <1>1, <1>2 DEF TypeOK, limitVars, check_fractions, ValidWindow
<1>4. SlashesPending'
  <2> SUFFICES ASSUME NEW u \in UnappliedSlashes, u[1] # ActiveEra + 1
               PROVE  u[1] > ActiveEra + 1
    BY <1>1 DEF SlashesPending
  <2>1. u[1] > ActiveEra /\ u[1] \in Nat
    BY DEF SlashesPending, TypeOK
  <2> QED BY <2>1, <1>1
<1>5. HistoryExact'
  <2> SUFFICES ASSUME NEW s \in Stash, NEW e \in Eras,
                      e >= SatSub(ActiveEra + 1, MaxBudgetWindow - 1)
               PROVE  SlashHistory[s][e] = motions[s][e]
    BY <1>1 DEF HistoryExact
  <2>1. /\ SatSub(ActiveEra, MaxBudgetWindow - 1) \in Nat
        /\ SatSub(ActiveEra + 1, MaxBudgetWindow - 1) \in Nat
        /\ SatSub(ActiveEra, MaxBudgetWindow - 1) <= SatSub(ActiveEra + 1, MaxBudgetWindow - 1)
    BY <1>1, Constants DEF SatSub
  <2> QED BY <2>1 DEF HistoryExact, Eras
<1>6. NoChargeAhead'
  BY <1>1 DEF NoChargeAhead, Eras
<1> QED BY <1>3, <1>4, <1>5, <1>6

\* The calls and steps that touch neither histories nor eras.
LEMMA OtherStepsKeep ==
  ASSUME SlashInv,
         \/ \E p \in Fractions, c \in Fractions, w \in Windows : set_limits(p, c, w)
         \/ \E i \in Nat, s \in Stash : Preflight(i, s)
         \/ \E u \in UnappliedSlashes : CancelDeferredSlash(u)
         \/ UNCHANGED vars
  PROVE  SlashInv'
<1> USE DEF SlashInv
<1>1. UNCHANGED <<SlashHistory, eraVars, Slashed, motions>>
      /\ UnappliedSlashes' \subseteq UnappliedSlashes
  BY DEF set_limits, Preflight, CancelDeferredSlash, vars, queueVars
<1>2. check_fractions(MaxDiscretionarySlashPerMotion, MaxDiscretionarySlashCumulative)'
      /\ ValidWindow(BudgetWindow)'
  <2>1. CASE UNCHANGED limitVars
    BY <2>1 DEF TypeOK, limitVars, check_fractions, ValidWindow
  <2>2. CASE \E p \in Fractions, c \in Fractions, w \in Windows : set_limits(p, c, w)
    BY <2>2 DEF set_limits, check_fractions, ValidWindow
  <2> QED BY <2>1, <2>2 DEF Preflight, CancelDeferredSlash, vars
<1>3. pool' \subseteq Nat \X Stash
  BY DEF set_limits, Preflight, CancelDeferredSlash, vars, TypeOK
<1>4. TypeOK'
  BY <1>1, <1>2, <1>3 DEF TypeOK, eraVars
<1>5. HistoryExact' /\ NoChargeAhead' /\ SlashesPending'
  BY <1>1 DEF HistoryExact, NoChargeAhead, SlashesPending, eraVars
<1> QED BY <1>4, <1>5

\* The sessions that are reported are numbers.
LEMMA ReportSteps ==
  ASSUME TypeOK, Reports
  PROVE  \E i \in Nat, s \in Stash : Preflight(i, s) \/ report_offence(i, s)
  BY DEF Reports

LEMMA SlashStep == SlashInv /\ [Next]_vars => SlashInv'
<1> SUFFICES ASSUME SlashInv, [Next]_vars PROVE SlashInv'
  OBVIOUS
<1>1. CASE \E s \in Stash, e \in Eras, f \in Fractions : discretionary_slash(s, e, f)
  BY <1>1, SlashMotionKeeps
<1>2. CASE \E p \in Fractions, c \in Fractions, w \in Windows : set_limits(p, c, w)
  BY <1>2, OtherStepsKeep
<1>3. CASE Reports
  <2>1. PICK i \in Nat, s \in Stash : Preflight(i, s) \/ report_offence(i, s)
    BY <1>3, ReportSteps DEF SlashInv
  <2> QED BY <2>1, ReportKeeps, OtherStepsKeep
<1>4. CASE NewEra
  BY <1>4, NewEraKeeps
<1>5. CASE \E u \in UnappliedSlashes : CancelDeferredSlash(u)
  BY <1>5, OtherStepsKeep
<1>6. CASE UNCHANGED vars
  BY <1>6, OtherStepsKeep
<1> QED BY <1>1, <1>2, <1>3, <1>4, <1>5, <1>6 DEF Next, Council, Staking

LEMMA SlashInvariant == Spec => []SlashInv
  BY SlashInit, SlashStep, PTL DEF Spec

-----------------------------------------------------------------------------
\* The retained entries of earlier eras are fewer than the horizon.
LEMMA RoomInHistory == SlashInv => HistoryNeverFull
<1> SUFFICES ASSUME SlashInv, NEW s \in Stash, Retained(SlashHistory[s])[ActiveEra] = 0
             PROVE  Cardinality(Entries(Retained(SlashHistory[s]))) < MaxBudgetWindow
  BY DEF HistoryNeverFull
<1> DEFINE history == Retained(SlashHistory[s])
           earlier == retained_from..(ActiveEra - 1)
<1>1. ActiveEra \in Nat /\ retained_from \in Nat /\ retained_from <= ActiveEra
      /\ ActiveEra - retained_from <= MaxBudgetWindow - 1
  BY Constants DEF SlashInv, TypeOK, Eras, retained_from, SatSub
<1>2. /\ history \in Charges
      /\ \A e \in Eras : SlashHistory[s][e] = 0 => history[e] = 0
      /\ \A e \in Eras : ~(e >= retained_from) => history[e] = 0
  BY RetainedIs DEF SlashInv, TypeOK
<1>3. Entries(history) \subseteq earlier
  <2> SUFFICES ASSUME NEW e \in Eras, history[e] > 0 PROVE e \in earlier
    BY DEF Entries
  <2>1. e \in Nat /\ e # ActiveEra /\ e >= retained_from
    BY <1>2 DEF Eras, Charges
  <2>2. ~(e > ActiveEra)
    BY <1>2 DEF SlashInv, NoChargeAhead
  <2> QED BY <1>1, <2>1, <2>2
<1>4. IsFiniteSet(earlier) /\ Cardinality(earlier) <= MaxBudgetWindow - 1
      /\ Cardinality(earlier) \in Nat
  <2>1. retained_from \in Int /\ ActiveEra - 1 \in Int
    BY <1>1
  <2>2. IsFiniteSet(earlier) /\ Cardinality(earlier) =
          IF retained_from > ActiveEra - 1 THEN 0 ELSE (ActiveEra - 1) - retained_from + 1
    BY <2>1, FS_Interval
  <2> QED BY <1>1, <2>2, Constants
<1> HIDE DEF earlier
<1>5. IsFiniteSet(Entries(history)) /\ Cardinality(Entries(history)) <= Cardinality(earlier)
  BY <1>3, <1>4, FS_Subset
<1>6. Cardinality(Entries(history)) \in Nat
  BY <1>5, FS_CardinalityType
<1> QED BY <1>4, <1>5, <1>6, Constants

\* discretionary_slash: the bounded history is exact over every window the council can
\* set, books no charge ahead, and always has room for the motion of this era.
THEOREM HistoryStaysSound == Spec => []HistorySound
<1>1. SlashInv => HistorySound
  BY RoomInHistory DEF SlashInv, HistorySound
<1> QED BY <1>1, SlashInvariant, PTL

\* The era staking charges for a session is the one the session lay in.
LEMMA SessionEra ==
  ASSUME TypeOK, NEW i \in Nat, NEW e \in EraOfSession(i)
  PROVE  /\ ErasStartSessionIndex[e] <= i
         /\ e < ActiveEra => i < ErasStartSessionIndex[e + 1]
<1>1. CASE i >= ErasStartSessionIndex[ActiveEra]
  BY <1>1 DEF EraOfSession, TypeOK, Eras
<1>2. CASE ~(i >= ErasStartSessionIndex[ActiveEra])
  <2> DEFINE bonded == {b \in BondedEras : ErasStartSessionIndex[b] <= i}
  <2>1. bonded # {} /\ e = Max(bonded)
    BY <1>2 DEF EraOfSession
  <2>2. IsFiniteSet(bonded) /\ bonded \subseteq Eras /\ bonded \subseteq Int
    <3>1. IsFiniteSet(Eras) /\ bonded \in SUBSET Eras /\ Eras \subseteq Int
      BY Constants, FS_Interval DEF Eras, BondedEras
    <3> QED BY <3>1, FS_Subset
  <2>3. e \in bonded /\ \A b \in bonded : e >= b
    <3> HIDE DEF bonded
    <3> QED BY <2>1, <2>2, MaxExists
  <2>4. ASSUME e < ActiveEra PROVE i < ErasStartSessionIndex[e + 1]
    <3>1. e \in Nat /\ ActiveEra \in Nat /\ ActiveEra <= MaxEra /\ e >= SatSub(ActiveEra, BondingDuration)
      BY <2>3 DEF BondedEras, Eras, TypeOK
    <3>2. SatSub(ActiveEra, BondingDuration) \in Nat
      BY <3>1, Constants DEF SatSub
    <3>3. e + 1 \in BondedEras
      BY <2>4, <3>1, <3>2, Constants DEF BondedEras, Eras
    <3>4. e + 1 \notin bonded
      BY <2>3, <3>1
    <3>5. ErasStartSessionIndex[e + 1] \in Nat
      BY <3>3 DEF TypeOK, BondedEras
    <3> QED BY <3>3, <3>4, <3>5
  <2> QED BY <2>3, <2>4
<1> QED BY <1>1, <1>2

\* GuardedReports, ValidEra: no slash is ever queued in a bucket staking has processed,
\* and a report is charged to the era of its session, for all lengths of the eras.
THEOREM SlashesArrive == Spec => []SlashesReachTheirEra
<1>1. SlashInv => SlashesReachTheirEra
  <2> SUFFICES ASSUME SlashInv PROVE ReportsChargeTheirEra
    BY DEF SlashInv, SlashesReachTheirEra
  <2> QED BY SessionEra DEF SlashInv, ReportsChargeTheirEra
<1> QED BY <1>1, SlashInvariant, PTL

-----------------------------------------------------------------------------
\* What a motion charges is what all motions in the window add up to, itself included.
LEMMA MotionWithinBudget ==
  ASSUME SlashInv, NEW s \in Stash, NEW era \in Eras, NEW f \in Fractions,
         discretionary_slash(s, era, f)
  PROVE  SumFrom(motions'[s], budget_from) <= MaxDiscretionarySlashCumulative
<1> USE DEF SlashInv
<1> DEFINE history == Retained(SlashHistory[s])
           window == budget_from..MaxEra
<1>1. f \in Nat /\ ActiveEra \in Eras /\ ActiveEra \in Nat /\ BudgetWindow \in Nat
      /\ BudgetWindow >= BondingDuration /\ BudgetWindow <= MaxBudgetWindow
  BY NaturalsAssumption, Constants DEF TypeOK, Eras, ValidWindow
<1>2. /\ retained_from \in Nat /\ budget_from \in Nat
      /\ retained_from <= budget_from /\ budget_from <= ActiveEra
  BY <1>1, Constants DEF retained_from, budget_from, SatSub
<1>3. IsFiniteSet(window) /\ window \subseteq Eras /\ ActiveEra \in window
  BY <1>1, <1>2, Constants, FS_Interval DEF Eras
<1>4. /\ history \in Charges
      /\ \A e \in Eras : e >= retained_from => history[e] = SlashHistory[s][e]
  BY RetainedIs DEF TypeOK
<1>5. \A e \in window : history[e] = motions[s][e] /\ history[e] \in Nat
  <2> SUFFICES ASSUME NEW e \in window PROVE history[e] = motions[s][e] /\ history[e] \in Nat
    OBVIOUS
  <2>1. e \in Eras /\ e >= retained_from
    BY <1>2, <1>3, Constants
  <2>2. SlashHistory[s][e] = motions[s][e]
    BY <2>1 DEF HistoryExact, retained_from
  <2> QED BY <1>4, <2>1, <2>2 DEF Charges
<1>6. f + SumFrom(history, budget_from) <= MaxDiscretionarySlashCumulative
      /\ motions' = [motions EXCEPT ![s][ActiveEra] = @ + f]
  BY DEF discretionary_slash
<1>7. motions[s] \in [Eras -> Nat] /\ motions'[s] = [motions[s] EXCEPT ![ActiveEra] = @ + f]
  BY <1>6 DEF TypeOK, Charges
<1> DEFINE before == motions[s]
           after == motions'[s]
<1> HIDE DEF history, window, before, after
<1>8. /\ \A e \in window : before[e] \in Int /\ after[e] \in Int
      /\ \A e \in window \ {ActiveEra} : before[e] = after[e]
      /\ after[ActiveEra] = before[ActiveEra] + f /\ before[ActiveEra] \in Nat
  BY <1>1, <1>3, <1>7 DEF before, after
<1>9. SumFunctionOnSet(after, window) = SumFunctionOnSet(before, window) + after[ActiveEra]
                                          - before[ActiveEra]
  BY <1>3, <1>8, SumChange
<1>10. SumFunctionOnSet(history, window) = SumFunctionOnSet(before, window)
  <2>1. \A e \in window : history[e] = before[e] /\ history[e] \in Int
    BY <1>5 DEF before
  <2> QED BY <1>3, <2>1, SumEqual
<1>11. SumFunctionOnSet(before, window) \in Int
  BY <1>3, <1>8, SumInt
<1>12. SumFunctionOnSet(after, window) = f + SumFunctionOnSet(history, window)
  BY <1>1, <1>8, <1>9, <1>10, <1>11
<1> QED BY <1>6, <1>12 DEF SumFrom, window, after, history

\* Only a motion against a stash changes what has been charged to it.
LEMMA OnlyMotionsCharge ==
  ASSUME [Next]_vars, NEW s \in Stash, SlashInv, motions'[s] # motions[s]
  PROVE  \E e \in Eras, f \in Fractions : discretionary_slash(s, e, f)
<1>1. ~UNCHANGED motions
  OBVIOUS
<1>2. ~Reports /\ ~Staking /\ ~UNCHANGED vars
  BY <1>1 DEF Reports, Preflight, report_offence, Staking, NewEra, CancelDeferredSlash, vars
<1>3. ~\E p \in Fractions, c \in Fractions, w \in Windows : set_limits(p, c, w)
  BY <1>1 DEF set_limits
<1>4. PICK t \in Stash, e \in Eras, f \in Fractions : discretionary_slash(t, e, f)
  BY <1>2, <1>3 DEF Next, Council
<1>5. motions' = [motions EXCEPT ![t][ActiveEra] = @ + f]
  BY <1>4 DEF discretionary_slash
<1>6. t = s
  BY <1>5 DEF SlashInv, TypeOK
<1> QED BY <1>4, <1>6

\* discretionary_slash: every accepted motion keeps the sum of all motions ever made in
\* the window in force within the limit in force, although old entries are dropped.
THEOREM BudgetRolls == Spec => RollingBudget
<1>1. SlashInv /\ [Next]_vars =>
        [\A s \in Stash : motions'[s] # motions[s] =>
           SumFrom(motions'[s], SatSub(ActiveEra, BudgetWindow - 1))
             <= MaxDiscretionarySlashCumulative]_vars
  <2> SUFFICES ASSUME SlashInv, [Next]_vars, NEW s \in Stash, motions'[s] # motions[s]
               PROVE  SumFrom(motions'[s], SatSub(ActiveEra, BudgetWindow - 1))
                        <= MaxDiscretionarySlashCumulative
    OBVIOUS
  <2>1. PICK e \in Eras, f \in Fractions : discretionary_slash(s, e, f)
    BY OnlyMotionsCharge
  <2> QED BY <2>1, MotionWithinBudget DEF budget_from
<1> QED BY <1>1, SlashInvariant, PTL DEF Spec, RollingBudget
=============================================================================
