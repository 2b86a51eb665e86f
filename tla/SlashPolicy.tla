------------------------------ MODULE SlashPolicy ------------------------------
(***************************************************************************)
(* Council slashes with a rolling budget (pallet slash-policy) and         *)
(* equivocation reports guarded by their age (runtime/src/configs/         *)
(* slashing.rs).  Both queue deferred slashes in staking.                  *)
(*                                                                         *)
(* External, as that code uses it: pallet-staking.  A slash for era e is   *)
(* queued in bucket e + SlashDeferDuration + 1; entering era a processes   *)
(* bucket a; BondedEras keeps the last BondingDuration + 1 eras; a slash   *)
(* that does not exceed the fraction already slashed for the stash in that *)
(* era queues nothing.  Perbill is a natural number.                       *)
(***************************************************************************)
EXTENDS Integers, FiniteSets, FiniteSetsExt

CONSTANTS
  Stash,
  MIN_PER_MOTION, MAX_PER_MOTION, MIN_CUMULATIVE, MAX_CUMULATIVE,
  DEFAULT_PER_MOTION, DEFAULT_CUMULATIVE,
  BondingDuration, MaxBudgetWindow, SlashDeferDuration,
  ReportFraction,      \* what an equivocation report slashes
  EraLength,           \* sessions of each era; forced and failed elections vary it
  Exposed,             \* stashes exposed in each era
  Fractions, Windows,  \* inputs: what the council asks for, in and out of the rails
  MaxEra,              \* bound: the last era entered
  MaxPending           \* bound: reports waiting in the pool

\* integrity_test, and SLASH_DEFER_ERAS < BondingDuration of slashing.rs.
ASSUME IntegrityAssumption ==
  /\ BondingDuration > 0 /\ MaxBudgetWindow >= BondingDuration /\ SlashDeferDuration > 0
  /\ DEFAULT_PER_MOTION \in MIN_PER_MOTION..MAX_PER_MOTION
  /\ DEFAULT_CUMULATIVE \in MIN_CUMULATIVE..MAX_CUMULATIVE
  /\ DEFAULT_CUMULATIVE >= DEFAULT_PER_MOTION
  /\ SlashDeferDuration < BondingDuration
ASSUME NaturalsAssumption ==
  /\ {MIN_PER_MOTION, MAX_PER_MOTION, MIN_CUMULATIVE, MAX_CUMULATIVE} \subseteq Nat
  /\ {BondingDuration, MaxBudgetWindow, SlashDeferDuration} \subseteq Nat
  /\ Fractions \subseteq Nat /\ Windows \subseteq Nat /\ ReportFraction \in Nat
  /\ MaxEra \in Nat /\ MaxPending \in Nat
  /\ EraLength \in [0..MaxEra -> Nat \ {0}] /\ Exposed \in [0..MaxEra -> SUBSET Stash]

Eras == 0..MaxEra
\* SlashHistory aggregates by era: at most one entry for each.
Charges == [Eras -> Nat]

VARIABLES
  MaxDiscretionarySlashPerMotion, MaxDiscretionarySlashCumulative, BudgetWindow,
  SlashHistory,        \* [stash][era] -> fraction, 0 where there is no entry
  ActiveEra,           \* staking
  ErasStartSessionIndex, \* first session of each era so far
  Slashed,             \* staking: fraction slashed for an era's exposure so far
  UnappliedSlashes,    \* {<<apply_era, era, stash, fraction>>}
  pool                 \* reports that passed the preflight: {<<session, stash>>}
VARIABLES
  motions              \* history: [stash][era] -> all fractions ever charged in that era

limitVars == <<MaxDiscretionarySlashPerMotion, MaxDiscretionarySlashCumulative, BudgetWindow>>
eraVars == <<ActiveEra, ErasStartSessionIndex>>
queueVars == <<Slashed, UnappliedSlashes>>
vars == <<limitVars, SlashHistory, eraVars, queueVars, pool, motions>>

SatSub(a, b) == IF a > b THEN a - b ELSE 0
SumFrom(charges, first) == SumFunctionOnSet(charges, first..MaxEra)

-----------------------------------------------------------------------------
check_fractions(per_motion, cumulative) ==
  /\ per_motion \in MIN_PER_MOTION..MAX_PER_MOTION
  /\ cumulative \in MIN_CUMULATIVE..MAX_CUMULATIVE
  /\ cumulative >= per_motion

ValidWindow(window) == window \in BondingDuration..MaxBudgetWindow

\* Mutant: history is kept for the window in force only.
retained_from_Window == SatSub(ActiveEra, BudgetWindow - 1)
\* The maximum horizon, so that a wider window does not forgive old motions.
retained_from == SatSub(ActiveEra, MaxBudgetWindow - 1)

\* Mutant: one era more is forgiven.
budget_from_OffByOne == SatSub(ActiveEra, BudgetWindow - 2)
budget_from == SatSub(ActiveEra, BudgetWindow - 1)

Retained(charges) == [e \in Eras |-> IF e >= retained_from THEN charges[e] ELSE 0]
Entries(charges) == {e \in Eras : charges[e] > 0}

apply_era(era) == era + SlashDeferDuration + 1

\* External: staking's queueing of a slash that exceeds what the era already saw.
QueueSlash(era, stash, fraction) ==
  /\ fraction > Slashed[era][stash]
  /\ Slashed' = [Slashed EXCEPT ![era][stash] = fraction]
  /\ UnappliedSlashes' = UnappliedSlashes \cup {<<apply_era(era), era, stash, fraction>>}

ValidEra(era) == era <= ActiveEra /\ era >= SatSub(ActiveEra, SlashDeferDuration)

(***************************************************************************)
(* A motion names the era of the offence; its charge is booked in the era  *)
(* in which it is made.  NoSlashScheduled rolls everything back.           *)
(***************************************************************************)
discretionary_slash(stash, era, fraction) ==
  LET history == Retained(SlashHistory[stash])
      charged == fraction + SumFrom(history, budget_from)
  IN /\ ValidEra(era)
     /\ stash \in Exposed[era]
     /\ check_fractions(MaxDiscretionarySlashPerMotion, MaxDiscretionarySlashCumulative)
     /\ fraction \in 1..MaxDiscretionarySlashPerMotion
     /\ ValidWindow(BudgetWindow)
     /\ charged <= MaxDiscretionarySlashCumulative
     /\ history[ActiveEra] = 0 => Cardinality(Entries(history)) < MaxBudgetWindow
     /\ SlashHistory' = [SlashHistory EXCEPT ![stash] = [history EXCEPT ![ActiveEra] = @ + fraction]]
     /\ QueueSlash(era, stash, fraction)
     /\ motions' = [motions EXCEPT ![stash][ActiveEra] = @ + fraction]
     /\ UNCHANGED <<limitVars, eraVars, pool>>

set_limits(per_motion, cumulative, window) ==
  /\ check_fractions(per_motion, cumulative)
  /\ ValidWindow(window)
  /\ MaxDiscretionarySlashPerMotion' = per_motion
  /\ MaxDiscretionarySlashCumulative' = cumulative
  /\ BudgetWindow' = window
  /\ UNCHANGED <<SlashHistory, eraVars, queueVars, pool, motions>>

-----------------------------------------------------------------------------
(* Equivocation reports. *)

BondedEras == {e \in Eras : e <= ActiveEra /\ e >= SatSub(ActiveEra, BondingDuration)}

\* The era staking will charge for a session; empty when it is no longer bonded.
EraOfSession(session) ==
  LET bonded == {e \in BondedEras : ErasStartSessionIndex[e] <= session}
  IN  IF session >= ErasStartSessionIndex[ActiveEra] THEN {ActiveEra}
      ELSE IF bonded = {} THEN {} ELSE {Max(bonded)}

\* Mutant: the check at dispatch trusts the preflight.
Authoritative_Skipped(session) == TRUE

has_pending_slash_bucket(session) ==
  \E era \in EraOfSession(session) : apply_era(era) > ActiveEra

\* GuardedReports::report_offence checks the bucket again at dispatch.
Authoritative(session) == has_pending_slash_bucket(session)

\* The transaction pool and the runtime API accept a report of a session so far.
Preflight(session, stash) ==
  /\ has_pending_slash_bucket(session)
  /\ Cardinality(pool) < MaxPending
  /\ pool' = pool \cup {<<session, stash>>}
  /\ UNCHANGED <<limitVars, SlashHistory, eraVars, queueVars, motions>>

\* Any block later; a report that staking finds nothing new in changes no queue.
report_offence(session, stash) ==
  /\ <<session, stash>> \in pool
  /\ pool' = pool \ {<<session, stash>>}
  /\ IF Authoritative(session)
       THEN \E era \in EraOfSession(session) :
              IF stash \in Exposed[era] /\ ReportFraction > Slashed[era][stash]
                THEN QueueSlash(era, stash, ReportFraction) ELSE UNCHANGED queueVars
       ELSE UNCHANGED queueVars
  /\ UNCHANGED <<limitVars, SlashHistory, eraVars, motions>>

-----------------------------------------------------------------------------
(* Staking, external. *)

NewEra ==
  LET next == ActiveEra + 1 IN
  /\ next \in Eras
  /\ ActiveEra' = next
  /\ ErasStartSessionIndex' = [ErasStartSessionIndex EXCEPT ![next] =
       ErasStartSessionIndex[ActiveEra] + EraLength[ActiveEra]]
  /\ UnappliedSlashes' = {u \in UnappliedSlashes : u[1] # next}
  /\ UNCHANGED <<limitVars, SlashHistory, Slashed, pool, motions>>

\* Root cancels a deferred slash; the budget it was charged to is not restored.
CancelDeferredSlash(u) ==
  /\ UnappliedSlashes' = UnappliedSlashes \ {u}
  /\ UNCHANGED <<limitVars, SlashHistory, eraVars, Slashed, pool, motions>>

-----------------------------------------------------------------------------
Init ==
  /\ MaxDiscretionarySlashPerMotion = DEFAULT_PER_MOTION
  /\ MaxDiscretionarySlashCumulative = DEFAULT_CUMULATIVE
  /\ BudgetWindow = BondingDuration
  /\ SlashHistory = [s \in Stash |-> [e \in Eras |-> 0]]
  /\ ActiveEra = 0
  /\ ErasStartSessionIndex = [e \in Eras |-> 0]
  /\ Slashed = [e \in Eras |-> [s \in Stash |-> 0]]
  /\ UnappliedSlashes = {} /\ pool = {}
  /\ motions = [s \in Stash |-> [e \in Eras |-> 0]]

Council ==
  \/ \E s \in Stash, e \in Eras, f \in Fractions : discretionary_slash(s, e, f)
  \/ \E p \in Fractions, c \in Fractions, w \in Windows : set_limits(p, c, w)

Reports ==
  \E s \in Stash : \E i \in 0..(ErasStartSessionIndex[ActiveEra] + EraLength[ActiveEra] - 1) :
    Preflight(i, s) \/ report_offence(i, s)

Staking ==
  \/ NewEra
  \/ \E u \in UnappliedSlashes : CancelDeferredSlash(u)

Next == Council \/ Reports \/ Staking

Spec == Init /\ [][Next]_vars

-----------------------------------------------------------------------------
(* Properties. *)

\* Every variable has its type; limits stay inside the rails and windows.
TypeOK ==
  /\ check_fractions(MaxDiscretionarySlashPerMotion, MaxDiscretionarySlashCumulative)
  /\ ValidWindow(BudgetWindow)
  /\ SlashHistory \in [Stash -> Charges] /\ motions \in [Stash -> Charges]
  /\ ActiveEra \in Eras /\ ErasStartSessionIndex \in [Eras -> Nat]
  /\ Slashed \in [Eras -> [Stash -> Nat]]
  /\ UnappliedSlashes \subseteq Nat \X Eras \X Stash \X Nat
  /\ pool \subseteq Nat \X Stash

\* The history of a stash is exact over the longest horizon any window can reach,
\* although entries are dropped and limits change: what is forgotten can never be
\* asked for again (the retained horizon of discretionary_slash).
HistoryExact ==
  \A s \in Stash, e \in Eras :
    e >= SatSub(ActiveEra, MaxBudgetWindow - 1) => SlashHistory[s][e] = motions[s][e]

\* A charge is booked in the era of the motion, never ahead of it.
NoChargeAhead == \A s \in Stash, e \in Eras : e > ActiveEra => SlashHistory[s][e] = 0

\* Each accepted motion keeps the sum of all motions ever made against the stash in the
\* window in force, cancelled ones included, within the cumulative limit in force;
\* widening or narrowing the window in between changes nothing about that.
RollingBudget ==
  [][\A s \in Stash : motions'[s] # motions[s] =>
       SumFrom(motions'[s], SatSub(ActiveEra, BudgetWindow - 1))
         <= MaxDiscretionarySlashCumulative]_vars

\* A motion within the budget is never refused because the bounded history is full.
HistoryNeverFull ==
  \A s \in Stash : LET history == Retained(SlashHistory[s]) IN
    history[ActiveEra] = 0 => Cardinality(Entries(history)) < MaxBudgetWindow

\* The bounded history remembers whatever a budget may ask for and never runs out of
\* room (discretionary_slash prunes to the retained horizon, not to the window).
HistorySound == TypeOK /\ HistoryExact /\ NoChargeAhead /\ HistoryNeverFull

\* No slash, of the council or of a report however delayed, is queued in a bucket that
\* staking has processed already, where it would stay for ever.
SlashesPending == \A u \in UnappliedSlashes : u[1] > ActiveEra

\* A report is charged to the era its session lay in, whatever the lengths of the eras
\* and although only bonded eras are looked up (has_pending_slash_bucket).
ReportsChargeTheirEra ==
  \A i \in 0..(ErasStartSessionIndex[ActiveEra] + EraLength[ActiveEra] - 1) : \A e \in EraOfSession(i) :
    /\ ErasStartSessionIndex[e] <= i
    /\ e < ActiveEra => i < ErasStartSessionIndex[e + 1]

\* A slash reaches the era it is for, while staking still reads it.
SlashesReachTheirEra == SlashesPending /\ ReportsChargeTheirEra

=============================================================================
