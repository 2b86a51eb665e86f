-------------------------------- MODULE MCPow --------------------------------
(***************************************************************************)
(* Small instances of QuantumPow.  MIN_ENERGY_DELTA is two energy units,   *)
(* so that a winner may be closer than that; the crossover of easing is    *)
(* then a room of 40.5 units.                                              *)
(***************************************************************************)
EXTENDS QuantumPow, TLC
CONSTANTS a, b, t1, t2, t3, s1, s2

Curve(min, knee, max) == [min |-> min, knee |-> knee, max |-> max]
Difficulty(energy, count, diversity) ==
  [max_energy |-> energy, min_solutions |-> count, min_diversity |-> diversity]
Energies(e) == [energies |-> e, diversity |-> 1]

\* One epoch per block: the powers of 0.950625, rounded, in parts of One.
Powers ==
  LET Extend(n, powers) == Append(powers, (powers[Len(powers)] * 1521 + 800) \div 1600)
  IN  FoldFunction(Extend, <<One>>, [n \in 1..MaxBlock |-> n])
MCRetained == [n \in 0..MaxBlock |-> Powers[n + 1]]

\* The default threshold leaves t2 a room below the crossover, the others one above it.
MCCurveC == [t \in Topologies |-> IF t = t2 THEN Curve(-130, -50, -10) ELSE Curve(-60, -30, -2)]
MCDefaultDifficulty == Difficulty(-44, 1, 0)

\* A well-formed and a malformed override.
MCCurves == {Curve(-52, -40, -6), Curve(-3, -3, -1)}
Nothing == {}
MCDifficulties == {Difficulty(-30, 2, 1)}
OneSolution == {Energies(<<-47, -45>>)}
MCSolutions == {Energies(<<-46>>), Energies(<<-47, -46>>)}

\* Accounts and salts are interchangeable: no definition tells them apart.
RoundSymmetry == Permutations({a, b}) \cup Permutations({s1, s2})
=============================================================================
