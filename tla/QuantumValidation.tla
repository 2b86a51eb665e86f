-------------------------- MODULE QuantumValidation --------------------------
(***************************************************************************)
(* crates/quantum-validation and the two selection routines built on it:   *)
(* allowed-value specs and their bit-packed encoding, topology checks,     *)
(* Ising energies, the symmetric Hamming distance and farthest-point       *)
(* selection.  Everything here is a pure operator.                         *)
(*                                                                         *)
(* Positions are counted from 1.  A byte has ByteBits bits (8 in the code) *)
(* and a MilliValue four bytes, as in the code, so that a small ByteBits   *)
(* brings its limits within reach.                                         *)
(***************************************************************************)
EXTENDS Integers, Sequences, SequencesExt, FiniteSets, FiniteSetsExt, Functions, Bitwise, Results

CONSTANTS ByteBits, MILLI_SCALE, MinNodes, MaxNodes

ASSUME WidthAssumption ==
  ByteBits \in Nat \ {0} /\ MILLI_SCALE \in Nat \ {0} /\ MinNodes \in Nat \ {0} /\ MaxNodes \in Nat

Base == 2^ByteBits
MilliMax == 2^(4 * ByteBits - 1) - 1
MilliMin == -MilliMax - 1

-----------------------------------------------------------------------------
(* puzzle_spec.rs: AllowedValueSpec *)

SetSpec(values) == [kind |-> "Set", values |-> values]
IntegerRange(min, max) == [kind |-> "IntegerRange", min |-> min, max |-> max]
ContinuousRange(min, max) == [kind |-> "ContinuousRange", min |-> min, max |-> max]

MAX_INDEXED_BITS == ByteBits

\* 64 - leading_zeros(count - 1), and 1 for counts of 0 and 1.
bits_for_count(count) ==
  IF count <= 1 THEN 1
  ELSE CHOOSE b \in 1..(4 * ByteBits + 1) : 2^(b - 1) < count /\ count <= 2^b

Empty(spec) == IF spec.kind = "Set" THEN spec.values = <<>> ELSE spec.max < spec.min

span(spec) == spec.max - spec.min + 1

bits_per_value(spec) ==
  LET bits == bits_for_count(IF spec.kind = "Set" THEN Len(spec.values) ELSE span(spec))
      overflows == spec.min * MILLI_SCALE < MilliMin \/ spec.max * MILLI_SCALE > MilliMax
  IN  CASE Empty(spec) -> Err("EmptyAllowedValues")
        [] ~Empty(spec) /\ spec.kind = "ContinuousRange" -> Ok(4 * ByteBits)
        [] ~Empty(spec) /\ spec.kind = "Set" ->
             IF bits > MAX_INDEXED_BITS THEN Err("EncodingTooWide") ELSE Ok(bits)
        [] OTHER ->
             IF bits > MAX_INDEXED_BITS THEN Err("EncodingTooWide")
             ELSE IF overflows THEN Err("ArithmeticOverflow") ELSE Ok(bits)

\* raw is the index or offset, or the value itself for a continuous range.
decode_value(spec, raw) ==
  CASE spec.kind = "Set" ->
         IF raw + 1 \in DOMAIN spec.values THEN Ok(spec.values[raw + 1])
                                           ELSE Err("InvalidEncodedValue")
    [] spec.kind = "IntegerRange" ->
         LET scaled == (spec.min + raw) * MILLI_SCALE
         IN  IF raw >= span(spec) THEN Err("InvalidEncodedValue")
             ELSE IF scaled \notin MilliMin..MilliMax THEN Err("ArithmeticOverflow")
             ELSE Ok(scaled)
    [] spec.kind = "ContinuousRange" ->
         IF raw \in spec.min..spec.max THEN Ok(raw) ELSE Err("InvalidEncodedValue")

\* One draw of the generator, reduced to the span of the spec.
sample(spec, draw) ==
  CASE Empty(spec) -> Err("EmptyAllowedValues")
    [] ~Empty(spec) /\ spec.kind = "Set" -> Ok(spec.values[(draw % Len(spec.values)) + 1])
    [] ~Empty(spec) /\ spec.kind = "IntegerRange" -> decode_value(spec, draw % span(spec))
    [] OTHER -> Ok(spec.min + (draw % span(spec)))

\* The discriminant, then the sorted values or the bounds (fixed width each).
canonical_bytes(spec) ==
  IF spec.kind = "Set" THEN <<0>> \o SortSeq(spec.values, <)
  ELSE <<IF spec.kind = "IntegerRange" THEN 1 ELSE 2, spec.min, spec.max>>

-----------------------------------------------------------------------------
(* packed.rs: the wire format of a solution *)

packed_solution_byte_len(num_spins, bits) == (num_spins * bits + ByteBits - 1) \div ByteBits

encode_value(value, spec) ==
  LET positions == {i \in DOMAIN spec.values : spec.values[i] = value}
      whole == value \div MILLI_SCALE
  IN  IF spec.kind = "Set"
      THEN IF positions = {} THEN Err("InvalidEncodedValue") ELSE Ok(Min(positions) - 1)
      ELSE IF value % MILLI_SCALE # 0 \/ whole \notin spec.min..spec.max
      THEN Err("InvalidEncodedValue") ELSE Ok(whole - spec.min)

\* Big-endian two's complement over four bytes, and back.
to_be_bytes(value) == [k \in 1..4 |-> (value \div Base^(4 - k)) % Base]
from_be_bytes(bytes) ==
  LET top == IF bytes[1] >= Base \div 2 THEN bytes[1] - Base ELSE bytes[1]
  IN  top * Base^3 + bytes[2] * Base^2 + bytes[3] * Base + bytes[4]

\* Mutant: a value that crosses into the next byte is cut off.
PackOne_NoSpill(out, i, raw, bits) ==
  LET at == (i - 1) * bits
      byte == at \div ByteBits + 1
      shifted == raw * 2^(at % ByteBits)
  IN  [out EXCEPT ![byte] = out[byte] | (shifted % Base)]

\* The loop body of pack_solution for the i-th spin.
PackOne(out, i, raw, bits) ==
  LET at == (i - 1) * bits
      byte == at \div ByteBits + 1
      shifted == raw * 2^(at % ByteBits)
      low == [out EXCEPT ![byte] = out[byte] | (shifted % Base)]
  IN  IF byte + 1 > Len(out) THEN low
      ELSE [low EXCEPT ![byte + 1] = out[byte + 1] | ((shifted \div Base) % Base)]

pack_solution(spins, spec) ==
  LET width == bits_per_value(spec)
      zero == [k \in 1..packed_solution_byte_len(Len(spins), width.value) |-> 0]
      raws == Collect([i \in DOMAIN spins |-> encode_value(spins[i], spec)])
  IN  IF ~width.ok THEN width
      ELSE IF spec.kind = "ContinuousRange"
      THEN Ok(FlattenSeq([i \in DOMAIN spins |-> to_be_bytes(spins[i])]))
      ELSE IF ~raws.ok THEN raws
      ELSE Ok(FoldLeftDomain(LAMBDA out, i : PackOne(out, i, raws.value[i], width.value),
                             zero, spins))

\* A value spans at most two bytes; past the end the second one reads as zero.
decode_indexed(packed, num_spins, bits, spec) ==
  LET Raw(i) == LET at == (i - 1) * bits
                    byte == at \div ByteBits + 1
                    next == IF byte + 1 \in DOMAIN packed THEN packed[byte + 1] ELSE 0
                IN  ((packed[byte] + next * Base) \div 2^(at % ByteBits)) % 2^bits
  IN  Collect([i \in 1..num_spins |-> decode_value(spec, Raw(i))])

decode_continuous(packed, num_spins, spec) ==
  Collect([i \in 1..num_spins |->
             decode_value(spec, from_be_bytes(SubSeq(packed, 4 * i - 3, 4 * i)))])

unpack_solution(packed, num_spins, spec) ==
  LET width == bits_per_value(spec)
  IN  IF ~width.ok THEN width
      ELSE IF Len(packed) # packed_solution_byte_len(num_spins, width.value)
      THEN Err("PackedSolutionLengthMismatch")
      ELSE IF spec.kind = "ContinuousRange" THEN decode_continuous(packed, num_spins, spec)
      ELSE decode_indexed(packed, num_spins, width.value, spec)

signum(v) == IF v > 0 THEN 1 ELSE IF v < 0 THEN -1 ELSE 0

spin_signs(milli) ==
  IF \E i \in DOMAIN milli : milli[i] = 0 THEN Err("InvalidSpinValue")
  ELSE Ok([i \in DOMAIN milli |-> signum(milli[i])])

-----------------------------------------------------------------------------
(* validation.rs, ising.rs, energy.rs *)

validate_spins(spins) == Range(spins) \subseteq {-1, 1}

\* TopologyIndex::new: the position of every node.
TopologyIndex(nodes, edges) ==
  IF ~IsInjective(nodes) THEN Err("DuplicateNode")
  ELSE IF \E e \in Range(edges) : {e[1], e[2]} \ Range(nodes) # {} THEN Err("UnknownNodeInEdge")
  ELSE Ok([n \in Range(nodes) |-> CHOOSE i \in DOMAIN nodes : nodes[i] = n])

\* The set of complaints; an absent list of allowed values ({}) complains of none.
validate_topology_consistency(nodes, edges, h, j, allowed_h, allowed_j) ==
  {e \in {"Duplicate node id", "Wrong h parameter count", "Wrong J parameter count",
          "Invalid h", "J parameter for invalid edge", "Invalid J value"} :
     \/ e = "Duplicate node id" /\ ~IsInjective(nodes)
     \/ e = "Wrong h parameter count" /\ Len(h) # Len(nodes)
     \/ e = "Wrong J parameter count" /\ Len(j) # Len(edges)
     \/ /\ e = "Invalid h" /\ allowed_h # {}
        /\ \E i \in DOMAIN nodes \cap DOMAIN h : h[i] \notin allowed_h
     \/ /\ e = "J parameter for invalid edge"
        /\ \E d \in Range(edges) : {d[1], d[2]} \ Range(nodes) # {}
     \/ /\ e = "Invalid J value" /\ allowed_j # {}
        /\ \E k \in DOMAIN edges \cap DOMAIN j : j[k] \notin allowed_j}

\* generate_ising_model_indexed: one draw per node, then one per edge.
generate_ising_model(draws, nodes, edges, allowed_h, allowed_j) ==
  LET index == TopologyIndex(nodes, edges)
      hbits == bits_per_value(allowed_h)
      jbits == bits_per_value(allowed_j)
      h == Collect([i \in DOMAIN nodes |-> sample(allowed_h, draws[i])])
      j == Collect([k \in DOMAIN edges |-> sample(allowed_j, draws[Len(nodes) + k])])
  IN  IF ~index.ok THEN index
      ELSE IF nodes = <<>> THEN Err("EmptyNodes")
      ELSE IF ~hbits.ok
      THEN Err(IF hbits.error = "EmptyAllowedValues" THEN "EmptyFieldValues" ELSE hbits.error)
      ELSE IF ~jbits.ok THEN jbits
      ELSE IF ~h.ok THEN h
      ELSE IF ~j.ok THEN j
      ELSE Ok([h |-> h.value, j |-> j.value])

validate_shape_lengths(solution, h, edges, j, node_count) ==
  IF node_count = 0 THEN Err("EmptyNodes")
  ELSE IF Len(solution) # node_count THEN Err("SolutionLengthMismatch")
  ELSE IF Len(h) # node_count THEN Err("FieldLengthMismatch")
  ELSE IF Len(edges) # Len(j) THEN Err("EdgeWeightLengthMismatch")
  ELSE Ok(0)

SumSeq(s) == FoldLeft(+, 0, s)

\* Mutant: node ids used as positions of the solution.
energy_of_solution_indexed_ById(solution, h, edges, j, positions) ==
  LET shape == validate_shape_lengths(solution, h, edges, j, Cardinality(DOMAIN positions))
      At(n) == solution[((n - 1) % Len(solution)) + 1]
  IN  IF ~shape.ok THEN shape
      ELSE IF ~validate_spins(solution) THEN Err("InvalidSpinValue")
      ELSE Ok(SumSeq([i \in DOMAIN h |-> h[i] * solution[i]])
              + SumSeq([k \in DOMAIN j |-> j[k] * At(edges[k][1]) * At(edges[k][2])]))

\* The sums are of 32-bit values in 64 bits: checked_add never fails within MaxEdges.
energy_of_solution_indexed(solution, h, edges, j, positions) ==
  LET shape == validate_shape_lengths(solution, h, edges, j, Cardinality(DOMAIN positions))
      At(n) == solution[positions[n]]
  IN  IF ~shape.ok THEN shape
      ELSE IF ~validate_spins(solution) THEN Err("InvalidSpinValue")
      ELSE Ok(SumSeq([i \in DOMAIN h |-> h[i] * solution[i]])
              + SumSeq([k \in DOMAIN j |-> j[k] * At(edges[k][1]) * At(edges[k][2])]))

energy_of_solution(solution, h, edges, j, nodes) ==
  LET shape == validate_shape_lengths(solution, h, edges, j, Len(nodes))
      index == TopologyIndex(nodes, edges)
  IN  IF ~shape.ok THEN shape
      ELSE IF ~index.ok THEN index
      ELSE energy_of_solution_indexed(solution, h, edges, j, index.value)

\* discrete_mean_abs as an exact fraction <<numerator, denominator>>.
discrete_mean_abs(min, max) ==
  LET triangle(k) == (k * (k + 1)) \div 2
  IN  IF max < min THEN Err("EmptyAllowedValues")
      ELSE Ok(IF min >= 0 THEN <<min + max, 2>>
              ELSE IF max <= 0 THEN <<-(min + max), 2>>
              ELSE <<triangle(-min) + triangle(max), max - min + 1>>)

-----------------------------------------------------------------------------
(* diversity.rs and the mempool's selection.rs *)

\* Counts where a and b differ, directly and after flipping all of b.
symmetric_hamming(a, b) ==
  Min({Cardinality({i \in DOMAIN a : a[i] # b[i]}), Cardinality({i \in DOMAIN a : a[i] # -b[i]})})

round_div(numerator, denominator) == (numerator + denominator \div 2) \div denominator

ensure_valid_solution_inputs(solutions) ==
  IF \E i \in DOMAIN solutions : Len(solutions[i]) # Len(solutions[1])
  THEN Err("SolutionLengthMismatch")
  ELSE IF \E i \in DOMAIN solutions : ~validate_spins(solutions[i])
  THEN Err("InvalidSpinValue")
  ELSE Ok(Len(solutions[1]))

Pairs(n) == {p \in (1..n) \X (1..n) : p[1] < p[2]}

calculate_diversity(solutions) ==
  LET valid == ensure_valid_solution_inputs(solutions)
      pairs == Pairs(Len(solutions))
      total == MapThenSumSet(LAMBDA p : symmetric_hamming(solutions[p[1]], solutions[p[2]]), pairs)
  IN  IF Len(solutions) < 2 THEN Ok(0)
      ELSE IF ~valid.ok THEN valid
      ELSE Ok(round_div(total * MILLI_SCALE, Cardinality(pairs) * valid.value))

\* The scan keeps the first of equally good pairs, in lexicographic order.
most_distant_pair(distances, n) ==
  LET Best == {p \in Pairs(n) : \A q \in Pairs(n) : distances[q] <= distances[p]}
  IN  CHOOSE p \in Best : \A q \in Best : p[1] < q[1] \/ (p[1] = q[1] /\ p[2] <= q[2])

\* The unselected candidate of the greatest distance, the first of them.
Farthest(sel, dist) ==
  LET rest == DOMAIN dist \ Range(sel)
  IN  CHOOSE c \in rest : \A d \in rest : dist[d] < dist[c] \/ (dist[d] = dist[c] /\ c <= d)

\* Mutant: the distances to the selected set are not brought up to date.
AddFarthest_Stale(acc, distances) ==
  [acc EXCEPT !.selected = Append(@, Farthest(acc.selected, acc.min_distance))]

\* One round of select_diverse: take the farthest candidate, then lower the
\* distances of those not selected.
AddFarthest(acc, distances) ==
  LET new == Farthest(acc.selected, acc.min_distance)
      selected == Append(acc.selected, new)
  IN  [selected |-> selected,
       min_distance |-> [c \in DOMAIN acc.min_distance |->
          IF c \in Range(selected) THEN acc.min_distance[c]
          ELSE Min({acc.min_distance[c], distances[<<c, new>>]})]]

pairwise_distances(solutions) ==
  [p \in (DOMAIN solutions) \X (DOMAIN solutions) |->
     symmetric_hamming(solutions[p[1]], solutions[p[2]])]

select_diverse(solutions, target) ==
  LET n == Len(solutions)
      valid == ensure_valid_solution_inputs(solutions)
      distances == pairwise_distances(solutions)
      pair == most_distant_pair(distances, n)
      start == [selected |-> pair,
                min_distance |-> [c \in 1..n |-> Min({distances[<<c, pair[1]>>],
                                                      distances[<<c, pair[2]>>]})]]
  IN  IF n = 0 \/ target = 0 THEN Ok(<<>>)
      ELSE IF ~valid.ok THEN valid
      ELSE IF n <= target THEN Ok([i \in 1..n |-> i])
      ELSE IF target = 1 THEN Ok(<<1>>)
      ELSE Ok(FoldLeft(LAMBDA acc, k : AddFarthest(acc, distances),
                       start, [k \in 1..(target - 2) |-> k]).selected)

\* One round of select_from_best: distances to the member selected last are
\* folded in, then the farthest candidate is taken.
AnchorNext(acc, solutions) ==
  LET last == Last(acc.selected)
      distances == [c \in DOMAIN solutions |->
         IF c \in Range(acc.selected) THEN acc.distances[c]
         ELSE Min({acc.distances[c], symmetric_hamming(solutions[c], solutions[last])})]
  IN  [selected |-> Append(acc.selected, Farthest(acc.selected, distances)),
       distances |-> distances]

select_from_best(solutions, best, target) ==
  LET n == Len(solutions)
      rounds == Min({Max({target, 1}), n}) - 1
      far == 1 + Max({Len(solutions[i]) : i \in 1..n})
  IN  FoldLeft(LAMBDA acc, k : AnchorNext(acc, solutions),
               [selected |-> <<best>>, distances |-> [c \in 1..n |-> far]],
               [k \in 1..rounds |-> k]).selected

-----------------------------------------------------------------------------
(* quantum-pow: the topology hash, registration and validation of a proof.  *)
(* A topology is its nodes, edges and three specs.                          *)

Lex(e, f) == e[1] < f[1] \/ (e[1] = f[1] /\ e[2] < f[2])

\* What hash_topology hashes; blake2 itself is taken as injective.
hash_topology(t) ==
  LET Oriented(e) == IF e[1] <= e[2] THEN e ELSE <<e[2], e[1]>>
  IN  <<SortSeq(t.nodes, <), SortSeq([k \in DOMAIN t.edges |-> Oriented(t.edges[k])], Lex),
        canonical_bytes(t.allowed_h), canonical_bytes(t.allowed_j), canonical_bytes(t.allowed_spin)>>

Zeros(n) == [i \in 1..n |-> 0]

\* Mutant: the set keeps the order it was registered in.
canonicalize_spec_Identity(spec) == spec

canonicalize_spec(spec) ==
  IF spec.kind = "Set" THEN SetSpec(SortSeq(spec.values, <)) ELSE spec

\* What register_topology stores.
Stored(t) ==
  [t EXCEPT !.allowed_h = canonicalize_spec(@), !.allowed_j = canonicalize_spec(@),
            !.allowed_spin = canonicalize_spec(@)]

\* The checks of register_topology on the topology itself.
Registrable(t) ==
  /\ Len(t.nodes) >= MinNodes
  /\ \A spec \in {t.allowed_h, t.allowed_j, t.allowed_spin} : bits_per_value(spec).ok
  /\ packed_solution_byte_len(Len(t.nodes), bits_per_value(t.allowed_spin).value) <= MaxNodes
  /\ validate_topology_consistency(t.nodes, t.edges, Zeros(Len(t.nodes)), Zeros(Len(t.edges)),
                                   {}, {}) = {}

\* The error names are those of the pallet, as validate_proof maps them.
MapUnpack(e) ==
  IF e = "PackedSolutionLengthMismatch" THEN e
  ELSE IF e = "InvalidEncodedValue" THEN "InvalidEncodedSpin" ELSE "InvalidTopology"
MapEnergy(e) ==
  IF e = "SolutionLengthMismatch" THEN e
  ELSE IF e = "InvalidSpinValue" THEN "InvalidSpinValues" ELSE "InvalidTopology"

\* One submitted solution: decoded, then reduced to its signs.
Decode(packed, t) ==
  LET milli == unpack_solution(packed, Len(t.nodes), t.allowed_spin)
      spins == spin_signs(milli.value)
  IN  IF ~milli.ok THEN Err(MapUnpack(milli.error))
      ELSE IF ~spins.ok THEN Err("InvalidSpinValues") ELSE spins

validate_proof(packed, t, model, difficulty) ==
  LET index == TopologyIndex(t.nodes, t.edges)
      decoded == Collect([i \in DOMAIN packed |-> Decode(packed[i], t)])
      Energy(s) == LET e == energy_of_solution_indexed(s, model.h, t.edges, model.j, index.value)
                   IN  IF e.ok THEN e ELSE Err(MapEnergy(e.error))
      energies == Collect([i \in DOMAIN packed |-> Energy(decoded.value[i])])
      valid == SelectSeq([i \in DOMAIN packed |-> i],
                         LAMBDA i : energies.value[i] < difficulty.max_energy)
      solutions == [k \in DOMAIN valid |-> decoded.value[valid[k]]]
      target == Min({Len(valid), Max({difficulty.min_solutions, 1})})
      selected == select_diverse(solutions, target)
      diversity == calculate_diversity([k \in DOMAIN selected.value |->
                                          solutions[selected.value[k]]])
  IN  IF ~index.ok THEN Err("InvalidTopology")
      ELSE IF ~decoded.ok THEN decoded
      ELSE IF ~energies.ok THEN energies
      ELSE IF valid = <<>> THEN Err("InsufficientEnergy")
      ELSE Ok([best_energy |-> Min({energies.value[i] : i \in Range(valid)}),
               diversity |-> diversity.value,
               valid_solution_count |-> Len(valid)])
=============================================================================
