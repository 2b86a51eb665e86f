---------------------------- MODULE PureAlgorithms ----------------------------
(***************************************************************************)
(* The runtime's stateless algorithms, each evaluated once on an input and *)
(* compared with a reference definition.  `problem` is the input, `answer` *)
(* what the code returns; one action per algorithm.                        *)
(***************************************************************************)
EXTENDS QuantumValidation, CouncilRootCalls, ElectionVoters, GenesisGate, XqvmShape,
        PowUpgrade, HybridSignature

CONSTANTS None, Problems,
          SignerSeeds          \* the master seeds of the envelopes that are verified

VARIABLES problem, answer
vars == <<problem, answer>>

\* Problems is a tuple of input sets.
Init == (\E k \in DOMAIN Problems : problem \in Problems[k]) /\ answer = None

Ask(kind) == problem.kind = kind /\ answer = None /\ UNCHANGED problem

Pack == Ask("pack") /\ answer' = pack_solution(problem.spins, problem.spec)
SelectDiverse ==
  Ask("diverse") /\ answer' = select_diverse(problem.solutions, problem.target)
SelectFromBest ==
  Ask("anchored") /\ answer' = Ok(select_from_best(problem.solutions, problem.best, problem.target))
Hash == Ask("hash") /\ answer' = <<hash_topology(problem.one), hash_topology(problem.other)>>
MeanAbs == Ask("mean") /\ answer' = discrete_mean_abs(problem.min, problem.max)

\* A puzzle is generated for a registered topology, then a proof is scored.
Prove ==
  /\ Ask("prove")
  /\ Registrable(problem.topology)
  /\ LET t == Stored(problem.topology)
         model == generate_ising_model(problem.draws, t.nodes, t.edges, t.allowed_h, t.allowed_j)
     IN  answer' = IF model.ok
                   THEN [model |-> model.value, proof |->
                         validate_proof(problem.packed, t, model.value, problem.difficulty)]
                   ELSE [model |-> None, proof |-> model]

CheckCall == Ask("call") /\ answer' = check(problem.call)
TakeSnapshot ==
  Ask("voters") /\ answer' = electing_voters(problem.snapshot, problem.bounds)
ExportPreset ==
  Ask("genesis") /\ answer' = get_preset(problem.id, problem.inputs, problem.council)

Measure == Ask("shape") /\ answer' = ControlFlowShape(problem.code)
Upgrade == Ask("upgrade") /\ answer' = on_runtime_upgrade(problem.store)
Transform == Ask("transform") /\ answer' = transform(problem.solutions)


\* A page imports its phrases, perhaps one more later, and is asked to sign.
SignInBrowser ==
  /\ Ask("browser")
  /\ LET seeds == fromMnemonics(problem.uris)
         later == importMnemonic(seeds.value, problem.later)
     IN  answer' = IF ~seeds.ok THEN seeds
                   ELSE signRaw(IF later.ok THEN later.value ELSE seeds.value,
                                problem.module, problem.address, problem.data)
SignInPython ==
  Ask("python") /\ answer' = HybridSignerFromMnemonic(problem.uri, problem.data)
VerifyEnvelope ==
  /\ Ask("envelope")
  /\ answer' = verify_envelope_impl(problem.payload, problem.bytes, problem.account)

Next == \/ Pack \/ SelectDiverse \/ SelectFromBest \/ Hash \/ MeanAbs \/ Prove
        \/ CheckCall \/ TakeSnapshot \/ ExportPreset \/ Measure \/ Transform \/ Upgrade
        \/ SignInBrowser \/ SignInPython \/ VerifyEnvelope

Spec == Init /\ [][Next]_vars

Answered(kind) == problem.kind = kind /\ answer # None

-----------------------------------------------------------------------------
(* packed.rs *)

Representable(spec) ==
  CASE spec.kind = "Set" -> Range(spec.values)
    [] spec.kind = "IntegerRange" -> {k * MILLI_SCALE : k \in spec.min..spec.max}
    [] spec.kind = "ContinuousRange" -> spec.min..spec.max

\* A packed vector is read back unchanged, whatever the width and wherever its
\* values cross bytes; a vector the spec does not allow is refused at one end,
\* and a spec that has no encoding at both.
PackRoundTrip ==
  Answered("pack") =>
    LET back == unpack_solution(answer.value, Len(problem.spins), problem.spec)
    IN  IF ~bits_per_value(problem.spec).ok THEN ~answer.ok
        ELSE IF Range(problem.spins) \subseteq Representable(problem.spec)
        THEN answer.ok /\ back = Ok(problem.spins)
        ELSE answer.ok => ~back.ok

-----------------------------------------------------------------------------
(* diversity.rs and selection.rs *)

\* The smallest distance between two members of a set of positions.
Dispersion(S, solutions) ==
  Min({symmetric_hamming(solutions[p[1]], solutions[p[2]]) : p \in {q \in S \X S : q[1] # q[2]}})

\* Farthest-point selection is within a factor of two of the best dispersion
\* any subset of the same size has, for both starting rules: this is what the
\* triangle inequality of the symmetric Hamming distance buys, and it fails
\* when the incremental distances are stale.
SelectionHalfOptimal ==
  \A kind \in {"diverse", "anchored"} :
    Answered(kind) /\ answer.ok /\ Len(answer.value) >= 2 =>
      LET S == Range(answer.value)
          k == Len(answer.value)
      IN  /\ Cardinality(S) = k
          /\ \A T \in kSubset(k, DOMAIN problem.solutions) :
               Dispersion(T, problem.solutions) <= 2 * Dispersion(S, problem.solutions)

-----------------------------------------------------------------------------
(* quantum-pow: registration and proofs *)

MultisetOf(s) == [v \in Range(s) |-> Cardinality({i \in DOMAIN s : s[i] = v})]
SameSpec(a, b) ==
  /\ a.kind = b.kind
  /\ IF a.kind = "Set" THEN MultisetOf(a.values) = MultisetOf(b.values) ELSE a = b
SameSpecs(a, b) ==
  SameSpec(a.allowed_h, b.allowed_h) /\ SameSpec(a.allowed_j, b.allowed_j)
  /\ SameSpec(a.allowed_spin, b.allowed_spin)
Undirected(edges) == [k \in DOMAIN edges |-> {edges[k][1], edges[k][2]}]

\* Two registrations collide exactly when they differ by the order of nodes,
\* edges, endpoints or set values only; and then, if nodes and edges come in the
\* same order, the stored topologies are equal, so that one nonce draws one puzzle.
HashIsPresentationFree ==
  Answered("hash") =>
    LET a == problem.one
        b == problem.other
    IN  /\ answer[1] = answer[2] <=>
             /\ MultisetOf(a.nodes) = MultisetOf(b.nodes)
             /\ MultisetOf(Undirected(a.edges)) = MultisetOf(Undirected(b.edges))
             /\ SameSpecs(a, b)
        /\ answer[1] = answer[2] /\ a.nodes = b.nodes /\ a.edges = b.edges =>
             Stored(a) = Stored(b)

\* Past registration only the miner's own input can fail a proof: the puzzle
\* can be generated, and no error blames the topology.
RegisteredTopologyScores ==
  Answered("prove") =>
    \/ answer.proof.ok
    \/ answer.proof.error \in {"PackedSolutionLengthMismatch", "InvalidEncodedSpin",
                               "InvalidSpinValues", "InsufficientEnergy"}

\* The Ising Hamiltonian of an assignment of spins to nodes.
Hamiltonian(t, model, spin) ==
  MapThenSumSet(LAMBDA i : model.h[i] * spin[t.nodes[i]], DOMAIN t.nodes)
  + MapThenSumSet(LAMBDA k : model.j[k] * spin[t.edges[k][1]] * spin[t.edges[k][2]], DOMAIN t.edges)

\* The energy credited to a proof is reached by an assignment of spins to nodes
\* that one of its payloads encodes, and it clears the threshold; the puzzle's
\* parameters come from the registered specs.
CreditedEnergyIsReal ==
  Answered("prove") /\ answer.proof.ok =>
    LET t == Stored(problem.topology)
        Reached == {spin \in [Range(t.nodes) -> {-1, 1}] :
                      /\ Hamiltonian(t, answer.model, spin) = answer.proof.value.best_energy
                      /\ \E i \in DOMAIN problem.packed :
                           LET milli == unpack_solution(problem.packed[i], Len(t.nodes), t.allowed_spin)
                           IN  milli.ok /\ \A p \in DOMAIN t.nodes :
                                 spin[t.nodes[p]] * milli.value[p] > 0}
    IN  /\ Reached # {}
        /\ answer.proof.value.best_energy < problem.difficulty.max_energy
        /\ Range(answer.model.h) \subseteq Representable(t.allowed_h)
        /\ Range(answer.model.j) \subseteq Representable(t.allowed_j)

\* A proof on a registered topology gets the energy it has: it can be scored, and the
\* score is real (generate_ising_model, validate_proof).
ProofsScoredTruly == RegisteredTopologyScores /\ CreditedEnergyIsReal

-----------------------------------------------------------------------------
(* energy.rs *)

\* The closed form of the mean magnitude of a range is the mean of its members.
MeanIsExact ==
  Answered("mean") /\ problem.min <= problem.max =>
    LET range == problem.min..problem.max
        sum == MapThenSumSet(LAMBDA i : IF i < 0 THEN -i ELSE i, range)
    IN  answer.value[1] * Cardinality(range) = sum * answer.value[2]

\* What puzzle_spec.rs, packed.rs and energy.rs compute of a spec is what its set of
\* values says: encoding, decoding and mean.
SpecsExact == PackRoundTrip /\ MeanIsExact

-----------------------------------------------------------------------------
(* slashing.rs: CouncilRootCalls *)

\* The filter passes a motion exactly when no node of the whole tree is denied,
\* none is deeper than the limit and there are no more of them than the budget:
\* no wrapper hides a call and siblings do not multiply the budget.
FilterExact ==
  Answered("call") =>
    LET nodes == Nodes(problem.call)
    IN  answer = "" <=>
          /\ Cardinality(nodes) <= MaxCalls
          /\ \A n \in nodes : Len(n[1]) <= MaxDepth /\ n[2] \notin DeniedCalls \cup UtilityCalls

-----------------------------------------------------------------------------
(* validator_onboarding.rs: the voter snapshot *)

\* The eligible nominators as a set, by stake and then account.
Ranked(snapshot) ==
  SetToSortSeq({Voter(n.who, snapshot.stake[n.who], Votes(n, snapshot)) :
                  n \in {m \in Range(snapshot.nominators) : Eligible(m, snapshot)}}, Before)

\* Whatever order the map is scanned in, the snapshot is all self votes and then
\* the longest prefix of the ranked nominators that the bounds leave room for;
\* anything left out is reported.
SnapshotIsTopRanked ==
  Answered("voters") =>
    LET own == self_votes(problem.snapshot)
        ranked == Ranked(problem.snapshot)
        Room(k) == /\ k = 0 \/ problem.bounds.count = NoBound \/ Len(own) + k <= problem.bounds.count
                   /\ k = 0 \/ Len(own) + k <= VoterSnapshotPerBlock
                   /\ Fits(own \o SubSeq(ranked, 1, k), Len(own), problem.bounds.size)
        longest == Max({k \in 0..Len(ranked) : Room(k)})
    IN  /\ answer.voters = own \o SubSeq(ranked, 1, longest)
        /\ answer.truncated <=> longest < Len(ranked)

-----------------------------------------------------------------------------
(* genesis_config_presets.rs *)

\* An export ends in a genesis or in a refusal that says why; whatever the
\* operators' input, the assertions behind the gates are never the ones to stop it.
GatesRefuseFirst ==
  Answered("genesis") => answer.ok \/ answer.error # "panic"

\* The identities and session keys of a set of authorities.
Names(authorities) == UNION {{a.stash[2], a.babe, a.grandpa} : a \in authorities}

\* A mainnet genesis keeps the roles apart and carries nothing provisional: no
\* placeholder, no faucet, and no key of the testnet or of the dev keyring.
MainnetRolesApart ==
  Answered("genesis") /\ problem.id = "quip-mainnet" /\ answer.ok =>
    LET g == answer.value
        custody == problem.inputs.allocation.custody
        roles == <<Range(g.foundation), Range(g.approved), {g.spec_builder}, {custody}>>
    IN  /\ \A i, j \in DOMAIN roles : i # j => roles[i] \cap roles[j] = {}
        /\ Range(Endowed(g)) = UNION Range(roles)
        /\ Range(Endowed(g)) \cap reserved_mainnet_accounts = {}
        /\ Names(Range(g.keys)) \cap Names(Sr25519Keyring \cup Range(quip_testnet_authorities)) = {}
        /\ g.faucet_budget = 0

\* In whatever order the tranches of an accepted plan are issued, custody can pay
\* the next one and is never left with dust.
CustodyCoversEveryOrder ==
  Answered("genesis") /\ problem.id = "quip-mainnet" /\ answer.ok =>
    LET allocation == problem.inputs.allocation
        tranches == allocation.terms.tranches
        Left(issued) == allocation.total
                        - MapThenSumSet(LAMBDA i : tranches[i].schedule.locked, issued)
    IN  \A issued \in SUBSET DOMAIN tranches :
          /\ Left(issued) = 0 \/ Left(issued) >= EXISTENTIAL_DEPOSIT
          /\ \A next \in DOMAIN tranches \ issued : tranches[next].schedule.locked <= Left(issued)
-----------------------------------------------------------------------------
(* pallet-xqvm and the mempool's adapter *)

\* What leaves the gates can be launched: they refuse before an assertion traps, and
\* an accepted mainnet keeps its roles apart and can pay its plan.
GenesisLaunchable == GatesRefuseFirst /\ MainnetRolesApart /\ CustodyCoversEveryOrder

\* The block count that bounds the verifier's work is the number of leaders of
\* the part of the program the verifier reaches: the entry, every target and
\* every position after a jump or a loop instruction, each once.  The nesting is
\* the largest surplus of loop openers over closers in any stretch of it.
ShapeCountsLeaders ==
  Answered("shape") =>
    LET code == problem.code
        faults == {i \in DOMAIN code : code[i] = "Fault"}
        reached == 1..(IF faults = {} THEN Len(code) ELSE Min(faults) - 1)
        leaders == {1} \cup {i \in reached : code[i] = "Target"}
                   \cup {i + 1 : i \in {k \in reached : code[k] \in Ends}}
        OpenAt(i, j) == Cardinality({k \in i..j : code[k] = "Range"})
                          - Cardinality({k \in i..j : code[k] = "Next"})
    IN  /\ answer.blocks = Cardinality(leaders)
        /\ answer.loop_depth = Max({0} \cup {OpenAt(p[1], p[2]) : p \in reached \X reached})

\* The steps charged for a submission never exceed the budget charged in advance,
\* count failed runs, and a submission passes exactly when all its runs do and
\* each finds budget left.
TransformWithinBudget ==
  Answered("transform") =>
    LET solutions == problem.solutions
        Cost(n) == MapThenSumSet(LAMBDA i : solutions[i].cost, 1..n)
        n == Len(solutions)
    IN  /\ answer.steps_used <= MaxTransformStepsPerSubmission
        /\ answer.error = "" <=>
             /\ \A i \in 1..n : solutions[i].end = "ok"
             /\ n > 0 => Cost(n) <= MaxTransformStepsPerSubmission
                         /\ Cost(n - 1) < MaxTransformStepsPerSubmission
        /\ answer.error = "" => answer.steps_used = Cost(n)

\* Programs cost what was charged in advance, to verify (ControlFlowShape) and to run.
ProgramsWithinBudget == ShapeCountsLeaders /\ TransformWithinBudget

-----------------------------------------------------------------------------
(* pallet quantum-pow's migrations *)

\* A chain of any version that still has its data reads it back in full: every
\* qblock in the current layout with what it recorded, and the topology of the
\* blocks that recorded none is the default one; the default topology is mineable
\* under the difficulty in force before.  Older chains start empty, nothing of a
\* retired shape is left, and upgrading again changes nothing.
UpgradeKeepsWins ==
  Answered("upgrade") =>
    LET s == problem.store
        Expected(q) == [fields |-> CurrentFields, data |-> q.data,
                        topology |-> IF q.fields < V4Fields THEN s.default ELSE q.topology,
                        device |-> IF q.fields < CurrentFields THEN 0 ELSE q.device]
    IN  /\ s.version >= 2 =>
             /\ answer.qblocks = [b \in DOMAIN s.qblocks |-> Expected(s.qblocks[b])]
             /\ answer.default = s.default
             /\ s.default # Zero =>
                  /\ s.default \in answer.mineable
                  /\ s.version = 2 =>
                       answer.difficulties[s.default] \in
                         (IF s.global_difficulty = {} THEN {DefaultConfig} ELSE s.global_difficulty)
             /\ s.version > 2 =>
                  answer.difficulties = s.difficulties /\ answer.mineable = s.mineable
        /\ s.version < 2 => answer.qblocks = EmptyMap /\ answer.default = Zero
        /\ answer.winner_streak = {} /\ answer.global_difficulty = {}
        /\ s.version < 5 => answer.best_proof = {}
        /\ on_runtime_upgrade(answer) = answer

-----------------------------------------------------------------------------
(* crates/transaction-crypto* and js/quip-signer *)

\* The public key the node derives from a secret URI with Pair::from_string, which
\* follows its junctions.
NodePublic(uri) ==
  LET seed == IF uri.hex THEN uri.phrase ELSE seed_from_entropy(uri.phrase, uri.password).value
  IN  <<"public", IF uri.path = "" THEN seed ELSE <<"derived", seed, uri.path>>>>
NodeAccount(uri) == account_id_from_public_bytes(NodePublic(uri))

\* What the browser signer hands over is accepted by the runtime for the address it
\* was asked for, on both sides of the length at which payloads are hashed and
\* whatever module signs for it; with the repository's module it hands over whenever
\* it holds the account.  The Python signer leaves the hashing to its caller.
TransactionAccepted ==
  /\ Answered("browser") =>
       LET held == {u \in Range(problem.uris) \cup {problem.later} : u.valid /\ u.path = ""}
       IN  /\ answer.ok => verify(answer.value.value, using_encoded(problem.data), problem.address.account)
           /\ /\ Range(problem.uris) \subseteq held
              /\ problem.address.account \in {NodeAccount(u) : u \in held}
              /\ problem.address.checksum /\ problem.data.wellformed /\ problem.module = "quip"
              => answer.ok
  /\ Answered("python") /\ answer.ok =>
       (verify(answer.value.value, using_encoded(problem.data), NodeAccount(problem.uri))
          <=> problem.data.len <= MAX_UNHASHED_PAYLOAD_LEN)

\* No signer signs for an account other than the one the node derives from the same
\* secret: what it cannot follow, a junction above all, it refuses.
ImportedAccountIsNodes ==
  /\ Answered("browser") /\ answer.ok =>
       answer.value.value.public \in {NodePublic(u) : u \in Range(problem.uris) \cup {problem.later}}
  /\ Answered("python") /\ answer.ok => answer.value.value.public = NodePublic(problem.uri)

\* An account and a payload have one envelope: a verified one is, byte for byte, the
\* one the account's seed signs, so a signature cannot be rewritten in its length
\* byte, its Falcon part or its padding.  What follows the envelope is not looked at.
EnvelopeUnique ==
  Answered("envelope") =>
    LET Genuine(seed) == /\ problem.account = account_id_from_public_bytes(keypair_from_seed(seed))
                         /\ problem.bytes.value = sign_payload_from_seed(seed, problem.payload).value
    IN  answer = Ok(TRUE) <=> problem.bytes.extra >= 0 /\ \E seed \in SignerSeeds : Genuine(seed)

\* Signers and runtime agree: what they sign is accepted, for the node's account, and
\* nothing else is.
SignersAgree == TransactionAccepted /\ ImportedAccountIsNodes /\ EnvelopeUnique
=============================================================================
