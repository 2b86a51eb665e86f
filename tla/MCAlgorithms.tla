----------------------------- MODULE MCAlgorithms -----------------------------
(***************************************************************************)
(* Inputs for PureAlgorithms.  Bytes of three bits make values cross them   *)
(* and a MilliValue twelve bits wide, so that whole ranges overflow at 3.   *)
(***************************************************************************)
EXTENDS PureAlgorithms

Vectors(n, S) == [1..n -> S]

PackProblems ==
  {[kind |-> "pack", spec |-> SetSpec(<<-1000, 0, 1000>>), spins |-> v] :
     v \in Vectors(4, {-1000, 0, 1000, 7})}
  \cup {[kind |-> "pack", spec |-> IntegerRange(-2, 2), spins |-> v] :
     v \in Vectors(4, {-2000, -1000, 0, 1000, 2000, 500})}
  \cup {[kind |-> "pack", spec |-> s, spins |-> v] :
     s \in {ContinuousRange(-2048, 1000), IntegerRange(1, 0), IntegerRange(-3, 1), IntegerRange(0, 8),
            SetSpec(<<>>), SetSpec(<<5>>), SetSpec(<<1000, -1000, 1000>>)},
     v \in Vectors(2, {-2048, -1000, -1, 0, 5, 1000, 2047})}

\* One of each pair of opposite vectors: the distance does not tell them apart.
Spins4 == {v \in Vectors(4, {-1, 1}) : v[1] = 1}
SelectProblems ==
  {[kind |-> "diverse", solutions |-> s, target |-> k] : s \in Vectors(4, Spins4), k \in {2, 3}}
  \cup {[kind |-> "anchored", solutions |-> s, best |-> b, target |-> k] :
          s \in Vectors(4, Spins4), b \in {1, 3}, k \in {2, 3}}
  \cup {[kind |-> "diverse", solutions |-> <<(<<1, 1, 1, 1>>)>> \o s, target |-> 4] : s \in Vectors(4, Spins4)}
  \cup {[kind |-> "diverse", solutions |-> s, target |-> k] :
          s \in {<<>>, <<<<1, 1>>>>, <<<<1, 1>>, <<1>>>>, <<<<1, 0>>, <<1, 1>>>>}, k \in 0..2}

MeanProblems == {[kind |-> "mean", min |-> a, max |-> b] : a, b \in -6..6}

Topology(nodes, edges, h, j, spin) ==
  [nodes |-> nodes, edges |-> edges, allowed_h |-> h, allowed_j |-> j, allowed_spin |-> spin]
Binary == SetSpec(<<-1000, 1000>>)

Hashed ==
  {Topology(n, e, h, Binary, s) :
     n \in {<<1, 2, 3>>, <<3, 1, 2>>, <<1, 2, 4>>},
     e \in {<<<<1, 2>>, <<2, 3>>>>, <<<<3, 2>>, <<1, 2>>>>, <<<<1, 2>>, <<1, 3>>>>, <<<<1, 2>>>>},
     h \in {SetSpec(<<0, 1000>>), SetSpec(<<1000, 0>>), ContinuousRange(0, 1000), IntegerRange(0, 1000)},
     s \in {Binary, SetSpec(<<1000, -1000>>)}}
HashProblems == {[kind |-> "hash", one |-> a, other |-> b] : a, b \in Hashed}

Graphs3 == {<<<<2, 3, 1>>, <<<<1, 3>>, <<2, 1>>>>>>, <<<<1, 2, 3>>, <<<<3, 2>>>>>>,
            <<<<1, 2, 3>>, <<<<3, 4>>>>>>, <<<<1, 2, 2>>, <<<<1, 2>>>>>>, <<<<1>>, <<>>>>}
Payloads == {<<<<b>>, <<c>>>> : b, c \in {0, 3, 5, 6, 7}} \cup
            {<<<<b, c>>>> : b, c \in 0..7} \cup {<<<<0, 0>>, <<2, 0>>>>, <<<<1>>, <<1, 0>>>>}
Continuous == {<<to_be_bytes(v[1]) \o to_be_bytes(v[2]) \o to_be_bytes(v[3])>> :
                 v \in Vectors(3, {-1000, -1, 0, 1, 1000, 1001})}
Proofs(graphs, h, spins, payloads) ==
  {[kind |-> "prove", topology |-> Topology(g[1], g[2], s[1], Binary, s[2]), draws |-> d,
    packed |-> p, difficulty |-> [max_energy |-> e, min_solutions |-> 2]] :
     g \in graphs, s \in h \X spins, d \in {<<0, 1, 2, 3, 4>>, <<5, 4, 7, 0, 1>>},
     p \in payloads, e \in {0, -1500}}
ProveProblems ==
  Proofs(Graphs3, {SetSpec(<<1000, 0, -1000>>), IntegerRange(-2, 3)},
         {Binary, IntegerRange(-1, 1)}, Payloads)
  \cup Proofs({<<<<2, 3, 1>>, <<<<1, 3>>, <<2, 1>>>>>>}, {ContinuousRange(-1, 1)},
              {ContinuousRange(-1000, 1000)}, Continuous)

-----------------------------------------------------------------------------
(* Motions of up to four levels and seven calls, against a depth of two and a budget of four. *)

Leaves == {Call(n, <<>>) : n \in {"System.remark", "System.set_storage", "Utility.unknown"}}
Wrap(children) ==
  {Call("Proxy.proxy", <<c>>) : c \in children}
  \cup {Call(n, <<c, d>>) : n \in {"Utility.batch", "Utility.if_else"}, c, d \in children}
Level1 == Leaves \cup {Call("Utility.batch", <<>>)} \cup Wrap(Leaves)
Level2 == Level1 \cup Wrap(Level1)
Level3 == Level2 \cup {Call("Utility.force_batch", <<c, d>>) : c \in Level2, d \in Leaves}
          \cup {Call(n, <<c>>) : n \in SingleWrappers \cup Batches, c \in Level1}
CallProblems == {[kind |-> "call", call |-> c] : c \in Level3}

-----------------------------------------------------------------------------
(* Two candidates, 1 without stake of its own; nominators 3 to 6 in every order of the map. *)

Nominations == (3 :> <<1, 2>>) @@ (4 :> <<2>>) @@ (5 :> <<2, 9, 1>>) @@ (6 :> <<9>>)
VoterProblems ==
  {[kind |-> "voters",
    snapshot |-> [targets |-> <<1, 2>>, stake |-> (1 :> 0) @@ (2 :> 1) @@ (6 :> 2) @@ stakes,
                  nominators |-> [i \in DOMAIN order |->
                    [who |-> order[i], targets |-> Nominations[order[i]],
                     suppressed |-> order[i] = asleep]]],
    bounds |-> [count |-> count, size |-> size]] :
     order \in SetToSeqs(3..6), stakes \in [3..5 -> 0..2], asleep \in {0, 4},
     count \in {0, 2, 3, NoBound}, size \in {NoBound, 0, 5, 8}}

-----------------------------------------------------------------------------
(* Operator input: a complete mainnet form and what may be wrong with each field. *)

A(names) == Accounts(names)
GoodCouncil == A(<<"c1", "c2">>)
Validator(stash, keys) == [stash |-> Account(stash), keys |-> keys]
GoodValidators == <<Validator("v1", <<"b1", "g1">>), Validator("v2", <<"b2", "g2">>),
                    Validator("v3", <<"b3", "g3">>)>>
Tranche(recipient, at, start, locked, rate) ==
  [recipient |-> Account(recipient), issue_at |-> at,
   schedule |-> [starting_block |-> start, locked |-> locked, per_block |-> rate]]
GoodTranches == <<Tranche("r1", 1, 2, 6, 2), Tranche("r2", 1, 1, 4, 1), Tranche("r1", 3, 3, 5, 5)>>
Plans ==
  {[total |-> t, custody |-> Account(c), recipients |-> r, terms |-> [cadence_blocks |-> 2, tranches |-> p]] :
     t \in {TBD, 1, 14, 15, 16, 17, 18}, c \in {"cust", "v1", "r1"},
     r \in {TBD, A(<<"r1", "r2">>), A(<<"r1", "r2", "r1">>), A(<<"r1">>)},
     p \in {<<>>, GoodTranches, Append(GoodTranches, Tranche("r1", 5, 5, 4, 1)),
            <<Tranche("r1", 1, 2, 6, 2), Tranche("r1", 2, 2, 6, 2), Tranche("r2", 1, 1, 4, 1)>>,
            <<Tranche("r1", 1, 1, 13, 1), Tranche("r2", 1, 9, 4, 1)>>,
            <<Tranche("r1", 0, 1, 12, 1), Tranche("r2", 1, 1, 3, 1)>>}}
  \cup {mainnet_inputs.allocation}
GoodPlan == [total |-> 17, custody |-> Account("cust"), recipients |-> A(<<"r1", "r2">>),
             terms |-> [cadence_blocks |-> 2, tranches |-> GoodTranches]]
Forms ==
  [council : {GoodCouncil, A(<<"c1", "c1">>), A(<<"c1", "v1">>), <<mainnet_inputs.council[1], Account("c2")>>},
   council_placeholders : {<<>>, <<COUNCIL_LABELS[1]>>},
   validators : {GoodValidators,
                 [GoodValidators EXCEPT ![3] = Validator("v1", <<"b3", "g3">>)],
                 [GoodValidators EXCEPT ![3] = Validator("v3", <<"b3", "g1">>)],
                 [GoodValidators EXCEPT ![3] = Validator("v3", TBD)],
                 [GoodValidators EXCEPT ![3] = Validator("v3", <<"b3", "op1">>)],
                 [GoodValidators EXCEPT ![3] = Validator("Eve", <<"b3", "g3">>)]},
   spec_builder : {Account("sb"), Account("c1"), mainnet_inputs.spec_builder},
   validator_float : {TBD, 0, 2, 40}, council_float : {1, 2, 10}, spec_builder_float : {2},
   allocation : {GoodPlan, [GoodPlan EXCEPT !.total = 10], [GoodPlan EXCEPT !.custody = custody_placeholder],
                 [GoodPlan EXCEPT !.total = 50]}]
PlanForms == {[council |-> GoodCouncil, council_placeholders |-> <<>>, validators |-> GoodValidators,
               spec_builder |-> Account("sb"), validator_float |-> 2, council_float |-> 2,
               spec_builder_float |-> 3, allocation |-> p] : p \in Plans}
Councils == {TBD, A(<<"c1", "c2", "c3">>), A(<<"c1", "c2", "c1">>), A(<<"c1", "op2", "c3">>),
             <<mainnet_inputs.council[1], Account("c2"), Account("c3")>>}
GenesisProblems ==
  {[kind |-> "genesis", id |-> "quip-mainnet", inputs |-> f, council |-> TBD] :
     f \in Forms \cup PlanForms \cup {mainnet_inputs}}
  \cup {[kind |-> "genesis", id |-> id, inputs |-> mainnet_inputs, council |-> c] :
          id \in preset_names \cup {"unknown"}, c \in Councils}

-----------------------------------------------------------------------------
(* Programs of up to five instructions; submissions of up to three solutions, budget six. *)

ShapeProblems ==
  {[kind |-> "shape", code |-> c] : c \in UNION {Vectors(n, Instructions) : n \in 0..5}}
Runs == {[cost |-> c, end |-> "ok"] : c \in {1, 2, 3, 4, 6, 7}}
        \cup {[cost |-> c, end |-> e] : c \in {2, 6}, e \in {"memory", "fault", "output"}}
TransformProblems ==
  {[kind |-> "transform", solutions |-> s] : s \in UNION {Vectors(n, Runs) : n \in 0..3}}

-----------------------------------------------------------------------------
(* What a runtime of each storage version can have left. *)

QBlocksOf(version) ==
  LET fields == IF version < 4 THEN 7 ELSE IF version = 4 THEN 8 ELSE 9
      Entry == [fields : {fields}, data : {"a", "b"},
                topology : IF fields = 7 THEN {"none"} ELSE {"t1", "t2"},
                device : IF fields = 9 THEN {0, 5} ELSE {0}]
  IN  UNION {[D -> Entry] : D \in SUBSET {1, 2}}
StoresOf(version) ==
  {[version |-> version, default |-> d,
    mineable |-> IF version < 3 \/ d = "zero" THEN {} ELSE {d},
    difficulties |-> IF version < 3 \/ d = "zero" THEN EmptyMap ELSE [t \in {d} |-> 7],
    global_difficulty |-> IF version < 3 THEN g ELSE {},
    qblocks |-> q, best_proof |-> b, winner_streak |-> IF version < 6 THEN w ELSE {}] :
     d \in {"zero", "t1"}, g \in {{}, {4}}, q \in QBlocksOf(version),
     b \in {{}, {"stale"}}, w \in {{}, {"streak"}}}
UpgradeProblems ==
  {[kind |-> "upgrade", store |-> s] : s \in UNION {StoresOf(v) : v \in 1..6}}

-----------------------------------------------------------------------------
(* Secrets, addresses, payloads at the hashing limit, and every tail of three bytes. *)

Uris == [hex : BOOLEAN, phrase : {<<"one">>, <<"two">>}, valid : BOOLEAN, path : {"", "//Alice"},
         password : {"", "pw"}]
Addresses ==
  {[checksum |-> c, account |-> a] : c \in BOOLEAN, a \in {NodeAccount(u) : u \in {v \in Uris : v.valid}}}
  \cup {[checksum |-> TRUE, account |-> Bytes(33, <<"id", <<"one">>>>)]}
Data == {Bytes(n, <<"payload", "p">>) : n \in {0, 255, 256, 257}}
        \cup {[wellformed |-> FALSE, len |-> 0, value |-> <<"payload", "x">>]}
One == [hex |-> FALSE, phrase |-> <<"one">>, valid |-> TRUE, path |-> "", password |-> ""]
BrowserProblems ==
  {[kind |-> "browser", uris |-> u, later |-> l, module |-> m, address |-> a, data |-> d] :
     u \in {<<>>, <<One>>, <<[One EXCEPT !.path = "//Alice"]>>, <<One, [One EXCEPT !.hex = TRUE]>>},
     l \in Uris, m \in {"quip", "other seed", "other message", "padding", "short"},
     a \in Addresses, d \in Data}
PythonProblems == {[kind |-> "python", uri |-> u, data |-> d] : u \in Uris, d \in Data}

MCSignerSeeds == {Bytes(32, <<"one">>), Bytes(32, <<"two">>)}
Signed(seed, payload) == sign_payload_from_seed(seed, payload).value
EnvelopeProblems ==
  {[kind |-> "envelope", payload |-> p, account |-> a,
    bytes |-> [wellformed |-> TRUE, extra |-> x,
               value |-> [public |-> keypair_from_seed(k),
                          signature |-> [by |-> Signed(s, q).signature.by, delta |-> d, tail |-> t]]]] :
     p, q \in {Bytes(n, <<"payload", "p">>) : n \in {0, 7, 256}}, x \in -1..1,
     k, s \in MCSignerSeeds, d \in 0..MaxDelta, t \in Vectors(TailLen, {0, 1}),
     a \in {Bytes(n, account_id_from_public_bytes(keypair_from_seed(k2)).value) :
              k2 \in MCSignerSeeds, n \in {32, 31}}}

MCCouncilLabels == <<"Rick", "Colton">>
MCValidatorLabels == <<"One", "Two", "Three">>
MCProblems == <<PackProblems, SelectProblems, MeanProblems, HashProblems, ProveProblems,
                CallProblems, VoterProblems, GenesisProblems,
                ShapeProblems, TransformProblems, UpgradeProblems,
                BrowserProblems, PythonProblems, EnvelopeProblems>>
=============================================================================
