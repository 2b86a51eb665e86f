----------------------------- MODULE GenesisGate -----------------------------
(***************************************************************************)
(* What stands between operator input and a genesis block                  *)
(* (runtime/src/genesis_config_presets.rs and mainnet_allocation.rs): the  *)
(* presets, the mainnet and relaunch gates, and the assertions of          *)
(* network_genesis.  A gate refuses with Err; a failed assertion is        *)
(* Err("panic"), an opaque trap for whoever exports the preset.            *)
(*                                                                         *)
(* An account is a pair <<kind, name>>; placeholders are the pairs hashed   *)
(* by mainnet_placeholder, so that a real account never equals one.  Seats  *)
(* and amounts are scaled; u128 and u32 are MaxBalance and MaxBlockNumber.  *)
(***************************************************************************)
EXTENDS Integers, Sequences, SequencesExt, FiniteSets, FiniteSetsExt, Functions, Results

CONSTANTS COUNCIL_LABELS, VALIDATOR_LABELS,   \* six and five
          VALIDATOR_BOND, EXISTENTIAL_DEPOSIT, TEST_CURRENCY_ENDOWMENT,
          MinVestedTransfer, MAX_VESTING_SCHEDULES, MaxBalance, MaxBlockNumber,
          TBD  \* an input that is not resolved yet

ASSUME GenesisAssumption ==
  /\ 0 < EXISTENTIAL_DEPOSIT /\ EXISTENTIAL_DEPOSIT <= MinVestedTransfer
  /\ VALIDATOR_BOND < MaxBalance /\ MAX_VESTING_SCHEDULES \in Nat \ {0}

Account(name) == <<"account", name>>
mainnet_placeholder(role, label) == <<role, label>>
custody_placeholder == mainnet_placeholder("custody", "Allocation")
ReviveAccount == <<"pallet", "revive">>

reserved_mainnet_accounts ==
  {mainnet_placeholder("council", l) : l \in Range(COUNCIL_LABELS)}
  \cup {mainnet_placeholder("validator", l) : l \in Range(VALIDATOR_LABELS)}
  \cup {mainnet_placeholder("spec-builder", "Ising"), custody_placeholder}

Authority(name) == [stash |-> Account(name), babe |-> name, grandpa |-> name]
Stashes(authorities) == [i \in DOMAIN authorities |-> authorities[i].stash]
Endow(accounts, amount) == [i \in DOMAIN accounts |-> [who |-> accounts[i], amount |-> amount]]
Total(amounts) == FoldLeft(+, 0, amounts)

\* Council seats must not double as validator operators.
assert_council_disjoint(council, operators, require) ==
  require => Range(council) \cap Range(operators) = {}

-----------------------------------------------------------------------------
(* network_genesis: its assertions, and the genesis they admit. *)

Endowed(funding) == [i \in DOMAIN funding.balances |-> funding.balances[i].who]

network_genesis(authorities, funding, roles, minimum_validator_count) ==
  LET approved == Stashes(authorities)
      admitted ==
        /\ Len(authorities) \in 1..32
        /\ minimum_validator_count \in 1..Len(authorities)
        /\ IsInjective(approved)
        /\ \A who \in Range(approved) : \E b \in Range(funding.balances) :
              b.who = who /\ b.amount > VALIDATOR_BOND
        /\ IsInjective(Endowed(funding))
        /\ Len(roles.foundation_members) \in 1..32
        /\ IsInjective(roles.foundation_members)
        /\ assert_council_disjoint(roles.foundation_members, approved, roles.require_council_disjoint)
  IN  IF ~admitted THEN Err("panic")
      ELSE Ok([foundation |-> roles.foundation_members, approved |-> approved,
               minimum_validator_count |-> minimum_validator_count,
               keys |-> authorities, balances |-> funding.balances,
               spec_builder |-> roles.ising_spec_builder,
               faucet |-> funding.faucet, faucet_budget |-> funding.faucet_budget])

\* Every endowed account gets the test amount and the faucet is open.
testnet_genesis(authorities, endowed, roles, minimum_validator_count) ==
  network_genesis(authorities,
    [balances |-> Endow(endowed, TEST_CURRENCY_ENDOWMENT),
     faucet |-> [state |-> "Enabled", authority |-> roles.faucet_authority], faucet_budget |-> 1],
    roles, minimum_validator_count)

-----------------------------------------------------------------------------
(* The mainnet gate *)

resolved_float(value) ==
  IF value = TBD THEN Err("float is TBD")
  ELSE IF value = 0 \/ value < EXISTENTIAL_DEPOSIT THEN Err("unusable float")
  ELSE Ok(value)

validate_session_keys(authorities) ==
  /\ IsInjective([i \in DOMAIN authorities |-> authorities[i].babe])
  /\ IsInjective([i \in DOMAIN authorities |-> authorities[i].grandpa])

quip_testnet_authorities == <<Authority("op1"), Authority("op2"), Authority("op3")>>
Sr25519Keyring == {Authority(n) : n \in {"Alice", "Bob", "Charlie", "Dave", "Eve"}}

\* No validator reuses an identity of the live testnet or of the dev keyring.
validate_mainnet_network_keys(authorities) ==
  \A f \in Range(quip_testnet_authorities) \cup Sr25519Keyring, a \in Range(authorities) :
    a.stash # f.stash /\ a.babe # f.babe /\ a.grandpa # f.grandpa

\* MainnetAllocation::validate, one tranche: the loop body with `issued` so far.
TrancheError(tranche, issued, terms, recipients) ==
  LET s == tranche.schedule
      duration == ((s.locked - 1) \div s.per_block) + 1
      known == tranche.recipient \in DOMAIN issued
  IN  IF tranche.recipient \notin Range(recipients) THEN "unlisted recipient"
      ELSE IF \/ tranche.issue_at = 0 \/ s.starting_block < tranche.issue_at
              \/ s.locked = 0 \/ s.per_block = 0 \/ s.locked < MinVestedTransfer
      THEN "unusable amount, rate or start"
      ELSE IF duration > MaxBlockNumber \/ s.starting_block + duration > MaxBlockNumber
      THEN "end block overflows"
      ELSE IF known /\ issued[tranche.recipient].at + terms.cadence_blocks # tranche.issue_at
      THEN "inconsistent cadence"
      ELSE IF known /\ issued[tranche.recipient].count + 1 > MAX_VESTING_SCHEDULES
      THEN "schedule cap"
      ELSE ""

RecordTranche(acc, tranche, terms, recipients) ==
  LET error == TrancheError(tranche, acc.issued, terms, recipients)
      count == IF tranche.recipient \in DOMAIN acc.issued
               THEN acc.issued[tranche.recipient].count + 1 ELSE 1
  IN  IF acc.error # "" THEN acc
      ELSE IF error # "" THEN [acc EXCEPT !.error = error]
      ELSE [error |-> "", planned |-> acc.planned + tranche.schedule.locked,
            issued |-> [r \in DOMAIN acc.issued \cup {tranche.recipient} |->
                          IF r = tranche.recipient THEN [at |-> tranche.issue_at, count |-> count]
                          ELSE acc.issued[r]]]

\* Mutant: any residual will do.
ResidualError_Dust(total, planned) ==
  IF planned > total THEN "tranches exceed custody funding" ELSE ""

ResidualError(total, planned) ==
  IF planned > total THEN "tranches exceed custody funding"
  ELSE IF total # planned /\ total - planned < EXISTENTIAL_DEPOSIT THEN "dust custody residual"
  ELSE ""

validate(allocation, operational) ==
  LET recipients == allocation.recipients
      terms == allocation.terms
      plan == FoldLeft(LAMBDA acc, t : RecordTranche(acc, t, terms, recipients),
                       [error |-> "", planned |-> 0, issued |-> [r \in {} |-> 0]], terms.tranches)
      residual == ResidualError(allocation.total, plan.planned)
  IN  IF allocation.total = TBD THEN Err("total is TBD")
      ELSE IF allocation.total < EXISTENTIAL_DEPOSIT THEN Err("total must fund custody")
      ELSE IF allocation.custody \in reserved_mainnet_accounts THEN Err("custody placeholder")
      ELSE IF allocation.custody \in Range(operational) \cup {ReviveAccount}
      THEN Err("custody must be dedicated")
      ELSE IF recipients = TBD THEN Err("recipients are TBD")
      ELSE IF \/ recipients = <<>> \/ ~IsInjective(recipients)
              \/ Range(recipients) \cap (reserved_mainnet_accounts
                                         \cup {allocation.custody, ReviveAccount}) # {}
      THEN Err("recipients must be distinct resolved accounts")
      ELSE IF terms = TBD THEN Err("terms are TBD")
      ELSE IF terms.cadence_blocks = 0 \/ terms.tranches = <<>> THEN Err("cadence and tranches")
      ELSE IF plan.error # "" THEN Err(plan.error)
      ELSE IF DOMAIN plan.issued # Range(recipients) THEN Err("plan omits a recipient")
      ELSE IF residual # "" THEN Err(residual)
      ELSE Ok(allocation.total)

Seats == Len(COUNCIL_LABELS) + Len(VALIDATOR_LABELS) + 2

validate_mainnet_funding(funding, validators, council, builder, custody, allocation_total) ==
  LET expected == Range(validators) \cup Range(council) \cup {builder, custody}
      balances == Range(funding.balances)
  IN  IF \/ Cardinality(expected) # Seats \/ ~IsInjective(Endowed(funding))
         \/ Range(Endowed(funding)) # expected
      THEN Err("endowments must be exactly the seats")
      ELSE IF \E b \in balances : b.who = custody /\ b.amount # allocation_total
      THEN Err("custody endowment")
      ELSE IF Range(Endowed(funding)) \cap reserved_mainnet_accounts # {}
      THEN Err("reserved placeholder account in endowments")
      ELSE IF \E b \in balances : b.amount = TEST_CURRENCY_ENDOWMENT
      THEN Err("testnet-default endowment")
      ELSE IF \E b \in balances : \/ b.amount < EXISTENTIAL_DEPOSIT
                                  \/ b.who \in Range(validators) /\ b.amount <= VALIDATOR_BOND
      THEN Err("unusable float or endowment")
      ELSE IF EXISTENTIAL_DEPOSIT + Total([i \in DOMAIN funding.balances |->
                                             funding.balances[i].amount]) > MaxBalance
      THEN Err("total issuance overflows")
      ELSE IF funding.faucet # [state |-> "PermanentlyDisabled", authority |-> TBD]
              \/ funding.faucet_budget # 0
      THEN Err("faucet")
      ELSE Ok(0)

Dedicated(builder, council, validators) == builder \notin Range(council) \cup Range(validators)

\* The seats, before any money: placeholders, counts, disjointness.
SeatError(inputs, validators) ==
  LET actual == {l \in Range(COUNCIL_LABELS) : mainnet_placeholder("council", l) \in Range(inputs.council)}
      declared == Range(inputs.council_placeholders)
  IN  IF actual # declared \/ ~IsInjective(inputs.council_placeholders)
      THEN "placeholders do not match"
      ELSE IF declared # {} THEN "unresolved council placeholders"
      ELSE IF \/ Len(inputs.council) # Len(COUNCIL_LABELS) \/ ~IsInjective(inputs.council)
              \/ Len(validators) # Len(VALIDATOR_LABELS) \/ ~IsInjective(validators)
      THEN "seats"
      ELSE IF ~assert_council_disjoint(inputs.council, validators, TRUE) THEN "council is operator"
      ELSE IF ~Dedicated(inputs.spec_builder, inputs.council, validators)
      THEN "spec builder must be dedicated"
      ELSE IF (Range(validators) \cup Range(inputs.council) \cup {inputs.spec_builder})
              \cap reserved_mainnet_accounts # {}
      THEN "unresolved placeholder account"
      ELSE ""

mainnet_genesis(inputs) ==
  LET validators == [i \in DOMAIN inputs.validators |-> inputs.validators[i].stash]
      seats == SeatError(inputs, validators)
      authorities == [i \in DOMAIN inputs.validators |->
                        [stash |-> validators[i], babe |-> inputs.validators[i].keys[1],
                         grandpa |-> inputs.validators[i].keys[2]]]
      floats == Collect(<<resolved_float(inputs.validator_float), resolved_float(inputs.council_float),
                          resolved_float(inputs.spec_builder_float)>>)
      total == validate(inputs.allocation, validators \o inputs.council \o <<inputs.spec_builder>>)
      funding == [balances |-> Endow(validators, VALIDATOR_BOND + floats.value[1])
                               \o Endow(inputs.council, floats.value[2])
                               \o Endow(<<inputs.spec_builder>>, floats.value[3])
                               \o Endow(<<inputs.allocation.custody>>, total.value),
                  faucet |-> [state |-> "PermanentlyDisabled", authority |-> TBD],
                  faucet_budget |-> 0]
      funded == validate_mainnet_funding(funding, validators, inputs.council, inputs.spec_builder,
                                         inputs.allocation.custody, total.value)
  IN  IF seats # "" THEN Err(seats)
      ELSE IF \E i \in DOMAIN inputs.validators : inputs.validators[i].keys = TBD
      THEN Err("session keys are TBD")
      ELSE IF ~validate_session_keys(authorities) THEN Err("duplicate session key")
      ELSE IF ~floats.ok THEN floats
      ELSE IF VALIDATOR_BOND + floats.value[1] > MaxBalance THEN Err("bond plus float overflows")
      ELSE IF ~total.ok THEN total
      ELSE IF ~funded.ok THEN funded
      ELSE IF ~validate_mainnet_network_keys(authorities) THEN Err("reused identity")
      ELSE network_genesis(authorities, funding,
             [foundation_members |-> inputs.council, faucet_authority |-> inputs.spec_builder,
              ising_spec_builder |-> inputs.spec_builder, require_council_disjoint |-> TRUE], 3)

\* The inputs committed in the repository: everything open, placeholders in the seats.
mainnet_inputs ==
  [council |-> [i \in DOMAIN COUNCIL_LABELS |-> mainnet_placeholder("council", COUNCIL_LABELS[i])],
   council_placeholders |-> COUNCIL_LABELS,
   validators |-> [i \in DOMAIN VALIDATOR_LABELS |->
      [stash |-> mainnet_placeholder("validator", VALIDATOR_LABELS[i]), keys |-> TBD]],
   spec_builder |-> mainnet_placeholder("spec-builder", "Ising"),
   validator_float |-> EXISTENTIAL_DEPOSIT, council_float |-> EXISTENTIAL_DEPOSIT,
   spec_builder_float |-> EXISTENTIAL_DEPOSIT,
   allocation |-> [total |-> TBD, custody |-> custody_placeholder, recipients |-> TBD, terms |-> TBD]]

-----------------------------------------------------------------------------
(* The other presets *)

development_roles ==
  [foundation_members |-> <<Account("Alice")>>, faucet_authority |-> Account("Alice"),
   ising_spec_builder |-> Account("Alice"), require_council_disjoint |-> FALSE]

Accounts(names) == [i \in DOMAIN names |-> Account(names[i])]
Keyring == Accounts(<<"Alice", "Bob", "Charlie", "Dave", "Eve">>)

development_config_genesis ==
  testnet_genesis(<<Authority("Alice")>>, Accounts(<<"Alice", "Bob", "AliceStash", "BobStash">>),
                  development_roles, 1)

local_config_genesis ==
  testnet_genesis(<<Authority("Alice"), Authority("Bob")>>, Keyring, development_roles, 1)

local_three_validator_config_genesis ==
  testnet_genesis(<<Authority("Alice"), Authority("Bob"), Authority("Charlie")>>, Keyring,
                  development_roles, 1)

quip_testnet_config_genesis ==
  LET accounts == Stashes(quip_testnet_authorities)
  IN  testnet_genesis(quip_testnet_authorities, accounts,
        [foundation_members |-> accounts, faucet_authority |-> accounts[1],
         ising_spec_builder |-> accounts[1], require_council_disjoint |-> FALSE], 3)

rehearsal_config_genesis ==
  LET seeds == <<"Alice", "Bob", "Charlie", "Dave">>
  IN  testnet_genesis([i \in DOMAIN seeds |-> Authority(seeds[i])], Accounts(Append(seeds, "Eve")),
        [foundation_members |-> Accounts(SubSeq(seeds, 1, 3)), faucet_authority |-> Account("Eve"),
         ising_spec_builder |-> Account("Alice"), require_council_disjoint |-> FALSE], 4)

testnet_relaunch_genesis(council) ==
  LET operators == Stashes(quip_testnet_authorities)
  IN  IF council = TBD THEN Err("council is TBD")
      ELSE IF ~IsInjective(council) THEN Err("three distinct seats")
      ELSE IF Range(council) \cap reserved_mainnet_accounts # {} THEN Err("reserved placeholder")
      ELSE IF ~validate_session_keys(quip_testnet_authorities) THEN Err("duplicate session key")
      ELSE IF ~assert_council_disjoint(council, operators, TRUE) THEN Err("council is operator")
      ELSE network_genesis(quip_testnet_authorities,
             [balances |-> Endow(operators \o council, TEST_CURRENCY_ENDOWMENT),
              faucet |-> [state |-> "Enabled", authority |-> operators[1]], faucet_budget |-> 1],
             [foundation_members |-> council, faucet_authority |-> operators[1],
              ising_spec_builder |-> operators[1], require_council_disjoint |-> TRUE], 3)

preset_names ==
  {"development", "local_testnet", "local_three_validator", "quip_testnet", "quip-mainnet",
   "quip-testnet-relaunch", "validator_rehearsal"}

\* get_preset; the refusals of the two gated presets carry their reason to the caller.
get_preset(id, inputs, council) ==
  CASE id = "development" -> development_config_genesis
    [] id = "local_testnet" -> local_config_genesis
    [] id = "local_three_validator" -> local_three_validator_config_genesis
    [] id = "quip_testnet" -> quip_testnet_config_genesis
    [] id = "quip-mainnet" -> mainnet_genesis(inputs)
    [] id = "quip-testnet-relaunch" -> testnet_relaunch_genesis(council)
    [] id = "validator_rehearsal" -> rehearsal_config_genesis
    [] OTHER -> Err("no such preset")
=============================================================================
