---------------------------- MODULE MinerRegistry ----------------------------
(***************************************************************************)
(* Pallet miner-registry: an account files a descriptor of its node        *)
(* against a deposit that follows its size, and declares which qblock it   *)
(* is working on.  Source: pallets/miner-registry/src/{lib,migrations}.rs. *)
(*                                                                         *)
(* A descriptor is reduced to the lengths of its byte strings, which is    *)
(* all that validation and deposit look at.  Left out: payload hashes,     *)
(* update blocks, weights.                                                 *)
(***************************************************************************)
EXTENDS Integers, FiniteSets, SequencesExt

CONSTANTS
  Accounts,               \* bound: a set of numbers, the order of account ids
  Inputs,                 \* bound: the descriptors accounts may file
  Kinds,                  \* MinerKind
  DescriptorDepositBase, DescriptorDepositPerByte,
  Funds,                  \* what an account starts with, existential deposit aside
  MaxPage,                \* 1000: the cap on the page size of queries
  InitialVersions,        \* storage versions of the chains the model starts from
  MaxQBlocks,             \* bound on the number of qblocks
  MaxCount,               \* bound on a participant count (u32 in the code)
  None

ASSUME RegistryAssumption ==
  /\ Accounts \subseteq Nat /\ IsFiniteSet(Accounts)
  /\ MaxQBlocks \in Nat /\ Funds \in Nat /\ MaxPage \in Nat
  /\ DescriptorDepositBase \in Nat /\ DescriptorDepositPerByte \in Nat
  /\ InitialVersions \subseteq {1, 2}
  /\ None \notin Nat /\ None \notin [layout : {1, 2}, deposit : Nat]
  /\ None \notin [qblock_id : Nat, kind : Kinds]

VARIABLES
  version,                     \* on-chain storage version
  NodeDescriptors,             \* [Accounts -> stored descriptor or None]
  LatestParticipation,         \* [Accounts -> record or None]
  ParticipantsByQBlock,        \* [qblock id -> [Accounts -> record or None]]
  ParticipantCountByQBlock,    \* [qblock id -> Nat]
  reserved,                    \* [Accounts -> balance reserved by this pallet]
  QBlockCount                  \* of quantum-pow

VARIABLES                      \* history, read by no action
  unread,                      \* accounts whose row the upgrade removed without decoding it
  lastOldRound                 \* the candidate qblock at the upgrade, 0 without one

participation == <<LatestParticipation, ParticipantsByQBlock, ParticipantCountByQBlock>>
history == <<unread, lastOldRound>>
vars == <<version, NodeDescriptors, participation, reserved, QBlockCount, history>>

QBlockIds == 1..(MaxQBlocks + 1)
candidate_qblock_id == QBlockCount + 1

-----------------------------------------------------------------------------
(* Descriptors.  An input is [identity, port, miners, system_info, runtime]: *)
(* identity holds the lengths of node id, name, host and endpoints, miners   *)
(* one sequence of lengths each, and the two surveys are None or lengths.    *)

Total(lengths) == FoldSeq(+, 0, lengths)
NoneEmpty(lengths) == 0 \notin Range(lengths)

validate_node_identity(input) == NoneEmpty(input.identity) /\ input.port # 0
validate_miners(input) ==
  input.miners # << >> /\ \A i \in DOMAIN input.miners : NoneEmpty(input.miners[i])
validate_system_info(info) ==
  NoneEmpty(info.required) /\ NoneEmpty(info.gpus) /\ \A u \in info.utilization : u <= 100
validate_runtime(runtime) == NoneEmpty(runtime)

validate_and_store_descriptor(input) ==
  /\ validate_node_identity(input) /\ validate_miners(input)
  /\ input.system_info # None => validate_system_info(input.system_info)
  /\ input.runtime # None => validate_runtime(input.runtime)

descriptor_payload_len(input) ==
  Total(input.identity) + Total([i \in DOMAIN input.miners |-> Total(input.miners[i])])
system_info_payload_len(info) == Total(info.required) + Total(info.optional) + Total(info.gpus)

payload_len(input) ==
  descriptor_payload_len(input)
    + (IF input.system_info = None THEN 0 ELSE system_info_payload_len(input.system_info))
    + (IF input.runtime = None THEN 0 ELSE Total(input.runtime))

descriptor_deposit(input) == DescriptorDepositBase + DescriptorDepositPerByte * payload_len(input)

ASSUME DepositAssumption == \A input \in Inputs : descriptor_deposit(input) \in Nat

DepositOf(who) == IF NodeDescriptors[who] = None THEN 0 ELSE NodeDescriptors[who].deposit

\* replace_descriptor reserves or returns the difference; reserving may fail.
AdjustReserve(who, next) ==
  /\ next > DepositOf(who) => reserved[who] + next - DepositOf(who) <= Funds
  /\ reserved' = [reserved EXCEPT ![who] = @ + next - DepositOf(who)]

set_descriptor(who, input) ==
  /\ validate_and_store_descriptor(input)
  /\ AdjustReserve(who, descriptor_deposit(input))
  /\ NodeDescriptors' = [NodeDescriptors EXCEPT ![who] =
                           [layout |-> 2, deposit |-> descriptor_deposit(input)]]
  /\ UNCHANGED <<version, participation, QBlockCount, history>>

\* Mutant: the latest participation outlives the descriptor.
clear_descriptor_KeepsLatest(who) ==
  /\ NodeDescriptors[who] # None
  /\ reserved' = [reserved EXCEPT ![who] = @ - DepositOf(who)]
  /\ NodeDescriptors' = [NodeDescriptors EXCEPT ![who] = None]
  /\ UNCHANGED <<version, participation, QBlockCount, history>>

clear_descriptor(who) ==
  /\ NodeDescriptors[who] # None
  /\ reserved' = [reserved EXCEPT ![who] = @ - DepositOf(who)]
  /\ NodeDescriptors' = [NodeDescriptors EXCEPT ![who] = None]
  /\ LatestParticipation' = [LatestParticipation EXCEPT ![who] = None]
  /\ UNCHANGED <<version, ParticipantsByQBlock, ParticipantCountByQBlock, QBlockCount,
                 history>>

-----------------------------------------------------------------------------
(* Participation. *)

\* Mutant: the last qblock can still be declared.
IsCandidate_OrLast(qblock) == qblock \in {QBlockCount, candidate_qblock_id}
IsCandidate(qblock) == qblock = candidate_qblock_id

participate(who, qblock, kind) ==
  LET record == [qblock_id |-> qblock, kind |-> kind] IN
  /\ NodeDescriptors[who] # None
  /\ IsCandidate(qblock)
  /\ LatestParticipation[who] # None => LatestParticipation[who].qblock_id # qblock
  /\ LatestParticipation' = [LatestParticipation EXCEPT ![who] = record]
  /\ ParticipantsByQBlock' = [ParticipantsByQBlock EXCEPT ![qblock][who] = record]
  /\ ParticipantCountByQBlock' = [ParticipantCountByQBlock EXCEPT ![qblock] = @ + 1]
  /\ UNCHANGED <<version, NodeDescriptors, reserved, QBlockCount, history>>

Participants(qblock) == {who \in Accounts : ParticipantsByQBlock[qblock][who] # None}

AfterCursor(qblock, cursor) == {who \in Participants(qblock) : cursor # None => who > cursor}

\* The entries sorted by account.
InKeyOrder(S) ==
  [i \in 1..Cardinality(S) |-> CHOOSE who \in S : Cardinality({x \in S : x <= who}) = i]

\* One page: the accounts after the cursor in order, cut to the capped limit.
participants_by_qblock(qblock, start_after, limit) ==
  LET entries == InKeyOrder(AfterCursor(qblock, start_after))
      cap     == IF limit <= MaxPage THEN limit ELSE MaxPage
  IN  SubSeq(entries, 1, IF Len(entries) <= cap THEN Len(entries) ELSE cap)

-----------------------------------------------------------------------------
(***************************************************************************)
(* External: StorageMap::drain removes every row, but yields only those    *)
(* that decode under the current layout; an undecodable row is removed,    *)
(* logged and skipped.  A row of layout 1 ends before the trailing fields  *)
(* that the current NodeDescriptor expects.                                *)
(***************************************************************************)
Rows(layout) == {who \in Accounts : NodeDescriptors[who] # None /\ NodeDescriptors[who].layout = layout}
Drained == Rows(2)

\* Mutant: the rows are cleared without returning what they reserved.
on_runtime_upgrade_BareClear ==
  /\ version = 1 /\ version' = 2
  /\ NodeDescriptors' = [who \in Accounts |-> None]
  /\ unread' = Rows(1) /\ lastOldRound' = candidate_qblock_id
  /\ UNCHANGED <<participation, QBlockCount, reserved>>

\* MigrateToV2, gated by the storage version; it runs before the block's calls and
\* touches no participation.
on_runtime_upgrade ==
  /\ version = 1
  /\ version' = 2
  /\ reserved' = [who \in Accounts |->
                    IF who \in Drained THEN reserved[who] - DepositOf(who) ELSE reserved[who]]
  /\ NodeDescriptors' = [who \in Accounts |-> None]
  /\ unread' = Rows(1) /\ lastOldRound' = candidate_qblock_id
  /\ UNCHANGED <<participation, QBlockCount>>

\* External: quantum-pow finalises a qblock, which moves the candidate on.
NewQBlock ==
  /\ QBlockCount < MaxQBlocks
  /\ QBlockCount' = QBlockCount + 1
  /\ UNCHANGED <<version, NodeDescriptors, participation, reserved, history>>

\* What the descriptors an account may file and can pay for cost.
AffordableDeposits ==
  {descriptor_deposit(input) : input \in
     {i \in Inputs : validate_and_store_descriptor(i) /\ descriptor_deposit(i) <= Funds}}

(***************************************************************************)
(* A fresh chain, or one of version 1 at any point of its life: rows of    *)
(* the first layout, or of the current one (a runtime that gained the      *)
(* fields before the version moved), participants of rounds up to the      *)
(* candidate, and the latest declaration of those that cleared nothing     *)
(* since.                                                                  *)
(***************************************************************************)
Init ==
  /\ version \in InitialVersions
  /\ QBlockCount \in IF version = 1 THEN 0..MaxQBlocks ELSE {0}
  /\ \E filers \in SUBSET Accounts :
       \E rows \in [filers -> [layout : {1, 2}, deposit : AffordableDeposits]] :
         /\ version = 2 => filers = {}
         /\ NodeDescriptors = [who \in Accounts |-> IF who \in filers THEN rows[who] ELSE None]
  /\ reserved = [who \in Accounts |-> DepositOf(who)]
  /\ \E joined \in SUBSET ((1..candidate_qblock_id) \X Accounts), kind \in Kinds :
       /\ version = 2 => joined = {}
       /\ ParticipantsByQBlock = [q \in QBlockIds |-> [who \in Accounts |->
            IF <<q, who>> \in joined THEN [qblock_id |-> q, kind |-> kind] ELSE None]]
  /\ ParticipantCountByQBlock = [q \in QBlockIds |-> Cardinality(Participants(q))]
  /\ \E current \in SUBSET {who \in Accounts : NodeDescriptors[who] # None} :
       \E latest \in [current -> QBlockIds] :
         /\ \A who \in current :
              /\ who \in Participants(latest[who])
              /\ \A q \in QBlockIds : who \in Participants(q) => q <= latest[who]
         /\ LatestParticipation = [who \in Accounts |->
              IF who \in current THEN ParticipantsByQBlock[latest[who]][who] ELSE None]
  /\ unread = {} /\ lastOldRound = 0

Next ==
  \/ on_runtime_upgrade
  \/ /\ version = 2
     /\ \/ \E who \in Accounts : \/ \E input \in Inputs : set_descriptor(who, input)
                                 \/ clear_descriptor(who)
                                 \/ \E q \in QBlockIds, k \in Kinds :
                                      ParticipantCountByQBlock[q] < MaxCount /\ participate(who, q, k)
        \/ NewQBlock

Spec == Init /\ [][Next]_vars

-----------------------------------------------------------------------------
\* The counters of lib.rs stay within what the accounts can cause.
TypeOK ==
  /\ version \in {1, 2}
  /\ reserved \in [Accounts -> Nat]
  /\ QBlockCount \in 0..MaxQBlocks
  /\ ParticipantCountByQBlock \in [QBlockIds -> Nat]

(***************************************************************************)
(* Reserve and deposit move together through filing, growing, shrinking,   *)
(* clearing and the upgrade: an account's reserve is the deposit of its    *)
(* row, nothing when it has none, unless the upgrade dropped a row of its  *)
(* that it could not decode.  Even then returning a deposit never comes up *)
(* short (the debug_assert on the remainder of unreserve).                 *)
(***************************************************************************)
ReserveMatchesDeposit ==
  \A who \in Accounts :
    /\ who \notin unread => reserved[who] = DepositOf(who)
    /\ DepositOf(who) <= reserved[who] /\ reserved[who] <= Funds

(***************************************************************************)
(* migrations.rs, comments in on_runtime_upgrade: "Return each             *)
(* descriptor's reserved deposit before dropping the record", and "The     *)
(* reserved amount always equals the stored deposit": of every account.    *)
(***************************************************************************)
UpgradeReturnsDeposits == \A who \in Accounts : reserved[who] = DepositOf(who)

(***************************************************************************)
(* The index of participants follows the rounds: nobody is recorded for a  *)
(* qblock beyond the candidate, the latest record of an account is in the  *)
(* index under its own qblock, an account is in no later qblock than its   *)
(* latest, and an account without a descriptor has no latest record except *)
(* one that the upgrade left behind, of a qblock up to the candidate then. *)
(***************************************************************************)
ParticipationIndexed ==
  \A who \in Accounts :
    LET latest == LatestParticipation[who] IN
    /\ \A q \in QBlockIds : who \in Participants(q) => q <= candidate_qblock_id
    /\ latest # None =>
         /\ NodeDescriptors[who] = None => latest.qblock_id <= lastOldRound
         /\ ParticipantsByQBlock[latest.qblock_id][who] = latest
         /\ \A q \in QBlockIds : who \in Participants(q) => q <= latest.qblock_id

(***************************************************************************)
(* A declaration is final: once its qblock is no longer the candidate, the *)
(* list and the count of its participants never change again.              *)
(***************************************************************************)
PastRoundsFrozen ==
  [][\A q \in QBlockIds : q < candidate_qblock_id =>
       UNCHANGED <<ParticipantsByQBlock[q], ParticipantCountByQBlock[q]>>]_vars

(***************************************************************************)
(* Pages join: the page after the last account of a page continues it, so  *)
(* a reader that follows the cursor sees every participant exactly once.   *)
(***************************************************************************)
PagesJoin ==
  \A q \in QBlockIds, n, m \in 1..MaxPage :
    LET page == participants_by_qblock(q, None, n) IN
    /\ n + m <= MaxPage /\ page # << >> =>
         page \o participants_by_qblock(q, page[Len(page)], m) = participants_by_qblock(q, None, n + m)
    /\ page = << >> <=> Participants(q) = {}

\* What a reader learns of a round: an index that follows the rounds and the
\* descriptors, and pages that give all of it once (participants_by_qblock).
ParticipationReadable == TypeOK /\ ParticipationIndexed /\ PagesJoin

(***************************************************************************)
(* lib.rs, comment in participate: "the count increment never double-      *)
(* counts an account".                                                     *)
(***************************************************************************)
CountsEachOnce ==
  \A q \in QBlockIds : ParticipantCountByQBlock[q] = Cardinality(Participants(q))
=============================================================================
