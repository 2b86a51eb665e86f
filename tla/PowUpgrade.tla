------------------------------ MODULE PowUpgrade ------------------------------
(***************************************************************************)
(* The cumulative storage migration of pallet quantum-pow, as a function   *)
(* from the storage an older runtime left to the storage of version 6      *)
(* (pallets/quantum-pow/src/lib.rs).  A QBlock is its encoded length in    *)
(* fields, what the first seven hold (`data`), and the two fields appended *)
(* since.  Left out: the weights returned.                                 *)
(***************************************************************************)
EXTENDS Integers, Functions

CONSTANTS Zero,                \* H256::zero()
          DefaultConfig        \* DifficultyConfig::default()

STORAGE_VERSION == 6
PreTopologyFields == 7
V4Fields == 8
CurrentFields == 9

EmptyMap == [k \in {} |-> k]

\* 2 -> 3: the global difficulty becomes the default topology's own.
carry_forward(s) ==
  LET old == IF s.global_difficulty = {} THEN DefaultConfig
             ELSE CHOOSE d \in s.global_difficulty : TRUE
      moved == [s EXCEPT !.global_difficulty = {}, !.best_proof = {}]
  IN  IF s.default = Zero THEN moved
      ELSE [moved EXCEPT !.difficulties = [t \in DOMAIN @ \cup {s.default} |->
                                             IF t = s.default THEN old ELSE @[t]],
                         !.mineable = @ \cup {s.default}]

\* Below 2: the whole prefix, the version marker included.
wipe(s) ==
  [version |-> 0, default |-> Zero, mineable |-> {}, difficulties |-> EmptyMap,
   global_difficulty |-> {}, qblocks |-> EmptyMap, best_proof |-> {}, winner_streak |-> {}]

\* External: StorageMap::translate decodes a prefix of the stored fields; a value too
\* short for the wanted layout is logged and stays.
translate(qblocks, fields, new) ==
  [b \in DOMAIN qblocks |-> IF qblocks[b].fields < fields THEN qblocks[b] ELSE new[b]]

backfill_from_pre_topology(s) ==
  [s EXCEPT !.best_proof = {},
            !.qblocks = translate(@, PreTopologyFields, [b \in DOMAIN @ |->
              [fields |-> CurrentFields, data |-> @[b].data, topology |-> s.default, device |-> 0]])]

append_device_time(s) ==
  [s EXCEPT !.best_proof = {},
            !.qblocks = translate(@, V4Fields, [b \in DOMAIN @ |->
              [fields |-> CurrentFields, data |-> @[b].data, topology |-> @[b].topology, device |-> 0]])]

remove_winner_streak(s) == [s EXCEPT !.winner_streak = {}]

\* Mutant: every chain below 5 is taken to have the first layout.
v5_step_BackfillAll(version, s) ==
  IF version < 5 THEN backfill_from_pre_topology(s) ELSE s

v3_step(version, s) ==
  IF version >= 3 THEN s ELSE IF version = 2 THEN carry_forward(s) ELSE wipe(s)
v5_step(version, s) ==
  IF version >= 5 THEN s
  ELSE IF version = 4 THEN append_device_time(s) ELSE backfill_from_pre_topology(s)

\* The steps are chosen by the version found, not by the one each step leaves.
on_runtime_upgrade(s) ==
  IF s.version >= STORAGE_VERSION THEN s
  ELSE [remove_winner_streak(v5_step(s.version, v3_step(s.version, s)))
          EXCEPT !.version = STORAGE_VERSION]
=============================================================================
