-------------------------- MODULE QuantumPow_proofs --------------------------
(***************************************************************************)
(* QuantumPow for every set of accounts and topologies, every curve, every *)
(* number of blocks: the types, the whitelist, the qblock indexes and the  *)
(* seed chain, and from the chain that no nonce wins twice; the thresholds *)
(* between and at wins; the race of proofs within a block; and the books   *)
(* of the miners.                                                          *)
(***************************************************************************)
EXTENDS QuantumPow, FiniteSums

\* What a call can do to the state these theorems are about: only the topology
\* calls touch the whitelist, only submit_proof the proof counter, and none the
\* clock, the round or the qblocks.
LEMMA CallForms ==
  ASSUME Calls
  PROVE  /\ UNCHANGED <<now, inBlock, roundVars, qblockVars>>
         /\ \/ UNCHANGED topologyVars
            \/ /\ UNCHANGED proofVars
               /\ \E t \in Topologies :
                    \/ register_topology(t) \/ set_default_topology(t)
                    \/ add_mineable_topology(t) \/ remove_mineable_topology(t)
         /\ \/ UNCHANGED BlockProofCount
            \/ BelowProofLimit /\ BlockProofCount' = BlockProofCount + 1
  <1>. USE DEF proofVars, roundVars, qblockVars
  <1>1. CASE MinerCalls
    <2>1. ASSUME NEW who, NEW t, NEW nonce, NEW salt, NEW s, submit_proof(who, t, nonce, salt, s)
          PROVE  /\ UNCHANGED <<topologyVars, roundVars, qblockVars>>
                 /\ BelowProofLimit /\ BlockProofCount' = BlockProofCount + 1
      BY <2>1 DEF submit_proof
    <2>2. ASSUME NEW who, register_miner(who) \/ deregister_miner(who) \/ Spend(who)
          PROVE  UNCHANGED <<topologyVars, proofVars, roundVars, qblockVars>>
      BY <2>2 DEF register_miner, deregister_miner, Spend
    <2>. QED  BY <1>1, <2>1, <2>2 DEF Calls, MinerCalls
  <1>2. CASE AdminCalls
    BY <1>2 DEF Calls, AdminCalls, register_topology, set_default_topology,
         add_mineable_topology, remove_mineable_topology, set_difficulty, set_topology_curve,
         set_block_reward, set_target_proof_blocks
  <1>3. CASE FundPot
    BY <1>3 DEF Calls, FundPot
  <1>. QED  BY <1>1, <1>2, <1>3 DEF Calls

\* on_finalize leaves the whitelist alone and either nothing else moves or a qblock is written.
LEMMA FinaliseForms ==
  ASSUME on_finalize
  PROVE  /\ inBlock /\ inBlock' = FALSE /\ UNCHANGED <<now, topologyVars, LastProofBlockHash, BlockProofCount>>
         /\ \/ UNCHANGED <<LastProofBlock, qblockVars>>
            \/ /\ LastProofBlock' = now
               /\ \E record, active, reward : WriteQBlock(record, active, reward)
  BY DEF on_finalize, FinaliseWithoutProof, FinaliseWinner, proofVars, roundVars

-----------------------------------------------------------------------------
\* The whitelist survives each topology call.
LEMMA WhitelistStep ==
  ASSUME WhitelistSound, NEW t \in Topologies, None \notin Topologies,
         \/ register_topology(t) \/ set_default_topology(t)
         \/ add_mineable_topology(t) \/ remove_mineable_topology(t)
  PROVE  WhitelistSound'
  <1>1. CASE register_topology(t)
    BY <1>1 DEF WhitelistSound, register_topology
  <1>2. CASE set_default_topology(t)
    BY <1>2 DEF WhitelistSound, set_default_topology, MayBecomeDefault
  <1>3. CASE add_mineable_topology(t)
    BY <1>3 DEF WhitelistSound, add_mineable_topology, NoMineableConflict
  <1>4. CASE remove_mineable_topology(t)
    BY <1>4 DEF WhitelistSound, remove_mineable_topology
  <1>. QED  BY <1>1, <1>2, <1>3, <1>4

(***************************************************************************)
(* WhitelistSound: through every order of registering, repointing, adding  *)
(* and removing, with any number of topologies, the default stays mineable *)
(* and at most one other topology is mineable beside it.                   *)
(***************************************************************************)
THEOREM WhitelistCorrect == Spec => []WhitelistSound
  <1>1. Init => WhitelistSound
    BY DEF Init, WhitelistSound
  <1>2. WhitelistSound /\ [Next]_vars => WhitelistSound'
    <2>. SUFFICES ASSUME WhitelistSound, [Next]_vars PROVE WhitelistSound'
      OBVIOUS
    <2>1. CASE UNCHANGED topologyVars
      BY <2>1 DEF WhitelistSound, topologyVars
    <2>2. CASE Calls
      BY <2>1, <2>2, CallForms, WhitelistStep, PowAssumption
    <2>3. CASE on_finalize
      BY <2>1, <2>3, FinaliseForms
    <2>. QED  BY <2>1, <2>2, <2>3 DEF Next, on_initialize, Bounded, vars
  <1>. QED  BY <1>1, <1>2, PTL DEF Spec

-----------------------------------------------------------------------------
\* The records and numbers of a win: what WriteQBlock stores where.
LEMMA WriteForms ==
  ASSUME NEW record, NEW active, NEW reward, WriteQBlock(record, active, reward)
  PROVE  /\ DOMAIN QBlocks' = DOMAIN QBlocks \cup {now}
         /\ QBlocks'[now].last_proof_block_hash = LastProofBlockHash
         /\ \A b \in DOMAIN QBlocks : b # now => QBlocks'[b] = QBlocks[b]
         /\ QBlockCount' = QBlockCount + 1
         /\ QBlockBlockById' = [QBlockBlockById EXCEPT ![QBlockCount + 1] = now]
         /\ QBlockIdByBlock' = [QBlockIdByBlock EXCEPT ![now] = QBlockCount + 1]
  BY DEF WriteQBlock, insert, next_qblock_id

\* A win keeps the types: there is room for its number, one per block at most.
LEMMA WinTypes ==
  ASSUME RoundTypes, RoundInductive, inBlock, UNCHANGED now,
         NEW record, NEW active, NEW reward, WriteQBlock(record, active, reward)
  PROVE  /\ QBlockCount + 1 \in 1..MaxBlock /\ now \in Blocks
         /\ QBlockCount' \in Nat
         /\ QBlockBlockById' \in [0..MaxBlock -> Blocks \cup {None}]
         /\ QBlockIdByBlock' \in [Blocks -> (0..MaxBlock) \cup {None}]
  <1>1. /\ now \in Blocks /\ QBlockCount \in Nat /\ QBlockCount + 1 \in 1..MaxBlock
    BY PowAssumption DEF RoundTypes, RoundInductive, Blocks
  <1>2. /\ QBlockBlockById \in [0..MaxBlock -> Blocks \cup {None}]
        /\ QBlockIdByBlock \in [Blocks -> (0..MaxBlock) \cup {None}]
    BY DEF RoundTypes
  <1>3. QBlockCount + 1 \in 0..MaxBlock
    BY <1>1
  <1>. QED  BY <1>1, <1>2, <1>3, WriteForms

\* A win extends both indexes by one entry, inverse to each other and the latest of all.
LEMMA WinIndexed ==
  ASSUME RoundTypes, RoundInductive, inBlock, UNCHANGED now, LastProofBlock' = now,
         NEW record, NEW active, NEW reward, WriteQBlock(record, active, reward)
  PROVE  QBlockIndexed'
  <1>. DEFINE id == QBlockCount + 1
  <1>1. /\ id \in 1..MaxBlock /\ now \in Blocks /\ now \in Nat /\ QBlockCount \in Nat
        /\ LastProofBlock < now /\ QBlockCount <= LastProofBlock /\ LastProofBlock \in Nat
        /\ None \notin Nat /\ MaxBlock \in Nat
    BY WinTypes, PowAssumption DEF RoundTypes, RoundInductive
  <1>2. /\ QBlockBlockById' = [QBlockBlockById EXCEPT ![id] = now]
        /\ QBlockIdByBlock' = [QBlockIdByBlock EXCEPT ![now] = id]
        /\ QBlockCount' = id
        /\ DOMAIN QBlocks' = DOMAIN QBlocks \cup {now}
    BY WriteForms
  <1>3. /\ QBlockBlockById \in [0..MaxBlock -> Blocks \cup {None}]
        /\ QBlockIdByBlock \in [Blocks -> (0..MaxBlock) \cup {None}]
    BY DEF RoundTypes
  <1>4. QBlockIndexed
    BY DEF RoundInductive
  \* No earlier number is the block of this win.
  <1>5. QBlockIdByBlock[now] = None
    <2>. SUFFICES ASSUME QBlockIdByBlock[now] # None PROVE FALSE
      OBVIOUS
    <2>1. QBlockIdByBlock[now] \in 1..QBlockCount /\ QBlockBlockById[QBlockIdByBlock[now]] = now
      BY <1>1, <1>4 DEF QBlockIndexed
    <2>. QED  BY <1>1, <1>4, <2>1 DEF QBlockIndexed
  <1>. HIDE DEF id
  <1>6. QBlockBlockById'[id] = now /\ \A i \in 0..MaxBlock : i # id => QBlockBlockById'[i] = QBlockBlockById[i]
    BY <1>1, <1>2, <1>3
  <1>7. QBlockIdByBlock'[now] = id /\ \A b \in Blocks : b # now => QBlockIdByBlock'[b] = QBlockIdByBlock[b]
    BY <1>1, <1>2, <1>3
  <1>8. \A i \in 1..QBlockCount : i \in 0..MaxBlock /\ i # id /\ QBlockBlockById[i] \in Blocks
                                  /\ QBlockBlockById[i] < now
    BY <1>1, <1>3, <1>4 DEF QBlockIndexed, id, Blocks
  <1>9. \A i \in 0..MaxBlock : QBlockBlockById'[i] # None <=> i \in 1..id
    BY <1>1, <1>4, <1>6 DEF QBlockIndexed, id, Blocks
  <1>10. \A i \in 1..id : QBlockIdByBlock'[QBlockBlockById'[i]] = i
    BY <1>1, <1>4, <1>6, <1>7, <1>8 DEF QBlockIndexed, id, Blocks
  <1>11. \A b \in Blocks : QBlockIdByBlock'[b] # None =>
           QBlockIdByBlock'[b] \in 1..id /\ QBlockBlockById'[QBlockIdByBlock'[b]] = b
    BY <1>1, <1>4, <1>6, <1>7, <1>8 DEF QBlockIndexed, id
  <1>12. DOMAIN QBlocks' = {b \in Blocks : QBlockIdByBlock'[b] # None}
    BY <1>1, <1>2, <1>4, <1>7 DEF QBlockIndexed, id
  <1>13. \A i, j \in 1..id : i < j => QBlockBlockById'[i] < QBlockBlockById'[j]
    BY <1>1, <1>4, <1>6, <1>8 DEF QBlockIndexed, id
  <1>14. \A i \in 1..id : QBlockBlockById'[i] <= now
    BY <1>1, <1>6, <1>8 DEF id, Blocks
  <1>15. id <= now /\ id # 0
    BY <1>1 DEF id
  <1>. QED  BY <1>1, <1>2, <1>6, <1>9, <1>10, <1>11, <1>12, <1>13, <1>14, <1>15
            DEF QBlockIndexed

\* The qblock of a win stores the hash of its predecessor.
LEMMA WinChained ==
  ASSUME RoundTypes, RoundInductive, inBlock, ~inBlock', UNCHANGED now, LastProofBlock' = now,
         NEW record, NEW active, NEW reward, WriteQBlock(record, active, reward)
  PROVE  SeedChain'
  <1>. DEFINE id == QBlockCount + 1
              Seed(i, byId) == BlockHash(IF i = 1 THEN 0 ELSE byId[i - 1])
  <1>1. /\ id \in 1..MaxBlock /\ now \in Blocks /\ QBlockCount \in Nat /\ MaxBlock \in Nat
    BY WinTypes, PowAssumption DEF RoundTypes
  <1>2. /\ QBlockBlockById \in [0..MaxBlock -> Blocks \cup {None}]
        /\ QBlockBlockById' = [QBlockBlockById EXCEPT ![id] = now] /\ QBlockCount' = id
    BY WriteForms DEF RoundTypes
  <1>3. QBlockBlockById'[id] = now /\ \A i \in 0..MaxBlock : i # id => QBlockBlockById'[i] = QBlockBlockById[i]
    BY <1>1, <1>2
  <1>4. LastProofBlockHash = BlockHash(LastProofBlock)
    BY DEF RoundInductive, SeedChain
  <1>5. \A i \in 1..QBlockCount : /\ QBlockBlockById[i] \in DOMAIN QBlocks
                                  /\ QBlockBlockById[i] # now
    BY <1>1, <1>2, PowAssumption DEF RoundInductive, QBlockIndexed, RoundTypes, Blocks
  <1>6. \A i \in 1..QBlockCount : QBlocks'[QBlockBlockById'[i]].last_proof_block_hash = Seed(i, QBlockBlockById')
    <2>. SUFFICES ASSUME NEW i \in 1..QBlockCount
                  PROVE  QBlocks'[QBlockBlockById'[i]].last_proof_block_hash = Seed(i, QBlockBlockById')
      OBVIOUS
    <2>1. QBlockBlockById'[i] = QBlockBlockById[i] /\ (i # 1 => QBlockBlockById'[i - 1] = QBlockBlockById[i - 1])
      BY <1>1, <1>3
    <2>2. QBlocks'[QBlockBlockById[i]] = QBlocks[QBlockBlockById[i]]
      BY <1>5, WriteForms
    <2>3. QBlocks[QBlockBlockById[i]].last_proof_block_hash = Seed(i, QBlockBlockById)
      BY DEF RoundInductive, SeedChain
    <2>. QED  BY <2>1, <2>2, <2>3 DEF BlockHash
  <1>7. QBlocks'[QBlockBlockById'[id]].last_proof_block_hash = Seed(id, QBlockBlockById')
    <2>1. LastProofBlock = IF id = 1 THEN 0 ELSE QBlockBlockById[id - 1]
      BY <1>1 DEF RoundInductive, QBlockIndexed
    <2>2. id # 1 => QBlockBlockById'[id - 1] = QBlockBlockById[id - 1]
      BY <1>1, <1>3
    <2>. QED  BY <1>3, <1>4, <2>1, <2>2, WriteForms DEF BlockHash
  <1>8. \A i \in 1..id : QBlocks'[QBlockBlockById'[i]].last_proof_block_hash = Seed(i, QBlockBlockById')
    BY <1>1, <1>6, <1>7
  <1>. QED  BY <1>2, <1>8 DEF SeedChain, BlockHash

-----------------------------------------------------------------------------
\* A step outside the round: the qblocks, the last win and the seed stay.
LEMMA QuietStep ==
  ASSUME RoundInductive, UNCHANGED <<now, inBlock, roundVars, qblockVars>>
  PROVE  RoundInductive'
  BY DEF RoundInductive, QBlockIndexed, SeedChain, roundVars, qblockVars, BlockHash

\* The proof counter stays below its limit.
LEMMA CallTypes ==
  ASSUME RoundTypes, Calls
  PROVE  RoundTypes'
  <1>1. BlockProofCount' \in 0..MaxProofsPerBlock
    BY CallForms, PowAssumption DEF RoundTypes, BelowProofLimit
  <1>2. /\ RegisteredTopologies' \subseteq Topologies /\ MineableTopologies' \subseteq Topologies
        /\ DefaultTopology' \in Topologies \cup {None}
    BY CallForms DEF RoundTypes, topologyVars, register_topology, set_default_topology,
         add_mineable_topology, remove_mineable_topology
  <1>. QED  BY <1>1, <1>2, CallForms DEF RoundTypes, roundVars, qblockVars

(***************************************************************************)
(* RoundTypes together with RoundInductive, for every number of blocks.  The   *)
(* two need each other: there is room for the next qblock number only      *)
(* because a win is always in a block after the last one.                  *)
(***************************************************************************)
THEOREM RoundsCorrect == Spec => [](RoundTypes /\ RoundInductive)
  <1>1. Init => RoundTypes /\ RoundInductive
    <2>. SUFFICES ASSUME Init PROVE RoundTypes /\ RoundInductive
      OBVIOUS
    <2>0. MaxBlock \in Nat /\ MaxProofsPerBlock \in Nat
      BY PowAssumption
    <2>1. RoundTypes
      <3>1. /\ QBlockBlockById \in [0..MaxBlock -> Blocks \cup {None}]
            /\ QBlockIdByBlock \in [Blocks -> (0..MaxBlock) \cup {None}]
        BY DEF Init
      <3>2. /\ now \in 0..MaxBlock /\ LastProofBlock \in 0..MaxBlock
            /\ BlockProofCount \in 0..MaxProofsPerBlock /\ QBlockCount \in Nat
        BY <2>0 DEF Init
      <3>3. /\ RegisteredTopologies \subseteq Topologies /\ MineableTopologies \subseteq Topologies
            /\ DefaultTopology \in Topologies \cup {None} /\ inBlock \in BOOLEAN
        BY DEF Init
      <3>. QED  BY <3>1, <3>2, <3>3 DEF RoundTypes
    <2>2. DOMAIN QBlocks = {} /\ \A b \in Blocks : QBlockIdByBlock[b] = None
      BY DEF Init
    <2>3. QBlockIndexed
      BY <2>2, PowAssumption DEF Init, QBlockIndexed, Blocks
    <2>. QED  BY <2>1, <2>3 DEF Init, RoundInductive, SeedChain
  <1>2. RoundTypes /\ RoundInductive /\ [Next]_vars => RoundTypes' /\ RoundInductive'
    <2>. SUFFICES ASSUME RoundTypes, RoundInductive, [Next]_vars
                  PROVE  RoundTypes' /\ RoundInductive'
      OBVIOUS
    <2>1. CASE Calls
      BY <2>1, CallTypes, CallForms, QuietStep
    <2>2. CASE on_initialize
      <3>1. /\ now' = now + 1 /\ now' \in Blocks /\ inBlock' /\ BlockProofCount' = 0
            /\ UNCHANGED <<topologyVars, LastProofBlock, qblockVars>>
        BY <2>2, PowAssumption DEF on_initialize, RoundTypes, Blocks
      <3>2. RoundTypes'
        BY <3>1, PowAssumption DEF RoundTypes, topologyVars, qblockVars, Blocks
      <3>3. QBlockIndexed'
        BY <3>1 DEF RoundInductive, QBlockIndexed, qblockVars, RoundTypes
      \* The seed is taken in the block after a win and kept until then.
      <3>4. LastProofBlockHash' = BlockHash(LastProofBlock)
        <4>1. LastProofBlock \in Nat /\ now \in Nat /\ LastProofBlock <= now
          BY DEF RoundTypes, RoundInductive, QBlockIndexed
        <4>2. (now + 1) - 1 = now
          BY <4>1
        <4>3. LastProofBlockHash' = IF now + 1 = 1 \/ LastProofBlock + 1 = now + 1
                                    THEN BlockHash(now) ELSE LastProofBlockHash
          BY <2>2, <4>2 DEF on_initialize, RefreshSeed
        <4>. QED  BY <4>1, <4>3 DEF RoundInductive
      <3>5. SeedChain'
        BY <3>1, <3>4 DEF RoundInductive, SeedChain, qblockVars, BlockHash
      <3>6. LastProofBlock' < now' /\ QBlockCount' <= LastProofBlock'
        BY <3>1 DEF RoundInductive, QBlockIndexed, RoundTypes, qblockVars
      <3>. QED  BY <3>1, <3>2, <3>3, <3>4, <3>5, <3>6 DEF RoundInductive, BlockHash
    <2>3. CASE on_finalize
      <3>1. CASE UNCHANGED <<LastProofBlock, qblockVars>>
        <4>1. RoundInductive'
          BY <2>3, <3>1, FinaliseForms
             DEF RoundInductive, QBlockIndexed, SeedChain, qblockVars, BlockHash
        <4>2. RoundTypes'
          BY <2>3, <3>1, FinaliseForms DEF RoundTypes, topologyVars, qblockVars
        <4>. QED  BY <4>1, <4>2
      <3>2. ASSUME LastProofBlock' = now, NEW record, NEW active, NEW reward,
                   WriteQBlock(record, active, reward)
            PROVE  RoundTypes' /\ RoundInductive'
        <4>1. inBlock /\ inBlock' = FALSE /\ UNCHANGED <<now, topologyVars, BlockProofCount>>
          BY <2>3, FinaliseForms
        <4>2. QBlockIndexed' /\ SeedChain'
          BY <3>2, <4>1, WinIndexed, WinChained
        <4>3. RoundTypes'
          BY <3>2, <4>1, WinTypes DEF RoundTypes, topologyVars, Blocks
        <4>4. QBlockCount' <= LastProofBlock' /\ ~(LastProofBlock' < now')
          BY <3>2, <4>1, WriteForms DEF RoundTypes, RoundInductive
        <4>. QED  BY <4>1, <4>2, <4>3, <4>4 DEF RoundInductive
      <3>. QED  BY <2>3, <3>1, <3>2, FinaliseForms
    <2>4. CASE UNCHANGED vars
      <3>1. UNCHANGED <<now, inBlock, roundVars, qblockVars>>
        BY <2>4 DEF vars
      <3>2. RoundTypes'
        BY <2>4 DEF RoundTypes, vars, topologyVars, proofVars, roundVars, qblockVars
      <3>. QED  BY <3>1, <3>2, QuietStep
    <2>. QED  BY <2>1, <2>2, <2>3, <2>4 DEF Next, Bounded
  <1>. QED  BY <1>1, <1>2, PTL DEF Spec

\* Two qblocks with the same predecessor hash are the same qblock.
LEMMA ChainInjective ==
  ASSUME RoundTypes, RoundInductive, NEW b \in DOMAIN QBlocks, NEW c \in DOMAIN QBlocks,
         QBlocks[b].last_proof_block_hash = QBlocks[c].last_proof_block_hash
  PROVE  b = c
  <1>. DEFINE i == QBlockIdByBlock[b]
              j == QBlockIdByBlock[c]
              Pred(k) == IF k = 1 THEN 0 ELSE QBlockBlockById[k - 1]
  <1>1. /\ i \in 1..QBlockCount /\ QBlockBlockById[i] = b
        /\ j \in 1..QBlockCount /\ QBlockBlockById[j] = c
    BY DEF RoundInductive, QBlockIndexed
  <1>2. QBlockCount \in Nat /\ QBlockCount <= MaxBlock /\ MaxBlock \in Nat
    BY PowAssumption DEF RoundTypes, RoundInductive, QBlockIndexed
  <1>. HIDE DEF i, j
  <1>3. BlockHash(Pred(i)) = BlockHash(Pred(j))
    BY <1>1 DEF RoundInductive, SeedChain
  <1>4. Pred(i) = Pred(j)
    BY <1>3 DEF BlockHash
  <1>5. \A k \in 1..QBlockCount : QBlockBlockById[k] \in Blocks
    BY <1>2 DEF RoundInductive, QBlockIndexed, RoundTypes
  <1>6. i = 1 <=> j = 1
    BY <1>1, <1>2, <1>4, <1>5 DEF Blocks
  <1>7. CASE i # 1
    <2>1. QBlockBlockById[i - 1] = QBlockBlockById[j - 1] /\ i - 1 \in 1..QBlockCount /\ j - 1 \in 1..QBlockCount
      BY <1>1, <1>2, <1>4, <1>6, <1>7
    <2>2. i - 1 = j - 1
      BY <2>1 DEF RoundInductive, QBlockIndexed
    <2>. QED  BY <1>1, <1>2, <2>2
  <1>. QED  BY <1>1, <1>6, <1>7

(***************************************************************************)
(* NonceWinsOnce: whatever is submitted and however late it arrives, a     *)
(* nonce that won a qblock never wins another.                             *)
(***************************************************************************)
THEOREM NoReplay == Spec => []NonceWinsOnce
  <1>1. RoundTypes /\ RoundInductive => NonceWinsOnce
    BY ChainInjective DEF NonceWinsOnce, derive_nonce
  <1>. QED  BY <1>1, RoundsCorrect, PTL

-----------------------------------------------------------------------------
(* The books: difficulties, miners, balances, the best proof of the block. *)

\* A finite nonempty set of numbers, given by indices, has a least one.
LEMMA LeastIndex ==
  ASSUME NEW V, IsFiniteSet(V), V # {}, NEW e, \A i \in V : e[i] \in Int
  PROVE  \E i \in V : \A j \in V : e[i] <= e[j]
<1> DEFINE Below(i) == {j \in V : e[j] <= e[i]}
           F == {Below(i) : i \in V}
<1>1. F \subseteq SUBSET V /\ F # {}
  OBVIOUS
<1>2. PICK T \in F : \A U \in F : U \subseteq T => U = T
  <2> HIDE DEF F
  <2> QED BY <1>1, MinimalSubset
<1>3. PICK i \in V : T = Below(i)
  OBVIOUS
<1>4. ASSUME NEW j \in V, e[j] < e[i] PROVE FALSE
  <2>1. Below(j) \subseteq Below(i) /\ i \in Below(i) /\ i \notin Below(j)
    BY <1>4
  <2> QED BY <1>2, <1>3, <2>1
<1> QED BY <1>3, <1>4

\* The best energy of a proof that clears the threshold is one of its energies.
LEMMA BestEnergyInt ==
  ASSUME NEW s \in Solutions, NEW d, ValidEnergies(s, d) # {}
  PROVE  BestEnergy(s, d) \in Int
<1> DEFINE V == ValidEnergies(s, d)
           valid == {s.energies[i] : i \in V}
<1>1. s.energies \in Seq(Int)
  BY InputAssumption
<1>2. IsFiniteSet(1..Len(s.energies)) /\ DOMAIN s.energies = 1..Len(s.energies)
  <2>1. Len(s.energies) \in Nat /\ DOMAIN s.energies = 1..Len(s.energies)
    BY <1>1
  <2> QED BY <2>1, FS_Interval
<1>3. V \subseteq DOMAIN s.energies /\ \A i \in V : s.energies[i] \in Int
  BY <1>1 DEF ValidEnergies
<1>4. IsFiniteSet(V)
  BY <1>2, <1>3, FS_Subset
<1> HIDE DEF V
<1>5. \E e \in valid : \A f \in valid : e <= f
  <2>1. PICK i \in V : \A j \in V : s.energies[i] <= s.energies[j]
    BY <1>3, <1>4, LeastIndex DEF V
  <2> QED BY <2>1
<1>6. BestEnergy(s, d) \in valid
  BY <1>5 DEF BestEnergy, V
<1> QED BY <1>3, <1>6

\* The parameters in force are typed.
LEMMA InForce ==
  ASSUME BookTypes
  PROVE  /\ block_reward \in Nat /\ target_proof_blocks \in Nat
         /\ \A t \in Topologies : energy_curve_for(t) \in EnergyCurve
         /\ \A t \in Topologies : BaseDifficulty(t) \in DifficultyConfig
<1>1. BlockReward \in Nat /\ TargetProofBlocks \in Nat
  BY PowAssumption, InputAssumption
<1> QED BY <1>1, InputAssumption
        DEF BookTypes, block_reward, target_proof_blocks, energy_curve_for, BaseDifficulty

\* Rounding yields a natural.
LEMMA RoundedNat ==
  ASSUME NEW a \in Nat, NEW b \in Nat \ {0}
  PROVE  Rounded(a, b) \in Nat
<1>1. 2 * a + b \in Nat /\ 2 * b \in Nat \ {0}
  OBVIOUS
<1> QED BY <1>1 DEF Rounded

\* A larger dividend has no smaller quotient.
LEMMA QuotientGrows ==
  ASSUME NEW x \in Nat, NEW y \in Nat, x <= y, NEW d \in Nat \ {0}
  PROVE  x \div d <= y \div d
<1> DEFINE p == x \div d
           q == y \div d
<1>1. /\ p \in Int /\ q \in Int
      /\ x = d * p + (x % d) /\ y = d * q + (y % d)
      /\ x % d \in 0..(d - 1) /\ y % d \in 0..(d - 1)
  OBVIOUS
<1> HIDE DEF p, q
<1>2. d * p < d * (q + 1)
  BY <1>1
<1>3. p < q + 1
  BY <1>1, <1>2
<1> QED BY <1>1, <1>3 DEF p, q

\* The geometric phase takes some of the blocks.
LEMMA GeometricBlocks ==
  ASSUME NEW room, NEW blocks \in Nat
  PROVE  geometric_blocks(room, blocks) \in 0..blocks
<1> DEFINE all == 0..(blocks - 1)
           S == {b \in all : AboveCrossover(room, b)}
<1>1. IsFiniteSet(all) /\ Cardinality(all) = blocks
  BY FS_Interval
<1>2. S \in SUBSET all
  OBVIOUS
<1> HIDE DEF all, S
<1>3. IsFiniteSet(S) /\ Cardinality(S) <= Cardinality(all) /\ Cardinality(S) \in Nat
  BY <1>1, <1>2, FS_Subset, FS_CardinalityType
<1> QED BY <1>1, <1>3 DEF geometric_blocks, S, all

\* What ease_room rounds, in parts of One * EpochLength.
EasedParts(room, blocks) ==
  LET geometric == geometric_blocks(room, blocks)
  IN  room * (One - Retained[geometric]) * EpochLength
        + (blocks - geometric) * MIN_ENERGY_DELTA_MILLI * One

LEMMA EasedPartsNat ==
  ASSUME NEW room \in Nat, NEW blocks \in 0..MaxBlock
  PROVE  EasedParts(room, blocks) \in Nat
<1>1. MaxBlock \in Nat /\ One \in Nat /\ EpochLength \in Nat /\ MIN_ENERGY_DELTA_MILLI \in Nat
  BY PowAssumption, InputAssumption, RetainedAssumption
<1>2. PICK g \in 0..blocks : g = geometric_blocks(room, blocks)
  BY <1>1, GeometricBlocks
<1>3. PICK kept \in 0..One : kept = Retained[g]
  BY <1>1, <1>2, RetainedAssumption
<1>4. room * (One - kept) \in Nat /\ (blocks - g) * MIN_ENERGY_DELTA_MILLI \in Nat
  BY <1>1, <1>2, <1>3
<1>5. room * (One - kept) * EpochLength \in Nat
      /\ (blocks - g) * MIN_ENERGY_DELTA_MILLI * One \in Nat
  BY <1>1, <1>4
<1> QED BY <1>2, <1>3, <1>5 DEF EasedParts

\* Easing, in either phase, never exceeds the room that is left.
LEMMA EaseBounds ==
  ASSUME NEW room \in Int, NEW blocks \in 0..MaxBlock
  PROVE  /\ ease_room(room, blocks) \in Nat
         /\ ease_room(room, blocks) > 0 => ease_room(room, blocks) <= room
<1>1. CASE room <= 0 \/ blocks = 0 \/ EpochLength = 0
  BY <1>1 DEF ease_room
<1>2. CASE room > 0 /\ blocks # 0 /\ EpochLength # 0
  <2>0. One \in Nat \ {0} /\ EpochLength \in Nat \ {0} /\ room \in Nat
    BY <1>2, InputAssumption, RetainedAssumption
  <2>1. EasedParts(room, blocks) \in Nat /\ One * EpochLength \in Nat \ {0}
    BY <2>0, EasedPartsNat
  <2>2. Rounded(EasedParts(room, blocks), One * EpochLength) \in Nat
    BY <2>1, RoundedNat
  <2>3. ease_room(room, blocks) = MinOf(Rounded(EasedParts(room, blocks), One * EpochLength), room)
    BY <1>2 DEF ease_room, EasedParts
  <2> QED BY <1>2, <2>2, <2>3 DEF MinOf
<1> QED BY <1>1, <1>2

\* One more block adds to what is eased: where the room still beats the crossover it
\* did so in every earlier block, and where it does not the floor is added.
LEMMA EasedPartsGrow ==
  ASSUME NEW room \in Nat, NEW blocks \in Nat, NEW more \in Nat, more = blocks + 1,
         more <= MaxBlock
  PROVE  EasedParts(room, blocks) <= EasedParts(room, more)
<1> DEFINE g == geometric_blocks(room, blocks)
           h == geometric_blocks(room, more)
           floor == MIN_ENERGY_DELTA_MILLI * One
<1>1. /\ MaxBlock \in Nat /\ One \in Nat /\ EpochLength \in Nat
      /\ MIN_ENERGY_DELTA_MILLI \in Nat /\ floor \in Nat
  <2>1. MaxBlock \in Nat /\ EpochLength \in Nat /\ MIN_ENERGY_DELTA_MILLI \in Nat
    BY PowAssumption, InputAssumption
  <2>2. One \in Nat
    BY RetainedAssumption
  <2> QED BY <2>1, <2>2
<1>2. g \in 0..blocks /\ h \in 0..more
  BY GeometricBlocks
<1>3. CASE AboveCrossover(room, blocks)
  <2>1. \A b \in 0..blocks : AboveCrossover(room, b)
    <3> SUFFICES ASSUME NEW b \in 0..blocks PROVE AboveCrossover(room, b)
      OBVIOUS
    <3>1. /\ Retained[blocks] <= Retained[b]
          /\ Retained[blocks] \in Nat /\ Retained[b] \in Nat
      BY <1>1, RetainedAssumption
    <3>2. room * Retained[blocks] <= room * Retained[b]
          /\ room * Retained[blocks] \in Nat /\ room * Retained[b] \in Nat
      BY <3>1
    <3>3. /\ room * Retained[blocks] * 79 > floor * 1600
          /\ room * Retained[blocks] * 79 \in Nat /\ room * Retained[b] * 79 \in Nat
          /\ room * Retained[blocks] * 79 <= room * Retained[b] * 79
      BY <1>1, <1>3, <3>2 DEF AboveCrossover
    <3> QED BY <1>1, <3>3 DEF AboveCrossover
  <2>2. g = blocks /\ h = more
    <3>1. {b \in 0..(blocks - 1) : AboveCrossover(room, b)} = 0..(blocks - 1)
      BY <2>1
    <3>2. {b \in 0..(more - 1) : AboveCrossover(room, b)} = 0..blocks
      BY <2>1
    <3>3. Cardinality(0..(blocks - 1)) = blocks /\ Cardinality(0..blocks) = more
      BY FS_Interval
    <3>4. g = Cardinality(0..(blocks - 1))
      BY <3>1 DEF geometric_blocks
    <3>5. h = Cardinality(0..blocks)
      BY <3>2, Zenon DEF geometric_blocks
    <3> QED BY <3>3, <3>4, <3>5
  <2>3. PICK before \in 0..One, after \in 0..One :
          before = Retained[blocks] /\ after = Retained[more] /\ after <= before
    BY <1>1, RetainedAssumption
  <2>4. /\ EasedParts(room, blocks) = room * (One - before) * EpochLength
        /\ EasedParts(room, more) = room * (One - after) * EpochLength
    <3>1. /\ EasedParts(room, blocks) = room * (One - before) * EpochLength + 0 * MIN_ENERGY_DELTA_MILLI * One
          /\ EasedParts(room, more) = room * (One - after) * EpochLength + 0 * MIN_ENERGY_DELTA_MILLI * One
      BY <2>2, <2>3 DEF EasedParts
    <3>2. room * (One - before) * EpochLength \in Int /\ room * (One - after) * EpochLength \in Int
      BY <1>1
    <3> QED BY <1>1, <3>1, <3>2
  <2>5. /\ room * (One - before) <= room * (One - after)
        /\ room * (One - before) \in Nat /\ room * (One - after) \in Nat
    BY <1>1, <2>3
  <2> QED BY <1>1, <2>4, <2>5
<1>4. CASE ~AboveCrossover(room, blocks)
  <2>1. h = g
    <3>1. {b \in 0..(more - 1) : AboveCrossover(room, b)}
            = {b \in 0..(blocks - 1) : AboveCrossover(room, b)}
      <4>1. \A b : b \in 0..(more - 1) <=> b \in 0..(blocks - 1) \/ b = blocks
        OBVIOUS
      <4> QED BY <1>4, <4>1, Zenon
    <3> QED BY <3>1 DEF geometric_blocks
  <2> DEFINE shrunk == room * (One - Retained[g]) * EpochLength
  <2>2. shrunk \in Int
    BY <1>1, <1>2, RetainedAssumption
  <2>6. EasedParts(room, blocks) = shrunk + (blocks - g) * MIN_ENERGY_DELTA_MILLI * One
    BY Zenon DEF EasedParts
  <2>7. EasedParts(room, more) = shrunk + (more - g) * MIN_ENERGY_DELTA_MILLI * One
    <3>1. EasedParts(room, more) = room * (One - Retained[h]) * EpochLength
                                          + (more - h) * MIN_ENERGY_DELTA_MILLI * One
      BY Zenon DEF EasedParts
    <3> HIDE DEF g, h
    <3> QED BY <2>1, <3>1
  <2>3. /\ EasedParts(room, blocks) = shrunk + (blocks - g) * MIN_ENERGY_DELTA_MILLI * One
        /\ EasedParts(room, more) = shrunk + (more - g) * MIN_ENERGY_DELTA_MILLI * One
    BY <2>6, <2>7
  <2> HIDE DEF shrunk, g
  <2>4. /\ (blocks - g) * MIN_ENERGY_DELTA_MILLI <= (more - g) * MIN_ENERGY_DELTA_MILLI
        /\ (blocks - g) * MIN_ENERGY_DELTA_MILLI \in Nat
        /\ (more - g) * MIN_ENERGY_DELTA_MILLI \in Nat
    BY <1>1, <1>2
  <2>5. (blocks - g) * MIN_ENERGY_DELTA_MILLI * One <= (more - g) * MIN_ENERGY_DELTA_MILLI * One
    BY <1>1, <2>4
  <2> QED BY <1>1, <1>2, <2>2, <2>3, <2>4, <2>5
<1> QED BY <1>3, <1>4

LEMMA EaseGrows ==
  ASSUME NEW room \in Int, NEW blocks \in Nat, blocks + 1 <= MaxBlock
  PROVE  ease_room(room, blocks) <= ease_room(room, blocks + 1)
<1>0. MaxBlock \in Nat
  BY PowAssumption
<1>1. CASE room <= 0 \/ blocks = 0 \/ EpochLength = 0
  BY <1>0, <1>1, EaseBounds DEF ease_room
<1>2. CASE room > 0 /\ blocks # 0 /\ EpochLength # 0
  <2> DEFINE unit == One * EpochLength
             x == EasedParts(room, blocks)
             y == EasedParts(room, blocks + 1)
  <2>0. One \in Nat \ {0} /\ EpochLength \in Nat \ {0} /\ room \in Nat
    BY <1>2, InputAssumption, RetainedAssumption
  <2>1. unit \in Nat \ {0} /\ x \in Nat /\ y \in Nat /\ x <= y
    BY <1>0, <2>0, EasedPartsNat, EasedPartsGrow
  <2>2. /\ ease_room(room, blocks) = MinOf(Rounded(x, unit), room)
        /\ ease_room(room, blocks + 1) = MinOf(Rounded(y, unit), room)
    BY <1>2 DEF ease_room, EasedParts
  <2> HIDE DEF unit, x, y
  <2>3. /\ 2 * x + unit \in Nat /\ 2 * y + unit \in Nat /\ 2 * x + unit <= 2 * y + unit
        /\ 2 * unit \in Nat \ {0}
    BY <2>1
  <2>4. Rounded(x, unit) <= Rounded(y, unit)
    BY <2>3, QuotientGrows DEF Rounded
  <2>5. Rounded(x, unit) \in Nat /\ Rounded(y, unit) \in Nat
    BY <2>1, RoundedNat
  <2> QED BY <2>0, <2>2, <2>4, <2>5 DEF MinOf
<1> QED BY <1>1, <1>2

\* The live threshold of a topology: the base, eased only when a round is overdue,
\* and not past the easy end of the curve.
LEMMA LiveBounds ==
  ASSUME NEW block \in 0..MaxBlock, NEW base \in DifficultyConfig, NEW last \in Nat,
         NEW curve \in EnergyCurve, NEW target \in Nat
  PROVE  LET live == current_difficulty(block, base, last, curve, target)
         IN  /\ live \in DifficultyConfig
             /\ live.min_solutions = base.min_solutions
             /\ live.max_energy >= base.max_energy
             /\ live.max_energy > base.max_energy =>
                  last > 0 /\ block - last > target /\ live.max_energy <= curve.max
<1> DEFINE elapsed == MaxOf(block - last, 0)
           overdue == MaxOf(elapsed - target, 0)
           ease == ease_room(curve.max - base.max_energy, overdue)
           live == current_difficulty(block, base, last, curve, target)
<1>1. /\ elapsed \in Nat /\ overdue \in 0..MaxBlock
      /\ curve.max \in Int /\ base.max_energy \in Int
  BY PowAssumption DEF MaxOf, EnergyCurve, DifficultyConfig
<1>2. ease \in Nat /\ (ease > 0 => ease <= curve.max - base.max_energy)
  <2> HIDE DEF overdue
  <2>1. curve.max - base.max_energy \in Int
    BY <1>1
  <2> QED BY <1>1, <2>1, EaseBounds
<1>3. \/ live = base
      \/ /\ live = [base EXCEPT !.max_energy = @ + ease]
         /\ last # 0 /\ overdue # 0
  BY DEF current_difficulty, apply_decay
<1>4. overdue # 0 => block - last > target
  BY DEF MaxOf
<1> HIDE DEF ease, overdue, live
<1>5. CASE live = base
  BY <1>1, <1>5 DEF live
<1>6. CASE live = [base EXCEPT !.max_energy = @ + ease] /\ last # 0 /\ overdue # 0
  <2>1. /\ live \in DifficultyConfig /\ live.min_solutions = base.min_solutions
        /\ live.max_energy = base.max_energy + ease
    BY <1>1, <1>2, <1>6 DEF DifficultyConfig
  <2> QED BY <1>1, <1>2, <1>4, <1>6, <2>1 DEF live
<1> QED BY <1>3, <1>5, <1>6

\* The live threshold of a round, one block later.
LEMMA LiveGrows ==
  ASSUME NEW block \in Nat, block + 1 <= MaxBlock, NEW base \in DifficultyConfig,
         NEW last \in Nat, NEW curve \in EnergyCurve, NEW target \in Nat
  PROVE  current_difficulty(block, base, last, curve, target).max_energy
           <= current_difficulty(block + 1, base, last, curve, target).max_energy
<1> DEFINE Overdue(b) == MaxOf(MaxOf(b - last, 0) - target, 0)
           room == curve.max - base.max_energy
           live == current_difficulty(block, base, last, curve, target)
           next == current_difficulty(block + 1, base, last, curve, target)
<1>0. MaxBlock \in Nat /\ room \in Int /\ base.max_energy \in Int
  BY PowAssumption DEF EnergyCurve, DifficultyConfig
<1>1. /\ live \in DifficultyConfig /\ next \in DifficultyConfig
      /\ next.max_energy >= base.max_energy
  BY <1>0, LiveBounds
<1>2. CASE live = base
  BY <1>1, <1>2
<1>3. CASE live # base
  <2>1. /\ last # 0 /\ MaxOf(block - last, 0) # 0
        /\ ~(curve.max <= curve.min) /\ Overdue(block) # 0 /\ EpochLength # 0
        /\ live = [base EXCEPT !.max_energy = @ + ease_room(room, Overdue(block))]
    BY <1>3 DEF current_difficulty, apply_decay
  <2>2. /\ Overdue(block) \in Nat /\ Overdue(block + 1) = Overdue(block) + 1
        /\ MaxOf(block + 1 - last, 0) # 0 /\ Overdue(block + 1) <= MaxBlock
    BY <1>0, <2>1 DEF MaxOf
  <2>3. next = [base EXCEPT !.max_energy = @ + ease_room(room, Overdue(block + 1))]
    BY <2>1, <2>2 DEF current_difficulty, apply_decay
  <2> HIDE DEF Overdue, room, live, next
  <2>4. /\ ease_room(room, Overdue(block)) <= ease_room(room, Overdue(block + 1))
        /\ ease_room(room, Overdue(block)) \in Nat /\ ease_room(room, Overdue(block + 1)) \in Nat
    <3>1. Overdue(block) + 1 <= MaxBlock /\ Overdue(block) \in 0..MaxBlock
          /\ Overdue(block + 1) \in 0..MaxBlock
      BY <1>0, <2>2
    <3>2. ease_room(room, Overdue(block)) <= ease_room(room, Overdue(block) + 1)
      BY <1>0, <2>2, <3>1, EaseGrows
    <3> QED BY <1>0, <2>2, <3>1, <3>2, EaseBounds
  <2>5. /\ live.max_energy = base.max_energy + ease_room(room, Overdue(block))
        /\ next.max_energy = base.max_energy + ease_room(room, Overdue(block + 1))
    BY <2>1, <2>3 DEF DifficultyConfig
  <2> QED BY <1>0, <2>4, <2>5 DEF live, next
<1> QED BY <1>2, <1>3

\* What a win may make of the live threshold.
LEMMA HardenBounds ==
  ASSUME NEW active \in DifficultyConfig, NEW energy \in Int, NEW time,
         NEW curve \in EnergyCurve, NEW target,
         NEW next \in adjust_on_proof(active, energy, time, curve, target)
  PROVE  /\ next \in DifficultyConfig
         /\ next.min_solutions = active.min_solutions
         /\ next.max_energy <= active.max_energy
         /\ next.max_energy >= MinOf(energy, active.max_energy)
         /\ active.max_energy - next.max_energy <= max_hardening_delta(curve)
<1> DEFINE gap == active.max_energy - energy
           cap == max_hardening_delta(curve)
           Delta(motion) == MinOf(MinOf(MaxOf(motion, MIN_ENERGY_DELTA_MILLI), cap), gap)
<1>1. MIN_ENERGY_DELTA_MILLI \in Nat /\ active.max_energy \in Int
  BY InputAssumption DEF DifficultyConfig
<1>2. cap \in Nat /\ cap >= MIN_ENERGY_DELTA_MILLI
  <2>1. MaxOf(curve.max - curve.min, 0) * DECAY_RATE_MILLI \in Nat
    BY DEF EnergyCurve, MaxOf, DECAY_RATE_MILLI
  <2>2. Rounded(MaxOf(curve.max - curve.min, 0) * DECAY_RATE_MILLI, 1000) \in Nat
    BY <2>1, RoundedNat
  <2> QED BY <1>1, <2>2 DEF max_hardening_delta, MaxOf
<1>3. CASE gap <= 0
  <2>1. next = active
    BY <1>3 DEF adjust_on_proof
  <2> QED BY <1>1, <1>2, <1>3, <2>1 DEF MinOf
<1>4. CASE ~(gap <= 0)
  <2>1. PICK rate \in RateBand(time, target) :
          next = [active EXCEPT !.max_energy = @ - Delta(Rounded(gap * rate, 1000))]
    BY <1>4 DEF adjust_on_proof
  <2> DEFINE motion == Rounded(gap * rate, 1000)
  <2>4. motion \in Int
    <3>1. rate \in Int
      BY DEF RateBand
    <3>2. gap * rate \in Int
      BY <1>1, <3>1
    <3> QED BY <3>2 DEF Rounded
  <2> HIDE DEF motion
  <2> HIDE DEF cap
  <2>2. Delta(motion) \in Nat /\ Delta(motion) <= cap /\ Delta(motion) <= gap
    BY <1>1, <1>2, <1>4, <2>4 DEF MinOf, MaxOf
  <2> HIDE DEF Delta
  <2>3. /\ next \in DifficultyConfig /\ next.min_solutions = active.min_solutions
        /\ next.max_energy = active.max_energy - Delta(motion)
    BY <1>1, <2>1, <2>2 DEF DifficultyConfig, motion
  <2> QED BY <1>1, <1>2, <2>2, <2>3 DEF MinOf, cap
<1> QED BY <1>3, <1>4

\* The live threshold in a typed state.
LEMMA LiveTyped ==
  ASSUME RoundTypes, BookTypes, NEW t \in Topologies
  PROVE  current_difficulty_for(t) \in DifficultyConfig
<1>1. now \in 0..MaxBlock /\ LastProofBlock \in Nat
  BY PowAssumption DEF RoundTypes
<1> QED BY <1>1, InForce, LiveBounds DEF current_difficulty_for

\* What the emission controller pays out of the pot is there.
LEMMA PayBounds ==
  ASSUME BookTypes, NEW who, NEW requested \in Nat
  PROVE  pay(who, requested) \in Nat /\ pay(who, requested) <= pot
<1>1. pot \in Nat /\ ExistentialDeposit \in Nat
  BY InputAssumption DEF BookTypes
<1> DEFINE amount == MinOf(requested, MaxOf(pot - ExistentialDeposit, 0))
<1>2. amount \in Nat /\ amount <= pot
  BY ONLY <1>1, requested \in Nat DEF MinOf, MaxOf
<1>3. pay(who, requested) = 0 \/ pay(who, requested) = amount
  BY DEF pay
<1> HIDE DEF amount
<1> QED BY ONLY <1>1, <1>2, <1>3

\* The best proof of a block when it is finalised becomes a qblock, the winner is paid
\* and, if still registered, credited.
LEMMA WinForms ==
  ASSUME RoundTypes, BookTypes, FinaliseWinner
  PROVE  \E record \in ProofRecord, active \in DifficultyConfig, reward \in Nat :
           /\ BlockBestProof = record /\ BlockBestProof' = None
           /\ active = current_difficulty_for(record.topology)
           /\ reward <= pot /\ pot' = pot - reward
           /\ free' = [free EXCEPT ![record.miner] = @ + reward]
           /\ CreditMiner(record.miner, reward)
           /\ \E next \in adjust_on_proof(active, record.energy, MiningTime,
                            energy_curve_for(record.topology), target_proof_blocks) :
                AdjustDifficulty(record, active, next)
           /\ WriteQBlock(record, active, reward)
           /\ UNCHANGED <<TopologyCurveC, BlockRewardOverride, TargetProofBlocksOverride, accepted>>
<1>1. BlockBestProof \in ProofRecord
  BY DEF FinaliseWinner, BookTypes
<1>2. BlockBestProof.topology \in Topologies
  BY <1>1 DEF ProofRecord
<1>3. current_difficulty_for(BlockBestProof.topology) \in DifficultyConfig
  BY <1>2, LiveTyped
<1>4. /\ pay(BlockBestProof.miner, block_reward) \in Nat
      /\ pay(BlockBestProof.miner, block_reward) <= pot
  BY InForce, PayBounds
<1> QED BY <1>1, <1>3, <1>4 DEF FinaliseWinner

\* A miner's call keeps the books typed.
LEMMA MinerCallsTyped ==
  ASSUME RoundTypes, BookTypes, MinerCalls
  PROVE  BookTypes'
<1> USE DEF proofVars, qblockVars, adminVars, minerVars
<1>1. now \in Nat /\ MinerDeposit \in Nat /\ ExistentialDeposit \in Nat
  BY InputAssumption DEF RoundTypes
<1>2. ASSUME NEW who \in Accounts, register_miner(who) PROVE BookTypes'
  <2>1. [registered_at |-> now, deposit |-> MinerDeposit,
         submitted |-> 0, won |-> 0, earned |-> 0] \in MinerInfo
    BY <1>1 DEF MinerInfo
  <2>2. Miners' \in [Accounts -> MinerInfo \cup {None}]
    BY <1>2, <2>1 DEF register_miner, BookTypes
  <2>3. free' \in [Accounts -> Nat]
    BY <1>1, <1>2 DEF register_miner, BookTypes
  <2> QED BY <1>2, <2>2, <2>3 DEF register_miner, BookTypes
<1>3. ASSUME NEW who \in Accounts, deregister_miner(who) PROVE BookTypes'
  <2>1. Miners[who].deposit \in Nat
    BY <1>3 DEF deregister_miner, BookTypes, MinerInfo
  <2>2. free' \in [Accounts -> Nat]
    BY <1>3, <2>1 DEF deregister_miner, BookTypes
  <2> QED BY <1>3, <2>2 DEF deregister_miner, BookTypes
<1>4. ASSUME NEW who \in Accounts, Spend(who) PROVE BookTypes'
  BY <1>4 DEF Spend, BookTypes
<1>5. ASSUME NEW who \in Accounts, NEW t \in Topologies, NEW nonce, NEW salt \in Salts,
             NEW s \in Solutions, submit_proof(who, t, nonce, salt, s)
      PROVE  BookTypes'
  <2>1. BestEnergy(s, current_difficulty_for(t)) \in Int
    BY <1>5, BestEnergyInt DEF submit_proof, ClearsDifficulty
  <2>2. BlockBestProof' \in ProofRecord \cup {None}
    BY <1>1, <1>5, <2>1 DEF submit_proof, BookTypes, ProofRecord
  <2>3. Miners[who] \in MinerInfo
    BY <1>5 DEF submit_proof, BookTypes
  <2>4. [Miners[who] EXCEPT !.submitted = @ + 1] \in MinerInfo
    BY <2>3 DEF MinerInfo
  <2>5. Miners' \in [Accounts -> MinerInfo \cup {None}]
    BY <1>5, <2>4 DEF submit_proof, BookTypes
  <2> QED BY <1>5, <2>2, <2>5 DEF submit_proof, BookTypes
<1> QED BY <1>2, <1>3, <1>4, <1>5 DEF MinerCalls

\* So does a call of root or council.
LEMMA AdminCallsTyped ==
  ASSUME BookTypes, AdminCalls
  PROVE  BookTypes'
<1> USE DEF proofVars, qblockVars, adminVars, minerVars
<1>1. ASSUME NEW t \in Topologies,
             \/ register_topology(t) \/ set_default_topology(t)
             \/ add_mineable_topology(t) \/ remove_mineable_topology(t)
      PROVE  BookTypes'
  BY <1>1 DEF register_topology, set_default_topology, add_mineable_topology,
              remove_mineable_topology, BookTypes
<1>2. ASSUME NEW t \in Topologies, NEW d \in DifficultyChoices, set_difficulty(t, d)
      PROVE  BookTypes'
  BY <1>2, InputAssumption DEF set_difficulty, BookTypes
<1>3. ASSUME NEW t \in Topologies, NEW c \in Curves, set_topology_curve(t, c)
      PROVE  BookTypes'
  BY <1>3, InputAssumption DEF set_topology_curve, BookTypes
<1>4. ASSUME NEW r \in RewardChoices, set_block_reward(r) PROVE BookTypes'
  BY <1>4, InputAssumption DEF set_block_reward, BookTypes
<1>5. ASSUME NEW k \in TargetChoices, set_target_proof_blocks(k) PROVE BookTypes'
  BY <1>5, InputAssumption DEF set_target_proof_blocks, BookTypes
<1> QED BY <1>1, <1>2, <1>3, <1>4, <1>5, InputAssumption DEF AdminCalls

\* And so does a win.
LEMMA WinTyped ==
  ASSUME RoundTypes, BookTypes, FinaliseWinner
  PROVE  BookTypes'
<1>1. PICK record \in ProofRecord, active \in DifficultyConfig, reward \in Nat :
        /\ BlockBestProof = record /\ BlockBestProof' = None
        /\ active = current_difficulty_for(record.topology)
        /\ reward <= pot /\ pot' = pot - reward
        /\ free' = [free EXCEPT ![record.miner] = @ + reward]
        /\ CreditMiner(record.miner, reward)
        /\ \E next \in adjust_on_proof(active, record.energy, MiningTime,
                         energy_curve_for(record.topology), target_proof_blocks) :
             AdjustDifficulty(record, active, next)
        /\ WriteQBlock(record, active, reward)
        /\ UNCHANGED <<TopologyCurveC, BlockRewardOverride, TargetProofBlocksOverride, accepted>>
  BY WinForms
<1>2. record.miner \in Accounts /\ record.energy \in Int /\ record.topology \in Topologies
  BY DEF ProofRecord
<1>3. Difficulties' \in [Topologies -> DifficultyConfig \cup {None}]
  <2>1. PICK next \in adjust_on_proof(active, record.energy, MiningTime,
                        energy_curve_for(record.topology), target_proof_blocks) :
             AdjustDifficulty(record, active, next)
    BY <1>1
  <2>2. next \in DifficultyConfig
    BY <1>2, InForce, HardenBounds
  <2> QED BY <1>2, <2>1, <2>2 DEF AdjustDifficulty, BookTypes
<1>4. pot' \in Nat /\ free' \in [Accounts -> Nat]
  BY <1>1, <1>2 DEF BookTypes
<1>5. Miners' \in [Accounts -> MinerInfo \cup {None}]
  <2>1. CASE Miners[record.miner] = None
    BY <1>1, <2>1 DEF CreditMiner, BookTypes
  <2>2. CASE Miners[record.miner] # None
    <3>1. Miners[record.miner] \in MinerInfo
      BY <1>2, <2>2 DEF BookTypes
    <3>2. [Miners[record.miner] EXCEPT !.won = @ + 1, !.earned = @ + reward] \in MinerInfo
      <4>1. PICK m \in MinerInfo : m = Miners[record.miner]
        BY <3>1
      <4>2. [m EXCEPT !.won = @ + 1, !.earned = @ + reward] \in MinerInfo
        <5>1. [m EXCEPT !.won = @ + 1] \in MinerInfo
          BY DEF MinerInfo
        <5>2. \A n \in MinerInfo : [n EXCEPT !.earned = @ + reward] \in MinerInfo
          BY DEF MinerInfo
        <5> QED BY <5>1, <5>2
      <4> QED BY <4>1, <4>2
    <3>3. Miners' = [Miners EXCEPT ![record.miner] =
                       [Miners[record.miner] EXCEPT !.won = @ + 1, !.earned = @ + reward]]
      BY <1>1, <1>2, <2>2, <3>1 DEF CreditMiner, BookTypes, MinerInfo
    <3> QED BY <1>2, <3>2, <3>3 DEF BookTypes
  <2> QED BY <2>1, <2>2
<1>6. \A b \in DOMAIN QBlocks' : QBlocks'[b].reward \in Nat
  BY <1>1 DEF WriteQBlock, insert, BookTypes
<1> QED BY <1>1, <1>3, <1>4, <1>5, <1>6 DEF BookTypes

(***************************************************************************)
(* The books keep their types: balances and the pot never fall below zero, *)
(* every threshold, curve and reward in force is one of its type.          *)
(***************************************************************************)
THEOREM BooksTyped == Spec => []BookTypes
<1>1. Init => BookTypes
  <2> SUFFICES ASSUME Init PROVE BookTypes
    OBVIOUS
  <2>1. DOMAIN QBlocks = {} /\ Funds \in Nat
    BY InputAssumption DEF Init
  <2> QED BY <2>1 DEF Init, BookTypes
<1>2. RoundTypes /\ BookTypes /\ [Next]_vars => BookTypes'
  <2> SUFFICES ASSUME RoundTypes, BookTypes, [Next]_vars PROVE BookTypes'
    OBVIOUS
  <2>1. CASE MinerCalls \/ AdminCalls
    BY <2>1, MinerCallsTyped, AdminCallsTyped
  <2>2. CASE FundPot
    <3>1. /\ pot' = pot + PotFunding
          /\ UNCHANGED <<adminVars, minerVars, proofVars, qblockVars>>
      BY <2>2 DEF FundPot
    <3>2. PotFunding \in Nat
      BY InputAssumption
    <3>3. pot' \in Nat
      BY <3>1, <3>2 DEF BookTypes
    <3> QED BY <3>1, <3>3 DEF BookTypes, adminVars, minerVars, proofVars, qblockVars
  <2>3. CASE FinaliseWinner
    BY <2>3, WinTyped
  <2>4. CASE UNCHANGED <<adminVars, minerVars, BlockBestProof, qblockVars, pot>>
    BY <2>4 DEF BookTypes, adminVars, minerVars, qblockVars
  <2> QED BY <2>1, <2>2, <2>3, <2>4
          DEF Next, Calls, on_initialize, on_finalize, FinaliseWithoutProof, Bounded, vars, proofVars
<1> QED BY <1>1, <1>2, RoundsCorrect, PTL DEF Spec

(***************************************************************************)
(* The qblocks on_finalize writes keep their whole contract (RoundsSound): *)
(* indexes, hash chain of seeds, and no nonce twice.                       *)
(***************************************************************************)
THEOREM RoundsStaySound == Spec => []RoundsSound
  <1>1. RoundTypes /\ BookTypes /\ RoundInductive /\ NonceWinsOnce => RoundsSound
    BY DEF RoundsSound, TypeOK
  <1>. QED  BY <1>1, RoundsCorrect, BooksTyped, NoReplay, PTL
-----------------------------------------------------------------------------
(* Thresholds. *)

(***************************************************************************)
(* EasesOnlyWhenOverdue: for any curves, targets and governance, no round  *)
(* is eased before it is overdue, none past the easy end of its curve, and *)
(* a live threshold is never harder than the stored one.                   *)
(***************************************************************************)
THEOREM NeverEasedEarly == Spec => []EasesOnlyWhenOverdue
<1>1. RoundTypes /\ BookTypes => EasesOnlyWhenOverdue
  <2> SUFFICES ASSUME RoundTypes, BookTypes, NEW t \in RegisteredTopologies
               PROVE  LET live == current_difficulty_for(t).max_energy
                          base == BaseDifficulty(t).max_energy
                      IN /\ live >= base
                         /\ live > base => /\ LastProofBlock > 0
                                           /\ now - LastProofBlock > target_proof_blocks
                                           /\ live <= energy_curve_for(t).max
    BY DEF EasesOnlyWhenOverdue
  <2>1. t \in Topologies /\ now \in 0..MaxBlock /\ LastProofBlock \in Nat
    BY PowAssumption DEF RoundTypes
  <2> QED BY <2>1, InForce, LiveBounds DEF current_difficulty_for
<1> QED BY <1>1, RoundsCorrect, BooksTyped, PTL

(***************************************************************************)
(* BlocksNeverHarden: for any curve, room and target, no block of waiting  *)
(* makes a threshold harder, through the geometric phase of apply_decay,   *)
(* the linear one and the change from one to the other.                    *)
(***************************************************************************)
THEOREM WaitingNeverHardens == Spec => BlocksNeverHarden
<1>1. RoundTypes /\ BookTypes /\ [Next]_vars =>
        [~inBlock /\ inBlock' =>
           \A t \in Topologies :
             current_difficulty_for(t).max_energy <= current_difficulty_for(t)'.max_energy]_vars
  <2> SUFFICES ASSUME RoundTypes, BookTypes, [Next]_vars, ~inBlock, inBlock', NEW t \in Topologies
               PROVE  current_difficulty_for(t).max_energy <= current_difficulty_for(t)'.max_energy
    OBVIOUS
  <2>1. on_initialize
    BY DEF Next, on_finalize, Calls, Bounded, vars
  <2>2. /\ now' = now + 1 /\ now < MaxBlock /\ LastProofBlock' = LastProofBlock
        /\ Difficulties' = Difficulties /\ TopologyCurveC' = TopologyCurveC
        /\ TargetProofBlocksOverride' = TargetProofBlocksOverride
    BY <2>1 DEF on_initialize, adminVars
  <2>3. /\ BaseDifficulty(t)' = BaseDifficulty(t) /\ energy_curve_for(t)' = energy_curve_for(t)
        /\ target_proof_blocks' = target_proof_blocks
    BY <2>2 DEF BaseDifficulty, energy_curve_for, target_proof_blocks
  <2>4. current_difficulty_for(t)'
          = current_difficulty(now + 1, BaseDifficulty(t), LastProofBlock, energy_curve_for(t),
                               target_proof_blocks)
    BY <2>2, <2>3 DEF current_difficulty_for
  <2>5. now \in Nat /\ now + 1 <= MaxBlock /\ LastProofBlock \in Nat
    BY <2>2, PowAssumption DEF RoundTypes
  <2> QED BY <2>4, <2>5, InForce, LiveGrows DEF current_difficulty_for
<1> QED BY <1>1, RoundsCorrect, BooksTyped, PTL DEF Spec, BlocksNeverHarden

\* A step that ends a block with a best proof is a win.
LEMMA EndOfBlock ==
  ASSUME [Next]_vars, inBlock, ~inBlock', BlockBestProof # None
  PROVE  FinaliseWinner
  BY DEF Next, on_initialize, on_finalize, FinaliseWithoutProof, Calls, Bounded, vars

(***************************************************************************)
(* WinHardensOwnTopology: for any curves, thresholds, sampled rates and    *)
(* governance in between, a win moves the threshold of its own topology    *)
(* only, harder, past neither the winner nor the span cap.                 *)
(***************************************************************************)
THEOREM WinsHardenOwn == Spec => WinHardensOwnTopology
<1>1. RoundTypes /\ BookTypes /\ [Next]_vars =>
        [\A t \in Topologies :
           (inBlock /\ ~inBlock' /\ BlockBestProof # None) =>
             LET live == current_difficulty_for(t)
                 next == Difficulties'[t]
             IN  IF t # BlockBestProof.topology THEN next = Difficulties[t]
                 ELSE /\ next # None
                      /\ next.max_energy <= live.max_energy
                      /\ next.max_energy >= MinOf(BlockBestProof.energy, live.max_energy)
                      /\ live.max_energy - next.max_energy <= max_hardening_delta(energy_curve_for(t))
                      /\ next.min_solutions = live.min_solutions]_vars
  <2> SUFFICES ASSUME RoundTypes, BookTypes, [Next]_vars,
                      NEW t \in Topologies, inBlock, ~inBlock', BlockBestProof # None
               PROVE  LET live == current_difficulty_for(t)
                          next == Difficulties'[t]
                      IN  IF t # BlockBestProof.topology THEN next = Difficulties[t]
                          ELSE /\ next # None
                               /\ next.max_energy <= live.max_energy
                               /\ next.max_energy >= MinOf(BlockBestProof.energy, live.max_energy)
                               /\ live.max_energy - next.max_energy
                                    <= max_hardening_delta(energy_curve_for(t))
                               /\ next.min_solutions = live.min_solutions
    OBVIOUS
  <2>1. PICK record \in ProofRecord, active \in DifficultyConfig, reward \in Nat :
          /\ BlockBestProof = record
          /\ active = current_difficulty_for(record.topology)
          /\ \E next \in adjust_on_proof(active, record.energy, MiningTime,
                           energy_curve_for(record.topology), target_proof_blocks) :
               AdjustDifficulty(record, active, next)
    <3>1. FinaliseWinner
      BY EndOfBlock
    <3> QED BY <3>1, WinForms
  <2>2. PICK next \in adjust_on_proof(active, record.energy, MiningTime,
                        energy_curve_for(record.topology), target_proof_blocks) :
             AdjustDifficulty(record, active, next)
    BY <2>1
  <2>3. record.topology \in Topologies /\ record.energy \in Int
    BY DEF ProofRecord
  <2>4. energy_curve_for(record.topology) \in EnergyCurve
    BY <2>3, InForce
  <2>5. /\ next \in DifficultyConfig
        /\ next.min_solutions = active.min_solutions
        /\ next.max_energy <= active.max_energy
        /\ next.max_energy >= MinOf(record.energy, active.max_energy)
        /\ active.max_energy - next.max_energy
             <= max_hardening_delta(energy_curve_for(record.topology))
    BY <2>3, <2>4, HardenBounds
  <2>6. Difficulties' = [Difficulties EXCEPT ![record.topology] = next]
    BY <2>2 DEF AdjustDifficulty
  <2>7. Difficulties'[record.topology] = next
        /\ (t # record.topology => Difficulties'[t] = Difficulties[t])
    BY <2>3, <2>6 DEF BookTypes
  <2>8. next # None
    BY <2>5, NoneAssumption
  <2> QED BY <2>1, <2>5, <2>7, <2>8
<1> QED BY <1>1, RoundsCorrect, BooksTyped, PTL DEF Spec, WinHardensOwnTopology
-----------------------------------------------------------------------------
(* The race within a block. *)

Nonces == {derive_nonce(BlockHash(b), who, salt) : b \in Nat, who \in Accounts, salt \in Salts}
Acceptance == [record : ProofRecord, nonce : Nonces]

\* What makes BestProofWins inductive: while a block runs, every proof accepted in it
\* commits to the seed that on_finalize will store.
RaceInductive ==
  /\ accepted \in Seq(Acceptance)
  /\ inBlock => \A i \in DOMAIN accepted :
       accepted[i].nonce = derive_nonce(LastProofBlockHash, accepted[i].record.miner,
                                        accepted[i].record.salt)
  /\ BestProofWins

\* The first of the best of a block's proofs.
Best(s, i) ==
  /\ \A j \in DOMAIN s : s[i].record.energy <= s[j].record.energy
  /\ \A j \in 1..(i - 1) : s[i].record.energy < s[j].record.energy

\* What the best proof of the running block and the last winner have to be.
Leads == IF accepted = << >> THEN BlockBestProof = None
         ELSE \E i \in DOMAIN accepted : Best(accepted, i) /\ BlockBestProof = accepted[i].record
Won(i) ==
  /\ Best(accepted, i) /\ now \in DOMAIN QBlocks
  /\ QBlocks[now].miner = accepted[i].record.miner
  /\ QBlocks[now].energy = accepted[i].record.energy
  /\ derive_nonce(QBlocks[now].last_proof_block_hash, QBlocks[now].miner, QBlocks[now].salt)
       = accepted[i].nonce

Settled == accepted # << >> => \E i \in DOMAIN accepted : Won(i)

LEMMA RaceParts ==
  BestProofWins <=> /\ inBlock => Leads
                    /\ ~inBlock => BlockBestProof = None
                    /\ ~inBlock /\ now > 0 => Settled
  BY DEF BestProofWins, Leads, Won, Best, Settled

\* A submission: the new proof leads if it is strictly better, or the first.
LEMMA SubmissionRaces ==
  ASSUME RoundTypes, BookTypes, RaceInductive, inBlock, inBlock',
         NEW who \in Accounts, NEW t \in Topologies, NEW salt \in Salts, NEW s \in Solutions,
         NEW b \in 0..now,
         submit_proof(who, t, derive_nonce(BlockHash(b), who, salt), salt, s)
  PROVE  RaceInductive'
<1> DEFINE record == [miner |-> who, submitted_at |-> now, salt |-> salt, topology |-> t,
                      energy |-> BestEnergy(s, current_difficulty_for(t))]
           nonce == derive_nonce(BlockHash(b), who, salt)
           entry == [record |-> record, nonce |-> nonce]
           n == Len(accepted)
<1>1. record \in ProofRecord
  <2>1. BestEnergy(s, current_difficulty_for(t)) \in Int
    BY BestEnergyInt DEF submit_proof, ClearsDifficulty
  <2>2. now \in Nat
    BY DEF RoundTypes
  <2> QED BY <2>1, <2>2 DEF ProofRecord
<1>2. /\ nonce = derive_nonce(LastProofBlockHash, who, salt)
      /\ accepted' = Append(accepted, entry)
      /\ BlockBestProof' = IF Displaces(record) THEN record ELSE BlockBestProof
      /\ UNCHANGED LastProofBlockHash
  BY DEF submit_proof, roundVars
<1>3. entry \in Acceptance /\ entry.record = record /\ entry.nonce = nonce
  <2>1. nonce \in Nonces
    BY DEF Nonces, RoundTypes
  <2> QED BY <1>1, <2>1 DEF Acceptance
<1>11. record.miner = who /\ record.salt = salt /\ record.energy \in Int
  BY <1>1 DEF ProofRecord
<1> HIDE DEF record, nonce, entry
<1>4. /\ accepted \in Seq(Acceptance) /\ n \in Nat /\ DOMAIN accepted = 1..n
      /\ accepted' \in Seq(Acceptance) /\ DOMAIN accepted' = 1..(n + 1)
      /\ accepted'[n + 1] = entry /\ \A i \in 1..n : accepted'[i] = accepted[i]
      /\ accepted' # << >>
  <2>1. accepted \in Seq(Acceptance) /\ n \in Nat /\ DOMAIN accepted = 1..n
    BY DEF RaceInductive
  <2> QED BY <1>2, <1>3, <2>1
<1>5. \A i \in 1..n : accepted[i].record \in ProofRecord /\ accepted[i].record.energy \in Int
  <2>1. \A i \in 1..n : accepted[i] \in Acceptance
    BY <1>4
  <2>2. \A x \in Acceptance : x.record \in ProofRecord
    BY DEF Acceptance
  <2>3. \A x \in ProofRecord : x.energy \in Int
    BY DEF ProofRecord
  <2> QED BY <2>1, <2>2, <2>3
<1>6. \A i \in DOMAIN accepted' :
        accepted'[i].nonce = derive_nonce(LastProofBlockHash', accepted'[i].record.miner,
                                          accepted'[i].record.salt)
  BY <1>2, <1>3, <1>4, <1>11 DEF RaceInductive, derive_nonce
<1>7. Leads
  BY RaceParts DEF RaceInductive
<1>8. Leads'
  <2>1. CASE BlockBestProof = None
    <3>1. n = 0
      <4>1. accepted = << >>
        BY <1>4, <1>5, <1>7, <2>1, NoneAssumption DEF Leads
      <4> QED BY <4>1
    <3>2. Best(accepted', 1) /\ accepted'[1].record = record
      BY <1>3, <1>4, <1>11, <3>1 DEF Best
    <3> QED BY <1>2, <1>4, <2>1, <3>1, <3>2 DEF Leads, Displaces
  <2>2. CASE BlockBestProof # None
    <3>1. PICK i \in 1..n : Best(accepted, i) /\ BlockBestProof = accepted[i].record
      BY <1>4, <1>7, <2>2 DEF Leads
    <3>2. CASE record.energy < BlockBestProof.energy
      <4>1. Best(accepted', n + 1)
        <5>1. \A j \in 1..n : record.energy < accepted[j].record.energy
          <6>1. \A j \in 1..n : accepted[i].record.energy <= accepted[j].record.energy
            BY <1>4, <3>1 DEF Best
          <6>2. accepted[i].record.energy \in Int /\ record.energy < accepted[i].record.energy
            BY <1>5, <3>1, <3>2
          <6> TAKE j \in 1..n
          <6>3. accepted[j].record.energy \in Int /\ accepted[i].record.energy <= accepted[j].record.energy
            BY <1>5, <6>1
          <6> QED BY <1>11, <6>2, <6>3
        <5>2. accepted'[n + 1].record = record
          BY <1>3, <1>4
        <5>3. \A j \in 1..n : record.energy < accepted'[j].record.energy
          BY <1>4, <5>1
        <5>4. \A j \in 1..(n + 1) : record.energy <= accepted'[j].record.energy
          <6> TAKE j \in 1..(n + 1)
          <6>1. CASE j = n + 1
            BY <1>11, <5>2, <6>1
          <6>2. CASE j # n + 1
            <7>1. j \in 1..n
              BY <1>4, <6>2
            <7>2. accepted'[j].record.energy \in Int
              BY <1>4, <1>5, <7>1
            <7> QED BY <1>11, <5>3, <7>1, <7>2
          <6> QED BY <6>1, <6>2
        <5>5. (n + 1) - 1 = n
          BY <1>4
        <5> QED BY <1>4, <5>2, <5>3, <5>4, <5>5 DEF Best
      <4>2. BlockBestProof' = accepted'[n + 1].record
        BY <1>2, <1>3, <1>4, <3>2 DEF Displaces
      <4> QED BY <1>4, <4>1, <4>2 DEF Leads
    <3>3. CASE ~(record.energy < BlockBestProof.energy)
      <4>1. Best(accepted', i)
        <5>1. accepted[i].record.energy <= record.energy
          BY <1>5, <1>11, <3>1, <3>3
        <5>2. accepted'[i].record = accepted[i].record
          BY <1>4
        <5>3. \A j \in 1..(n + 1) : accepted[i].record.energy <= accepted'[j].record.energy
          <6> TAKE j \in 1..(n + 1)
          <6>1. CASE j = n + 1
            BY <1>3, <1>4, <5>1, <6>1
          <6>2. CASE j # n + 1
            <7>1. j \in 1..n
              BY <1>4, <6>2
            <7>2. accepted'[j].record = accepted[j].record
              BY <1>4, <7>1
            <7>3. accepted[i].record.energy <= accepted[j].record.energy
              BY <1>4, <3>1, <7>1 DEF Best
            <7> QED BY <7>2, <7>3
          <6> QED BY <6>1, <6>2
        <5>4. \A j \in 1..(i - 1) : accepted[i].record.energy < accepted'[j].record.energy
          <6> TAKE j \in 1..(i - 1)
          <6>1. j \in 1..n
            BY <1>4
          <6>2. accepted'[j].record = accepted[j].record
            BY <1>4, <6>1
          <6> QED BY <3>1, <6>2 DEF Best
        <5> QED BY <1>4, <5>2, <5>3, <5>4 DEF Best
      <4>2. BlockBestProof' = accepted'[i].record
        BY <1>2, <1>4, <2>2, <3>1, <3>3 DEF Displaces
      <4> QED BY <1>4, <4>1, <4>2 DEF Leads
    <3> QED BY <3>2, <3>3
  <2> QED BY <2>1, <2>2
<1>9. BestProofWins'
  BY <1>8, RaceParts, PTL
<1> QED BY <1>4, <1>6, <1>9 DEF RaceInductive
\* A win is the qblock of the leading proof, under the seed that proof commits to.
LEMMA WinRaces ==
  ASSUME RoundTypes, BookTypes, RaceInductive, inBlock, ~inBlock', UNCHANGED now, FinaliseWinner
  PROVE  RaceInductive'
<1>1. PICK record \in ProofRecord, active \in DifficultyConfig, reward \in Nat :
        /\ BlockBestProof = record /\ BlockBestProof' = None
        /\ WriteQBlock(record, active, reward)
        /\ UNCHANGED accepted
  BY WinForms
<1>2. /\ now \in DOMAIN QBlocks'
      /\ QBlocks'[now].miner = record.miner /\ QBlocks'[now].salt = record.salt
      /\ QBlocks'[now].energy = record.energy
      /\ QBlocks'[now].last_proof_block_hash = LastProofBlockHash
  BY <1>1 DEF WriteQBlock, insert
<1>3. Leads
  BY RaceParts DEF RaceInductive
<1>4. PICK i \in DOMAIN accepted : Best(accepted, i) /\ record = accepted[i].record
  BY <1>1, <1>3, NoneAssumption DEF Leads
<1>5. accepted[i].nonce = derive_nonce(LastProofBlockHash, record.miner, record.salt)
  BY <1>4 DEF RaceInductive
<1>6. Won(i)'
  BY <1>1, <1>2, <1>4, <1>5 DEF Won, Best, derive_nonce
<1>7. Settled'
  BY <1>1, <1>6 DEF Settled
<1>8. BestProofWins'
  <2>1. (~inBlock)' /\ (BlockBestProof = None)'
    BY <1>1
  <2> QED BY <1>7, <2>1, RaceParts, PTL
<1> QED BY <1>1, <1>8 DEF RaceInductive

\* A step that leaves the race alone.
LEMMA RaceRests ==
  ASSUME RaceInductive, UNCHANGED <<now, inBlock, proofVars, LastProofBlockHash, QBlocks>>
  PROVE  RaceInductive'
  BY DEF RaceInductive, BestProofWins, proofVars, derive_nonce

\* A call is a submission or leaves the race alone.
LEMMA CallRaces ==
  ASSUME Calls
  PROVE  \/ UNCHANGED <<now, inBlock, proofVars, LastProofBlockHash, QBlocks>>
         \/ /\ inBlock /\ inBlock'
            /\ \E who \in Accounts, t \in Topologies, salt \in Salts, s \in Solutions, b \in 0..now :
                 submit_proof(who, t, derive_nonce(BlockHash(b), who, salt), salt, s)
<1>1. UNCHANGED <<now, inBlock, LastProofBlockHash, QBlocks>> /\ inBlock
  BY CallForms DEF Calls, roundVars, qblockVars
<1>2. CASE MinerCalls
  <2>1. ASSUME NEW who, register_miner(who) \/ deregister_miner(who) \/ Spend(who)
        PROVE  UNCHANGED proofVars
    BY <2>1 DEF register_miner, deregister_miner, Spend
  <2> QED BY <1>1, <1>2, <2>1 DEF MinerCalls
<1>3. CASE AdminCalls
  <2>1. UNCHANGED proofVars
    BY <1>3 DEF AdminCalls, register_topology, set_default_topology, add_mineable_topology,
         remove_mineable_topology, set_difficulty, set_topology_curve, set_block_reward,
         set_target_proof_blocks
  <2> QED BY <1>1, <2>1
<1>4. CASE FundPot
  BY <1>1, <1>4 DEF FundPot
<1> QED BY <1>2, <1>3, <1>4 DEF Calls

(***************************************************************************)
(* BestProofWins: for any number of miners and of proofs in a block, in    *)
(* any order, the block's qblock is the first of the best proofs accepted  *)
(* in it, its nonce can be derived from the record, also when the miner    *)
(* has deregistered, and nothing leaks into the next block.                *)
(***************************************************************************)
THEOREM BestWins == Spec => []BestProofWins
<1>1. Init => RaceInductive
  <2> SUFFICES ASSUME Init PROVE RaceInductive
    OBVIOUS
  <2>1. now = 0 /\ ~inBlock /\ BlockBestProof = None /\ accepted = << >>
    BY DEF Init
  <2>2. BestProofWins
    BY <2>1, RaceParts DEF Settled
  <2> QED BY <2>1, <2>2 DEF RaceInductive
<1>2. RoundTypes /\ BookTypes /\ RaceInductive /\ [Next]_vars => RaceInductive'
  <2> SUFFICES ASSUME RoundTypes, BookTypes, RaceInductive, [Next]_vars PROVE RaceInductive'
    OBVIOUS
  <2>1. CASE Calls
    BY <2>1, CallRaces, RaceRests, SubmissionRaces
  <2>2. CASE on_initialize
    <3>1. accepted' = << >> /\ inBlock' /\ ~inBlock /\ UNCHANGED BlockBestProof
      BY <2>2 DEF on_initialize
    <3>2. BlockBestProof = None
      BY <3>1, RaceParts DEF RaceInductive
    <3>3. Leads'
      BY <3>1, <3>2 DEF Leads
    <3>4. BestProofWins'
      BY <3>1, <3>3, RaceParts, PTL
    <3> QED BY <3>1, <3>4 DEF RaceInductive
  <2>3. CASE on_finalize /\ FinaliseWithoutProof
    <3>1. /\ inBlock /\ ~inBlock' /\ BlockBestProof = None
          /\ UNCHANGED <<now, accepted, BlockBestProof>>
      BY <2>3 DEF on_finalize, FinaliseWithoutProof, proofVars
    <3>2. Leads
      BY <3>1, RaceParts DEF RaceInductive
    <3>3. \A i \in DOMAIN accepted : accepted[i].record # None
      <4>1. \A i \in DOMAIN accepted : accepted[i] \in Acceptance
        BY DEF RaceInductive
      <4> QED BY <4>1, NoneAssumption DEF Acceptance
    <3>4. accepted = << >>
      BY <3>1, <3>2, <3>3 DEF Leads
    <3>5. Settled'
      BY <3>1, <3>4 DEF Settled
    <3>6. BestProofWins'
      <4>1. (~inBlock)' /\ (BlockBestProof = None)'
        BY <3>1
      <4> QED BY <3>5, <4>1, RaceParts, PTL
    <3> QED BY <3>1, <3>4, <3>6 DEF RaceInductive
  <2>4. CASE on_finalize /\ FinaliseWinner
    BY <2>4, WinRaces DEF on_finalize
  <2>5. CASE UNCHANGED vars
    BY <2>5, RaceRests DEF vars, roundVars, qblockVars
  <2> QED BY <2>1, <2>2, <2>3, <2>4, <2>5 DEF Next, Bounded, on_finalize
<1>3. RaceInductive => BestProofWins
  BY DEF RaceInductive
<1> QED BY <1>1, <1>2, <1>3, RoundsCorrect, BooksTyped, PTL DEF Spec

-----------------------------------------------------------------------------
(* The miners' books. *)

\* The qblocks a miner has won since it registered, and its entry as they tell it.
OwnQBlocks(who) ==
  {q \in DOMAIN QBlocks : QBlocks[q].miner = who /\ q >= Miners[who].registered_at}
Credited(who) ==
  /\ Miners[who].registered_at <= now
  /\ Miners[who].won = Cardinality(OwnQBlocks(who))
  /\ Miners[who].earned =
       SumFunctionOnSet([q \in OwnQBlocks(who) |-> QBlocks[q].reward], OwnQBlocks(who))
LedgerInductive == \A who \in Accounts : Miners[who] # None => Credited(who)

\* The blocks with a record, all of them before the running one.
LEMMA RecordedBlocks ==
  ASSUME RoundTypes, RoundInductive
  PROVE  /\ DOMAIN QBlocks \subseteq Blocks /\ IsFiniteSet(DOMAIN QBlocks)
         /\ \A q \in DOMAIN QBlocks : q \in Nat /\ q <= LastProofBlock
<1>1. DOMAIN QBlocks \subseteq Blocks /\ \A q \in DOMAIN QBlocks : q <= LastProofBlock
  BY DEF RoundInductive, QBlockIndexed
<1>2. IsFiniteSet(Blocks)
  BY PowAssumption, FS_Interval DEF Blocks
<1>3. IsFiniteSet(DOMAIN QBlocks)
  BY <1>1, <1>2, FS_Subset
<1> QED BY <1>1, <1>3 DEF Blocks

\* A step that leaves an entry's registration and record of wins alone, and the qblocks.
LEMMA CreditKept ==
  ASSUME NEW who, Credited(who), UNCHANGED QBlocks, now' >= now, now \in Nat, now' \in Nat,
         Miners[who].registered_at \in Nat,
         Miners'[who].registered_at = Miners[who].registered_at,
         Miners'[who].won = Miners[who].won, Miners'[who].earned = Miners[who].earned
  PROVE  Credited(who)'
<1>1. OwnQBlocks(who)' = OwnQBlocks(who)
  BY DEF OwnQBlocks
<1> QED BY <1>1 DEF Credited

\* A new entry has no qblocks.
LEMMA FreshEntry ==
  ASSUME RoundTypes, RoundInductive, inBlock, UNCHANGED <<now, QBlocks>>, NEW who,
         Miners'[who].registered_at = now, Miners'[who].won = 0, Miners'[who].earned = 0
  PROVE  Credited(who)'
<1>1. LastProofBlock < now /\ LastProofBlock \in Nat /\ now \in Nat
  BY PowAssumption DEF RoundInductive, RoundTypes
<1>2. OwnQBlocks(who)' = {}
  BY <1>1, RecordedBlocks DEF OwnQBlocks
<1>3. Cardinality({}) = 0
  BY FS_EmptySet
<1>4. SumFunctionOnSet([q \in {} |-> QBlocks'[q].reward], {}) = 0
  BY SumEmpty
<1> QED BY <1>1, <1>2, <1>3, <1>4 DEF Credited

\* The winner's entry gains its qblock, and its reward.
LEMMA WinnerCredited ==
  ASSUME RoundTypes, BookTypes, RoundInductive, inBlock, UNCHANGED now,
         NEW record \in ProofRecord, NEW active, NEW reward \in Nat,
         WriteQBlock(record, active, reward),
         Miners[record.miner] # None, Credited(record.miner),
         Miners'[record.miner].registered_at = Miners[record.miner].registered_at,
         Miners'[record.miner].won = Miners[record.miner].won + 1,
         Miners'[record.miner].earned = Miners[record.miner].earned + reward
  PROVE  Credited(record.miner)'
<1> DEFINE who == record.miner
           own == OwnQBlocks(who)
           f == [q \in own |-> QBlocks[q].reward]
           g == [q \in own \cup {now} |-> QBlocks'[q].reward]
<1>1. /\ DOMAIN QBlocks' = DOMAIN QBlocks \cup {now}
      /\ \A q \in DOMAIN QBlocks : q # now => QBlocks'[q] = QBlocks[q]
      /\ QBlocks'[now].miner = who /\ QBlocks'[now].reward = reward
  BY DEF WriteQBlock, insert
<1>2. LastProofBlock < now /\ LastProofBlock \in Nat /\ now \in Nat
  BY PowAssumption DEF RoundInductive, RoundTypes
<1>3. now \notin DOMAIN QBlocks /\ IsFiniteSet(DOMAIN QBlocks)
  BY <1>2, RecordedBlocks
<1>4. Miners[who].registered_at <= now /\ Miners[who].registered_at \in Nat
  BY DEF Credited, BookTypes, ProofRecord, MinerInfo
<1>5. OwnQBlocks(who)' = own \cup {now}
  BY <1>1, <1>2, <1>3, <1>4 DEF OwnQBlocks
<1>6. own \subseteq DOMAIN QBlocks
  BY DEF OwnQBlocks
<1>7. IsFiniteSet(own) /\ now \notin own
  BY <1>3, <1>6, FS_Subset
<1>8. Cardinality(own \cup {now}) = Cardinality(own) + 1
  BY <1>7, FS_AddElement
<1>9. SumFunctionOnSet(g, own \cup {now}) = reward + SumFunctionOnSet(f, own)
      /\ SumFunctionOnSet(f, own) \in Int
  <2>1. \A q \in own : f[q] \in Int /\ g[q] = f[q]
    BY <1>1, <1>3, <1>6 DEF BookTypes
  <2>2. g[now] = reward /\ g[now] \in Int
    BY <1>1
  <2> HIDE DEF f, g, own
  <2>3. SumFunctionOnSet(g, own \cup {now}) = g[now] + SumFunctionOnSet(f, own)
        /\ SumFunctionOnSet(f, own) \in Int
    BY <1>7, <2>1, <2>2, SumExtend
  <2> QED BY <2>2, <2>3
<1>10. Miners[who].won = Cardinality(own) /\ Miners[who].earned = SumFunctionOnSet(f, own)
  BY DEF Credited
<1>11. /\ Miners'[who].won = Cardinality(own \cup {now})
       /\ Miners'[who].earned = SumFunctionOnSet(g, own \cup {now})
       /\ Miners'[who].registered_at <= now'
  <2> HIDE DEF f, g, own
  <2> QED BY <1>4, <1>8, <1>9, <1>10
<1> HIDE DEF own, who
<1> QED BY <1>5, <1>11 DEF Credited, who
\* A win changes no other miner's books.
LEMMA OthersCredited ==
  ASSUME RoundTypes, RoundInductive, inBlock, UNCHANGED now,
         NEW record, NEW active, NEW reward, WriteQBlock(record, active, reward),
         NEW who, who # record.miner, Miners'[who] = Miners[who], Credited(who)
  PROVE  Credited(who)'
<1>1. /\ DOMAIN QBlocks' = DOMAIN QBlocks \cup {now}
      /\ \A q \in DOMAIN QBlocks : q # now => QBlocks'[q] = QBlocks[q]
      /\ QBlocks'[now].miner = record.miner
  BY DEF WriteQBlock, insert
<1>2. now \notin DOMAIN QBlocks
  BY RecordedBlocks DEF RoundInductive, RoundTypes
<1>3. OwnQBlocks(who)' = OwnQBlocks(who)
  BY <1>1, <1>2 DEF OwnQBlocks
<1>4. \A q \in OwnQBlocks(who) : QBlocks'[q] = QBlocks[q]
  BY <1>1, <1>2 DEF OwnQBlocks
<1>5. [q \in OwnQBlocks(who) |-> QBlocks'[q].reward] = [q \in OwnQBlocks(who) |-> QBlocks[q].reward]
  BY <1>4
<1> QED BY <1>3, <1>5 DEF Credited

\* A win books itself with its miner.
LEMMA WinBooked ==
  ASSUME RoundTypes, BookTypes, RoundInductive, LedgerInductive,
         inBlock, UNCHANGED now, FinaliseWinner
  PROVE  LedgerInductive'
<1>1. PICK record \in ProofRecord, active \in DifficultyConfig, reward \in Nat :
        CreditMiner(record.miner, reward) /\ WriteQBlock(record, active, reward)
  BY WinForms
<1>2. record.miner \in Accounts /\ Miners \in [Accounts -> MinerInfo \cup {None}]
  BY DEF ProofRecord, BookTypes
<1> SUFFICES ASSUME NEW who \in Accounts, Miners'[who] # None PROVE Credited(who)'
  BY DEF LedgerInductive
<1>3. CASE who # record.miner
  <2>1. Miners'[who] = Miners[who]
    BY <1>1, <1>2, <1>3 DEF CreditMiner
  <2>2. Credited(who)
    BY <2>1 DEF LedgerInductive
  <2> QED BY <1>1, <1>3, <2>1, <2>2, OthersCredited
<1>4. CASE who = record.miner
  <2>1. Miners[who] # None
    BY <1>1, <1>4 DEF CreditMiner
  <2>2. Miners[who] \in MinerInfo /\ Credited(who)
    BY <1>2, <2>1 DEF LedgerInductive
  <2>3. Miners'[who] = [Miners[who] EXCEPT !.won = @ + 1, !.earned = @ + reward]
    BY <1>1, <1>2, <1>4, <2>1, <2>2 DEF CreditMiner, MinerInfo
  <2>4. /\ Miners'[who].registered_at = Miners[who].registered_at
        /\ Miners'[who].won = Miners[who].won + 1
        /\ Miners'[who].earned = Miners[who].earned + reward
    BY <2>2, <2>3 DEF MinerInfo
  <2> QED BY <1>1, <1>4, <2>1, <2>2, <2>4, WinnerCredited
<1> QED BY <1>3, <1>4

\* A call books a registration and nothing else.
LEMMA CallBooked ==
  ASSUME RoundTypes, BookTypes, RoundInductive, LedgerInductive, Calls
  PROVE  LedgerInductive'
<1>1. inBlock /\ UNCHANGED <<now, QBlocks>>
  BY CallForms DEF Calls, qblockVars
<1>2. now \in Nat /\ Miners \in [Accounts -> MinerInfo \cup {None}]
  BY PowAssumption DEF RoundTypes, BookTypes
<1>3. ASSUME NEW who \in Accounts, Miners[who] # None,
             Miners'[who].registered_at = Miners[who].registered_at,
             Miners'[who].won = Miners[who].won, Miners'[who].earned = Miners[who].earned
      PROVE  Credited(who)'
  <2>1. Credited(who)
    BY <1>3 DEF LedgerInductive
  <2>2. Miners[who].registered_at \in Nat
    BY <1>2, <1>3 DEF MinerInfo
  <2>3. now' >= now /\ now' \in Nat
    BY <1>1, <1>2
  <2> QED BY <1>1, <1>2, <1>3, <2>1, <2>2, <2>3, CreditKept
<1>4. CASE UNCHANGED Miners
  BY <1>3, <1>4 DEF LedgerInductive
<1>5. ASSUME NEW who \in Accounts, register_miner(who) PROVE LedgerInductive'
  <2>1. Miners' = [Miners EXCEPT ![who] = [registered_at |-> now, deposit |-> MinerDeposit,
                                           submitted |-> 0, won |-> 0, earned |-> 0]]
    BY <1>5 DEF register_miner
  <2>2. Miners'[who].registered_at = now /\ Miners'[who].won = 0 /\ Miners'[who].earned = 0
    BY <1>2, <2>1
  <2>3. Credited(who)'
    BY <1>1, <2>2, FreshEntry
  <2>4. \A other \in Accounts : other # who => Miners'[other] = Miners[other]
    BY <1>2, <2>1
  <2> QED BY <1>3, <2>3, <2>4 DEF LedgerInductive
<1>6. ASSUME NEW who \in Accounts, deregister_miner(who) PROVE LedgerInductive'
  <2>1. Miners' = [Miners EXCEPT ![who] = None]
    BY <1>6 DEF deregister_miner
  <2>2. Miners'[who] = None /\ \A other \in Accounts : other # who => Miners'[other] = Miners[other]
    BY <1>2, <2>1
  <2> QED BY <1>3, <2>2 DEF LedgerInductive
<1>7. ASSUME NEW who \in Accounts, NEW t, NEW nonce, NEW salt, NEW s,
             submit_proof(who, t, nonce, salt, s)
      PROVE  LedgerInductive'
  <2>1. Miners' = [Miners EXCEPT ![who].submitted = @ + 1] /\ Miners[who] # None
    BY <1>7 DEF submit_proof
  <2>2. Miners[who] \in MinerInfo
    BY <1>2, <2>1
  <2>3. Miners'[who] = [Miners[who] EXCEPT !.submitted = @ + 1]
    BY <1>2, <2>1
  <2>4. /\ Miners'[who].registered_at = Miners[who].registered_at
        /\ Miners'[who].won = Miners[who].won /\ Miners'[who].earned = Miners[who].earned
    BY <2>2, <2>3 DEF MinerInfo
  <2>5. \A other \in Accounts : other # who => Miners'[other] = Miners[other]
    BY <1>2, <2>1
  <2> QED BY <1>3, <2>1, <2>4, <2>5 DEF LedgerInductive
<1>8. CASE MinerCalls
  BY <1>4, <1>5, <1>6, <1>7, <1>8 DEF MinerCalls, Spend
<1>9. CASE AdminCalls \/ FundPot
  <2>1. UNCHANGED Miners
    BY <1>9 DEF AdminCalls, FundPot, register_topology, set_default_topology,
         add_mineable_topology, remove_mineable_topology, set_difficulty, set_topology_curve,
         set_block_reward, set_target_proof_blocks, minerVars
  <2> QED BY <1>4, <2>1
<1> QED BY <1>8, <1>9 DEF Calls

(***************************************************************************)
(* MinerLedger: for any number of miners, blocks and rewards, what a miner *)
(* has won and earned is what the qblocks since its registration say.  A   *)
(* registration begins with clean books because no qblock of the running   *)
(* block exists yet, and what was paid, not what was asked for, is booked. *)
(***************************************************************************)
THEOREM LedgerCorrect == Spec => []MinerLedger
<1>1. Init => LedgerInductive
  BY DEF Init, LedgerInductive
<1>2. RoundTypes /\ BookTypes /\ RoundInductive /\ LedgerInductive /\ [Next]_vars => LedgerInductive'
  <2> SUFFICES ASSUME RoundTypes, BookTypes, RoundInductive, LedgerInductive, [Next]_vars
               PROVE  LedgerInductive'
    OBVIOUS
  <2>1. CASE Calls
    BY <2>1, CallBooked
  <2>2. CASE on_finalize /\ FinaliseWinner
    BY <2>2, WinBooked DEF on_finalize
  <2>3. ASSUME UNCHANGED <<Miners, QBlocks>>, now' = now \/ now' = now + 1 PROVE LedgerInductive'
    <3>1. now \in Nat /\ now' \in Nat /\ now' >= now
      BY <2>3, PowAssumption DEF RoundTypes
    <3>2. \A who \in Accounts : Miners[who] # None => Miners[who].registered_at \in Nat
      BY DEF BookTypes, MinerInfo
    <3> QED BY <2>3, <3>1, <3>2, CreditKept DEF LedgerInductive
  <2>4. CASE on_initialize
    BY <2>3, <2>4 DEF on_initialize, minerVars, qblockVars
  <2>5. CASE on_finalize /\ FinaliseWithoutProof
    BY <2>3, <2>5 DEF on_finalize, FinaliseWithoutProof, minerVars, qblockVars
  <2>6. CASE UNCHANGED vars
    BY <2>3, <2>6 DEF vars, minerVars, qblockVars
  <2> QED BY <2>1, <2>2, <2>4, <2>5, <2>6 DEF Next, Bounded, on_finalize
<1>3. LedgerInductive => MinerLedger
  BY DEF LedgerInductive, MinerLedger, Credited, OwnQBlocks
<1> QED BY <1>1, <1>2, <1>3, RoundsCorrect, BooksTyped, PTL DEF Spec
=============================================================================
