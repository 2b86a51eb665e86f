------------------------- MODULE MinerRegistry_proofs -------------------------
(***************************************************************************)
(* MinerRegistry for every set of accounts and descriptors: the books of   *)
(* the deposits, that past rounds are frozen, and that the index of        *)
(* participants can be read page by page.                                  *)
(***************************************************************************)
EXTENDS MinerRegistry, FiniteSetTheorems, SequenceTheorems, TLAPS

\* What keeps the reserves right: before the upgrade no row has been lost, and every row
\* is of one of the two layouts, so the upgrade returns what it does not lose.
ReserveInductive ==
  /\ DOMAIN NodeDescriptors = Accounts /\ reserved \in [Accounts -> Nat]
  /\ version # 2 => unread = {}
  /\ \A who \in Accounts : NodeDescriptors[who] # None => NodeDescriptors[who].layout \in {1, 2}
  /\ \A who \in Accounts : DepositOf(who) \in Nat
  /\ ReserveMatchesDeposit

\* Filing, growing or shrinking a descriptor moves reserve and deposit together.
LEMMA SetDescriptorReserves ==
  ASSUME ReserveInductive, NEW who \in Accounts, NEW input \in Inputs, version = 2, set_descriptor(who, input)
  PROVE  ReserveInductive'
  <1>. DEFINE d == descriptor_deposit(input)
  <1>1. d \in Nat /\ Funds \in Nat
    BY DepositAssumption, RegistryAssumption
  <1>2. /\ reserved' = [reserved EXCEPT ![who] = @ + d - DepositOf(who)]
        /\ d > DepositOf(who) => reserved[who] + d - DepositOf(who) <= Funds
        /\ NodeDescriptors' = [NodeDescriptors EXCEPT ![who] = [layout |-> 2, deposit |-> d]]
        /\ version' = version /\ unread' = unread /\ version = 2
    BY DEF set_descriptor, AdjustReserve, history
  <1>. HIDE DEF d
  <1>3. /\ who \notin unread => reserved[who] = DepositOf(who)
        /\ DepositOf(who) \in Nat /\ reserved[who] \in Nat
        /\ DepositOf(who) <= reserved[who] /\ reserved[who] <= Funds
    BY DEF ReserveInductive, ReserveMatchesDeposit
  <1>4. /\ who \notin unread => reserved'[who] = d
        /\ d <= reserved'[who] /\ reserved'[who] <= Funds /\ reserved'[who] \in Nat
    BY <1>1, <1>2, <1>3 DEF ReserveInductive
  <1>5. NodeDescriptors'[who] = [layout |-> 2, deposit |-> d]
    BY <1>2 DEF ReserveInductive
  <1>6. \A other \in Accounts \ {who} : /\ reserved'[other] = reserved[other]
                                        /\ NodeDescriptors'[other] = NodeDescriptors[other]
    BY <1>2 DEF ReserveInductive
  <1>7. DepositOf(who)' = d
    BY <1>1, <1>5, RegistryAssumption DEF DepositOf
  <1>8. \A other \in Accounts \ {who} : DepositOf(other)' = DepositOf(other)
    BY <1>6 DEF DepositOf
  <1>9. /\ DOMAIN NodeDescriptors' = Accounts /\ reserved' \in [Accounts -> Nat]
        /\ \A other \in Accounts : NodeDescriptors'[other] # None => NodeDescriptors'[other].layout \in {1, 2}
    BY <1>2, <1>4, <1>5, <1>6 DEF ReserveInductive
  <1>10. ReserveMatchesDeposit'
    BY <1>2, <1>4, <1>6, <1>7, <1>8 DEF ReserveInductive, ReserveMatchesDeposit
  <1>. QED  BY <1>1, <1>2, <1>7, <1>8, <1>9, <1>10 DEF ReserveInductive

LEMMA ClearDescriptorReserves ==
  ASSUME ReserveInductive, NEW who \in Accounts, version = 2, clear_descriptor(who)
  PROVE  ReserveInductive'
  <1>1. /\ reserved' = [reserved EXCEPT ![who] = @ - DepositOf(who)]
        /\ NodeDescriptors' = [NodeDescriptors EXCEPT ![who] = None]
        /\ version' = version /\ unread' = unread
    BY DEF clear_descriptor, history
  <1>2. /\ who \notin unread => reserved[who] = DepositOf(who)
        /\ DepositOf(who) \in Nat /\ reserved[who] \in Nat /\ Funds \in Nat
        /\ DepositOf(who) <= reserved[who] /\ reserved[who] <= Funds
    BY RegistryAssumption DEF ReserveInductive, ReserveMatchesDeposit
  <1>3. /\ who \notin unread => reserved'[who] = 0
        /\ reserved'[who] \in Nat /\ reserved'[who] <= Funds /\ DepositOf(who)' = 0
    BY <1>1, <1>2 DEF ReserveInductive, DepositOf
  <1>4. \A other \in Accounts \ {who} : /\ reserved'[other] = reserved[other]
                                        /\ NodeDescriptors'[other] = NodeDescriptors[other]
                                        /\ DepositOf(other)' = DepositOf(other)
    BY <1>1 DEF ReserveInductive, DepositOf
  <1>5. /\ DOMAIN NodeDescriptors' = Accounts /\ reserved' \in [Accounts -> Nat]
        /\ \A other \in Accounts : NodeDescriptors'[other] # None => NodeDescriptors'[other].layout \in {1, 2}
    BY <1>1, <1>3, <1>4 DEF ReserveInductive
  <1>6. ReserveMatchesDeposit'
    BY <1>1, <1>3, <1>4 DEF ReserveInductive, ReserveMatchesDeposit
  <1>. QED  BY <1>1, <1>3, <1>4, <1>5, <1>6 DEF ReserveInductive

\* The upgrade: a row that decodes is returned, one that does not leaves its account unread.
LEMMA UpgradeReserves ==
  ASSUME ReserveInductive, on_runtime_upgrade
  PROVE  ReserveInductive'
  <1>1. /\ version # 2 /\ version' = 2 /\ unread' = Rows(1)
        /\ NodeDescriptors' = [who \in Accounts |-> None]
        /\ reserved' = [who \in Accounts |->
             IF who \in Rows(2) THEN reserved[who] - DepositOf(who) ELSE reserved[who]]
    BY DEF on_runtime_upgrade, Drained
  <1>2. \A who \in Accounts : /\ reserved[who] = DepositOf(who) /\ reserved[who] <= Funds
                              /\ DepositOf(who) \in Nat /\ reserved[who] \in Nat
    BY <1>1 DEF ReserveInductive, ReserveMatchesDeposit
  <1>3. \A who \in Accounts : DepositOf(who)' = 0
    BY <1>1 DEF DepositOf
  <1>4. \A who \in Accounts : who \notin Rows(1) \cup Rows(2) => DepositOf(who) = 0
    BY DEF ReserveInductive, Rows, DepositOf
  <1>5. \A who \in Accounts : /\ reserved'[who] \in Nat /\ reserved'[who] <= Funds
                              /\ who \notin Rows(1) => reserved'[who] = 0
    BY <1>1, <1>2, <1>4, RegistryAssumption
  <1>6. reserved' \in [Accounts -> Nat]
    BY <1>1, <1>5
  <1>7. ReserveMatchesDeposit'
    BY <1>1, <1>3, <1>5 DEF ReserveMatchesDeposit
  <1>. QED  BY <1>1, <1>3, <1>6, <1>7 DEF ReserveInductive

\* On a chain of version 1 every reserve is the deposit of a row.
LEMMA InitReserves ==
  ASSUME Init
  PROVE  ReserveInductive
  <1>0. PICK filers \in SUBSET Accounts :
          \E rows \in [filers -> [layout : {1, 2}, deposit : AffordableDeposits]] :
            NodeDescriptors = [who \in Accounts |-> IF who \in filers THEN rows[who] ELSE None]
    BY DEF Init
  <1>1. PICK rows \in [filers -> [layout : {1, 2}, deposit : AffordableDeposits]] :
          NodeDescriptors = [who \in Accounts |-> IF who \in filers THEN rows[who] ELSE None]
    BY <1>0
  <1>2. \A d \in AffordableDeposits : d \in Nat /\ d <= Funds
    BY DepositAssumption DEF AffordableDeposits
  <1>3. \A who \in filers : rows[who].layout \in {1, 2} /\ rows[who].deposit \in AffordableDeposits
    OBVIOUS
  <1>4. \A who \in Accounts : DepositOf(who) \in Nat /\ DepositOf(who) <= Funds
    BY <1>1, <1>2, <1>3, RegistryAssumption DEF DepositOf
  <1>5. \A who \in Accounts : NodeDescriptors[who] # None => NodeDescriptors[who].layout \in {1, 2}
    BY <1>1, <1>3
  <1>6. reserved = [who \in Accounts |-> DepositOf(who)] /\ unread = {}
    BY DEF Init
  <1>7. ReserveMatchesDeposit /\ reserved \in [Accounts -> Nat]
    <2>1. \A who \in Accounts : reserved[who] = DepositOf(who)
      BY <1>6
    <2>. QED  BY <1>4, <1>6, <2>1 DEF ReserveMatchesDeposit
  <1>. QED  BY <1>1, <1>4, <1>5, <1>6, <1>7 DEF ReserveInductive

\* Every call and the upgrade keep the reserves right.
LEMMA ReservesStay == Spec => []ReserveInductive
  <1>1. ReserveInductive /\ [Next]_vars => ReserveInductive'
    <2>. SUFFICES ASSUME ReserveInductive, [Next]_vars PROVE ReserveInductive'
      OBVIOUS
    <2>1. ASSUME UNCHANGED <<version, NodeDescriptors, reserved, unread>> PROVE ReserveInductive'
      BY <2>1 DEF ReserveInductive, ReserveMatchesDeposit, DepositOf
    <2>2. ASSUME NEW who \in Accounts, NEW q \in QBlockIds, NEW k \in Kinds, participate(who, q, k)
          PROVE  UNCHANGED <<version, NodeDescriptors, reserved, unread>>
      BY <2>2 DEF participate, history
    <2>3. NewQBlock \/ UNCHANGED vars => UNCHANGED <<version, NodeDescriptors, reserved, unread>>
      BY DEF NewQBlock, vars, history
    <2>. QED  BY <2>1, <2>2, <2>3, SetDescriptorReserves, ClearDescriptorReserves, UpgradeReserves DEF Next
  <1>. QED  BY <1>1, InitReserves, PTL DEF Spec

(***************************************************************************)
(* ReserveMatchesDeposit: whatever sizes the descriptors have, in whichever *)
(* order accounts file, replace and clear them, and through an upgrade of  *)
(* a chain with rows of either layout.                                     *)
(***************************************************************************)
THEOREM ReservesCorrect == Spec => []ReserveMatchesDeposit
  <1>1. ReserveInductive => ReserveMatchesDeposit
    BY DEF ReserveInductive
  <1>. QED  BY <1>1, ReservesStay, PTL

(***************************************************************************)
(* Without rows of the first layout the comments of the migration are      *)
(* right: if the upgrade finds no row it cannot decode, every reserve      *)
(* equals the stored deposit for ever (UpgradeReturnsDeposits).            *)
(***************************************************************************)
THEOREM DecodableReturned == Spec /\ [](unread = {}) => []UpgradeReturnsDeposits
  <1>1. ReserveInductive /\ unread = {} => UpgradeReturnsDeposits
    BY DEF ReserveInductive, ReserveMatchesDeposit, UpgradeReturnsDeposits
  <1>. QED  BY <1>1, ReservesStay, PTL

-----------------------------------------------------------------------------
\* Calls other than participate leave the index of participants alone.
LEMMA IndexSteps ==
  ASSUME [Next]_vars
  PROVE  \/ UNCHANGED <<ParticipantsByQBlock, ParticipantCountByQBlock>>
         \/ \E who \in Accounts, q \in QBlockIds, k \in Kinds : participate(who, q, k)
  BY DEF Next, vars, participation, on_runtime_upgrade, set_descriptor, clear_descriptor, NewQBlock

\* The shape of the index, and no round beyond the candidate.
IndexInductive ==
  /\ QBlockCount \in Nat
  /\ ParticipantsByQBlock \in [QBlockIds -> [Accounts -> [qblock_id : Nat, kind : Kinds] \cup {None}]]
  /\ DOMAIN ParticipantCountByQBlock = QBlockIds

(***************************************************************************)
(* PastRoundsFrozen: a round that is no longer the candidate keeps its     *)
(* participants and their count for ever.                                  *)
(***************************************************************************)
THEOREM FrozenRounds == Spec => PastRoundsFrozen
  <1>1. Init => IndexInductive
    <2>. SUFFICES ASSUME Init PROVE IndexInductive
      OBVIOUS
    <2>1. QBlockCount \in Nat /\ DOMAIN ParticipantCountByQBlock = QBlockIds
      BY RegistryAssumption DEF Init
    <2>2. ParticipantsByQBlock \in [QBlockIds -> [Accounts -> [qblock_id : Nat, kind : Kinds] \cup {None}]]
      BY RegistryAssumption DEF Init, QBlockIds
    <2>. QED  BY <2>1, <2>2 DEF IndexInductive
  <1>2. IndexInductive /\ [Next]_vars => IndexInductive'
    <2>. SUFFICES ASSUME IndexInductive, [Next]_vars PROVE IndexInductive'
      OBVIOUS
    <2>1. QBlockCount' \in Nat
      BY DEF IndexInductive, Next, vars, on_runtime_upgrade, set_descriptor, clear_descriptor,
             participate, NewQBlock
    <2>2. ASSUME NEW who \in Accounts, NEW q \in QBlockIds, NEW k \in Kinds, participate(who, q, k)
          PROVE  IndexInductive'
      <3>1. /\ ParticipantsByQBlock' = [ParticipantsByQBlock EXCEPT ![q][who] = [qblock_id |-> q, kind |-> k]]
            /\ DOMAIN ParticipantCountByQBlock' = DOMAIN ParticipantCountByQBlock
        BY <2>2 DEF participate
      <3>2. [qblock_id |-> q, kind |-> k] \in [qblock_id : Nat, kind : Kinds]
        BY RegistryAssumption DEF QBlockIds
      <3>. QED  BY <2>1, <3>1, <3>2 DEF IndexInductive
    <2>. QED  BY <2>1, <2>2, IndexSteps DEF IndexInductive
  <1>3. IndexInductive /\ [Next]_vars =>
          [\A q \in QBlockIds : q < candidate_qblock_id =>
             UNCHANGED <<ParticipantsByQBlock[q], ParticipantCountByQBlock[q]>>]_vars
    <2>. SUFFICES ASSUME IndexInductive, [Next]_vars, NEW q \in QBlockIds, q < candidate_qblock_id
                  PROVE  UNCHANGED <<ParticipantsByQBlock[q], ParticipantCountByQBlock[q]>>
      OBVIOUS
    <2>1. ASSUME NEW who \in Accounts, NEW p \in QBlockIds, NEW k \in Kinds, participate(who, p, k)
          PROVE  UNCHANGED <<ParticipantsByQBlock[q], ParticipantCountByQBlock[q]>>
      <3>1. p # q
        BY <2>1 DEF participate, IsCandidate, candidate_qblock_id, IndexInductive
      <3>2. /\ ParticipantsByQBlock' = [ParticipantsByQBlock EXCEPT ![p][who] = [qblock_id |-> p, kind |-> k]]
            /\ ParticipantCountByQBlock' = [ParticipantCountByQBlock EXCEPT ![p] = @ + 1]
        BY <2>1 DEF participate
      <3>. QED  BY <3>1, <3>2 DEF IndexInductive
    <2>. QED  BY <2>1, IndexSteps
  <1>. QED  BY <1>1, <1>2, <1>3, PTL DEF Spec, PastRoundsFrozen

-----------------------------------------------------------------------------
(* Reading a round page by page. *)

\* The rank of an account in S.
Rank(S, who) == Cardinality({x \in S : x <= who})

LEMMA Ranks ==
  ASSUME NEW S \in SUBSET Nat, IsFiniteSet(S)
  PROVE  /\ \A x \in S : Rank(S, x) \in 1..Cardinality(S)
         /\ \A x, y \in S : x < y => Rank(S, x) < Rank(S, y)
<1> DEFINE Upto(x) == {y \in S : y <= x}
<1>1. \A x \in S : /\ Upto(x) \subseteq S /\ x \in Upto(x) /\ IsFiniteSet(Upto(x))
                   /\ Cardinality(Upto(x)) \in 1..Cardinality(S)
  <2> SUFFICES ASSUME NEW x \in S
               PROVE  /\ Upto(x) \subseteq S /\ x \in Upto(x) /\ IsFiniteSet(Upto(x))
                      /\ Cardinality(Upto(x)) \in 1..Cardinality(S)
    OBVIOUS
  <2>1. Upto(x) \subseteq S /\ x \in Upto(x)
    OBVIOUS
  <2> HIDE DEF Upto
  <2>2. IsFiniteSet(Upto(x)) /\ Cardinality(Upto(x)) <= Cardinality(S)
    BY <2>1, FS_Subset
  <2>3. Cardinality(Upto(x)) \in Nat /\ Cardinality(Upto(x)) # 0 /\ Cardinality(S) \in Nat
    BY <2>1, <2>2, FS_CardinalityType, FS_EmptySet
  <2> QED BY <2>1, <2>2, <2>3
<1>2. ASSUME NEW x \in S, NEW y \in S, x < y
      PROVE  Cardinality(Upto(x)) < Cardinality(Upto(y))
  <2>0. \A z \in S : z \in Nat
    OBVIOUS
  <2>1. Upto(x) \subseteq Upto(y) /\ y \notin Upto(x) /\ y \in Upto(y)
    <3>1. ~(y <= x) /\ y <= y /\ \A z \in S : z <= x => z <= y
      BY <1>2, <2>0
    <3> QED BY <3>1, Zenon
  <2> HIDE DEF Upto
  <2>2. Upto(x) # Upto(y) /\ Upto(x) \in SUBSET Upto(y)
    BY <2>1
  <2>3. /\ Cardinality(Upto(x)) <= Cardinality(Upto(y))
        /\ Cardinality(Upto(x)) = Cardinality(Upto(y)) => Upto(x) = Upto(y)
    BY <1>1, <2>2, FS_Subset
  <2>4. Cardinality(Upto(x)) \in Nat /\ Cardinality(Upto(y)) \in Nat
    BY <1>1, FS_CardinalityType
  <2> QED BY <2>2, <2>3, <2>4
<1>3. \A x : Rank(S, x) = Cardinality(Upto(x))
  BY DEF Rank
<1> HIDE DEF Upto
<1> QED BY <1>1, <1>2, <1>3

\* E lists S in key order: every member at its rank.
Lists(E, S) ==
  /\ E \in Seq(S) /\ Len(E) = Cardinality(S)
  /\ \A i \in 1..Cardinality(S) : E[i] \in S /\ Rank(S, E[i]) = i
  /\ \A x \in S : E[Rank(S, x)] = x

LEMMA OrderLists ==
  ASSUME NEW S \in SUBSET Nat, IsFiniteSet(S)
  PROVE  Lists(InKeyOrder(S), S)
<1> DEFINE n == Cardinality(S)
           rank == [x \in S |-> Rank(S, x)]
           E == InKeyOrder(S)
<1>1. n \in Nat
  BY FS_CardinalityType
<1>2. rank \in [S -> 1..n]
  BY Ranks
<1>3. \A x, y \in S : rank[x] = rank[y] => x = y
  <2> SUFFICES ASSUME NEW x \in S, NEW y \in S, Rank(S, x) = Rank(S, y) PROVE x = y
    OBVIOUS
  <2>1. Rank(S, x) \in Nat /\ Rank(S, y) \in Nat
    BY <1>1, Ranks
  <2>2. ~(x < y) /\ ~(y < x)
    BY <2>1, Ranks
  <2> QED BY <2>2
<1>4. \A i \in 1..n : \E x \in S : rank[x] = i
  <2> HIDE DEF rank
  <2>1. rank \in Injection(S, 1..n)
    BY <1>2, <1>3 DEF Injection, IsInjective
  <2>2. IsFiniteSet(1..n) /\ Cardinality(1..n) = n
    BY <1>1, FS_Interval
  <2>3. rank \in Surjection(S, 1..n)
    BY <2>1, <2>2, FS_Injection
  <2> QED BY <2>3 DEF Surjection
<1>5. E = [i \in 1..n |-> CHOOSE x \in S : Rank(S, x) = i]
  BY DEF InKeyOrder, Rank
<1> HIDE DEF E, n
<1>6. \A i \in 1..n : E[i] \in S /\ Rank(S, E[i]) = i
  <2> TAKE i \in 1..n
  <2>1. \E x \in S : Rank(S, x) = i
    BY <1>4
  <2> QED BY <1>5, <2>1
<1>7. E \in Seq(S) /\ Len(E) = n
  BY <1>1, <1>5, <1>6
<1>8. \A x \in S : E[Rank(S, x)] = x
  BY <1>2, <1>3, <1>6
<1> QED BY <1>6, <1>7, <1>8 DEF Lists, E, n

\* F is E without its first k entries.
Follows(F, E, k) == Len(F) = Len(E) - k /\ \A j \in 1..Len(F) : F[j] = E[j + k]

\* What follows the k-th member of S in key order.
LEMMA ListsRest ==
  ASSUME NEW S \in SUBSET Nat, IsFiniteSet(S), NEW k \in 1..Cardinality(S),
         NEW E, Lists(E, S), NEW T, T = {x \in S : x > E[k]}, NEW F, Lists(F, T)
  PROVE  Follows(F, E, k)
<1> DEFINE Low == {x \in S : x <= E[k]}
<1>0. Cardinality(S) \in Nat /\ k \in Nat /\ \A z \in S : z \in Nat
  <2>1. Cardinality(S) \in Nat
    BY FS_CardinalityType
  <2> QED BY <2>1
<1>1. E[k] \in S /\ Rank(S, E[k]) = k /\ Cardinality(S) \in Nat
  BY <1>0 DEF Lists
<1>10. PICK c \in Nat : c = E[k]
  BY <1>0, <1>1
<1>11. \A z \in S : (z > E[k] <=> ~(z <= E[k])) /\ \A x \in S : z <= E[k] /\ x > E[k] => z <= x
  <2>1. \A z \in Nat : (z > c <=> ~(z <= c)) /\ \A x \in Nat : z <= c /\ x > c => z <= x
    OBVIOUS
  <2> QED BY <1>0, <1>10, <2>1
<1>2. Cardinality(Low) = k
  BY <1>1 DEF Rank
<1>3. Low \in SUBSET S /\ T \in SUBSET S /\ Low \cup T = S /\ Low \cap T = {}
  BY <1>11, Zenon
<1>4. IsFiniteSet(Low) /\ IsFiniteSet(T)
  <2> HIDE DEF Low
  <2> QED BY <1>3, FS_Subset
<1>5. Cardinality(S) = k + Cardinality(T) /\ Cardinality(T) \in Nat
  <2> HIDE DEF Low
  <2>1. Cardinality(Low \cup T) = Cardinality(Low) + Cardinality(T) - Cardinality(Low \cap T)
    BY <1>4, FS_Union
  <2>2. Cardinality(T) \in Nat /\ Cardinality({}) = 0
    BY <1>4, FS_CardinalityType, FS_EmptySet
  <2>3. Cardinality(Low \cap T) = 0 /\ Cardinality(Low \cup T) = Cardinality(S)
    BY <1>3, <2>2
  <2> QED BY <1>0, <1>2, <2>1, <2>2, <2>3
<1>6. \A x \in T : Rank(S, x) = k + Rank(T, x)
  <2> TAKE x \in T
  <2> DEFINE High == {y \in T : y <= x}
  <2>1. /\ High \in SUBSET T /\ Low \cap High = {}
        /\ {y \in S : y <= x} = Low \cup High
    <3>1. x \in S /\ x > E[k]
      BY <1>3
    <3> QED BY <1>11, <3>1, Zenon
  <2> HIDE DEF Low, High
  <2>2. IsFiniteSet(High)
    BY <1>4, <2>1, FS_Subset
  <2>3. Cardinality(Low \cup High) = Cardinality(Low) + Cardinality(High) - Cardinality(Low \cap High)
    BY <1>4, <2>2, FS_Union
  <2>4. Cardinality(High) \in Nat /\ Cardinality({}) = 0
    BY <2>2, FS_CardinalityType, FS_EmptySet
  <2>5. Cardinality(Low \cup High) = k + Cardinality(High)
    <3>1. Cardinality(Low \cap High) = 0
      BY <2>1, <2>4
    <3> QED BY <1>0, <1>2, <2>3, <2>4, <3>1
  <2> QED BY <2>1, <2>5 DEF Rank, High
<1>7. Len(F) = Cardinality(S) - k
  <2>1. Len(F) = Cardinality(T)
    BY DEF Lists
  <2> QED BY <1>0, <1>5, <2>1
<1>8. \A j \in 1..Len(F) : F[j] = E[j + k]
  <2> TAKE j \in 1..Len(F)
  <2>1. F[j] \in T /\ Rank(T, F[j]) = j
    BY DEF Lists
  <2>2. Rank(S, F[j]) = k + j
    BY <1>6, <2>1
  <2>3. E[Rank(S, F[j])] = F[j]
    BY <1>3, <2>1 DEF Lists
  <2>4. k + j = j + k
    BY <1>0, <1>5, <1>7
  <2> QED BY <2>2, <2>3, <2>4
<1>9. Len(E) = Cardinality(S)
  BY DEF Lists
<1> QED BY <1>7, <1>8, <1>9 DEF Follows

\* Prefixes of a sequence join with a prefix of what follows them.
LEMMA PrefixesJoin ==
  ASSUME NEW S, NEW E \in Seq(S), NEW F \in Seq(S), NEW k \in 0..Len(E), NEW l \in 0..Len(F),
         k + l <= Len(E), \A j \in 1..Len(F) : F[j] = E[j + k]
  PROVE  SubSeq(E, 1, k) \o SubSeq(F, 1, l) = SubSeq(E, 1, k + l)
<1> DEFINE P == SubSeq(E, 1, k)
           Q == SubSeq(F, 1, l)
           R == SubSeq(E, 1, k + l)
<1>1. Len(E) \in Nat /\ Len(F) \in Nat /\ k \in Nat /\ l \in Nat
  OBVIOUS
<1>2. /\ P \in Seq(S) /\ Len(P) = k /\ \A i \in 1..k : P[i] = E[i]
  BY <1>1, SubSeqProperties
<1>3. /\ Q \in Seq(S) /\ Len(Q) = l /\ \A i \in 1..l : Q[i] = F[i]
  BY <1>1, SubSeqProperties
<1>4. /\ R \in Seq(S) /\ Len(R) = k + l /\ \A i \in 1..(k + l) : R[i] = E[i]
  BY <1>1, SubSeqProperties
<1> HIDE DEF P, Q, R
<1>5. /\ P \o Q \in Seq(S) /\ Len(P \o Q) = k + l
      /\ \A i \in 1..(k + l) : (P \o Q)[i] = IF i <= k THEN P[i] ELSE Q[i - k]
  <2>1. /\ P \o Q \in Seq(S) /\ Len(P \o Q) = Len(P) + Len(Q)
        /\ \A i \in 1..(Len(P) + Len(Q)) :
             (P \o Q)[i] = IF i <= Len(P) THEN P[i] ELSE Q[i - Len(P)]
    BY ONLY <1>2, <1>3, ConcatProperties
  <2>2. Len(P) = k /\ Len(Q) = l
    BY <1>2, <1>3
  <2> QED BY ONLY <2>1, <2>2
<1>6. \A i \in 1..(k + l) : (P \o Q)[i] = R[i]
  <2> TAKE i \in 1..(k + l)
  <2>1. CASE i <= k
    <3>1. i \in 1..k
      BY <1>1, <2>1
    <3>2. P[i] = E[i]
      BY <1>2, <3>1
    <3> QED BY <1>4, <1>5, <2>1, <3>2
  <2>2. CASE ~(i <= k)
    <3>1. i - k \in 1..l /\ i - k \in 1..Len(F) /\ (i - k) + k = i
      BY <1>1, <2>2
    <3>2. Q[i - k] = E[i]
      BY <1>3, <3>1
    <3> QED BY <1>4, <1>5, <2>2, <3>2
  <2> QED BY <2>1, <2>2
<1>7. P \o Q = R
  BY <1>1, <1>4, <1>5, <1>6, SeqEqual
<1> QED BY <1>7 DEF P, Q, R

\* The page that starts after `cursor` is a prefix of what is left, as long as asked for.
LEMMA PageIs ==
  ASSUME NEW q, NEW cursor, NEW n \in 1..MaxPage
  PROVE  LET S == AfterCursor(q, cursor)
             k == IF Cardinality(S) <= n THEN Cardinality(S) ELSE n
         IN  /\ S \in SUBSET Nat /\ IsFiniteSet(S) /\ Cardinality(S) \in Nat
             /\ Lists(InKeyOrder(S), S)
             /\ participants_by_qblock(q, cursor, n) = SubSeq(InKeyOrder(S), 1, k)
<1> DEFINE S == AfterCursor(q, cursor)
<1>1. S \in SUBSET Accounts
  BY DEF AfterCursor, Participants
<1> HIDE DEF S
<1>2. S \in SUBSET Nat /\ IsFiniteSet(S)
  BY <1>1, RegistryAssumption, FS_Subset
<1>3. Lists(InKeyOrder(S), S) /\ Cardinality(S) \in Nat
  BY <1>2, OrderLists, FS_CardinalityType
<1>4. Len(InKeyOrder(S)) = Cardinality(S)
  BY <1>3 DEF Lists
<1>5. n <= MaxPage
  BY RegistryAssumption
<1>6. participants_by_qblock(q, cursor, n) =
        SubSeq(InKeyOrder(S), 1, IF Cardinality(S) <= n THEN Cardinality(S) ELSE n)
  BY <1>4, <1>5 DEF participants_by_qblock, S
<1> QED BY <1>2, <1>3, <1>6 DEF S

(***************************************************************************)
(* PagesJoin in every state: for any number of participants and any page   *)
(* sizes, a reader that follows the cursor reads the round once.           *)
(***************************************************************************)
LEMMA PagesAlwaysJoin == PagesJoin
<1> SUFFICES ASSUME NEW q \in QBlockIds, NEW n \in 1..MaxPage, NEW m \in 1..MaxPage
             PROVE  LET page == participants_by_qblock(q, None, n) IN
                    /\ n + m <= MaxPage /\ page # << >> =>
                         page \o participants_by_qblock(q, page[Len(page)], m)
                           = participants_by_qblock(q, None, n + m)
                    /\ page = << >> <=> Participants(q) = {}
  BY DEF PagesJoin
<1>1. n \in Nat \ {0} /\ m \in Nat \ {0}
  BY RegistryAssumption
<1>2. PICK S : S = AfterCursor(q, None)
  OBVIOUS
<1>3. PICK E : E = InKeyOrder(S)
  OBVIOUS
<1>4. PICK k : k = IF Cardinality(S) <= n THEN Cardinality(S) ELSE n
  OBVIOUS
<1>5. PICK page : page = participants_by_qblock(q, None, n)
  OBVIOUS
<1>6. /\ S \in SUBSET Nat /\ IsFiniteSet(S) /\ Cardinality(S) \in Nat
      /\ Lists(E, S) /\ page = SubSeq(E, 1, k)
  BY <1>2, <1>3, <1>4, <1>5, PageIs
<1>7. E \in Seq(S) /\ Len(E) = Cardinality(S)
  BY <1>6 DEF Lists
<1>8. k \in Nat /\ k <= Cardinality(S) /\ k <= n /\ (k = 0 <=> Cardinality(S) = 0)
  BY <1>1, <1>4, <1>6
<1>9. Len(page) = k /\ \A i \in 1..k : page[i] = E[i]
  <2>1. \A i \in 1..k : E[i] \in S
    BY <1>6, <1>7, <1>8
  <2> QED BY <1>6, <1>8, <2>1, SubSeqProperties
<1>10. page = << >> <=> k = 0
  <2>1. k = 0 => page = << >>
    BY <1>6, SubSeqEmpty
  <2>2. page = << >> => k = 0
    BY <1>9
  <2> QED BY <2>1, <2>2
<1>11. S = Participants(q)
  BY <1>2 DEF AfterCursor
<1>12. page = << >> <=> Participants(q) = {}
  BY <1>6, <1>8, <1>10, <1>11, FS_EmptySet
<1>13. ASSUME n + m <= MaxPage, page # << >>
       PROVE  page \o participants_by_qblock(q, page[Len(page)], m)
                = participants_by_qblock(q, None, n + m)
  <2>1. k \in 1..Cardinality(S) /\ page[Len(page)] = E[k]
    BY <1>8, <1>9, <1>10, <1>13
  <2>2. PICK T : T = AfterCursor(q, E[k])
    OBVIOUS
  <2>3. PICK F : F = InKeyOrder(T)
    OBVIOUS
  <2>4. PICK l : l = IF Cardinality(T) <= m THEN Cardinality(T) ELSE m
    OBVIOUS
  <2>5. /\ T \in SUBSET Nat /\ IsFiniteSet(T) /\ Cardinality(T) \in Nat
        /\ Lists(F, T) /\ participants_by_qblock(q, E[k], m) = SubSeq(F, 1, l)
    BY <2>2, <2>3, <2>4, PageIs
  <2>6. T = {x \in S : x > E[k]}
    <3>1. E[k] # None
      <4>1. E[k] \in S
        BY <1>6, <2>1 DEF Lists
      <4> QED BY <1>6, <4>1, RegistryAssumption
    <3> QED BY <1>11, <2>2, <3>1 DEF AfterCursor
  <2>7. Len(F) = Cardinality(S) - k /\ \A j \in 1..Len(F) : F[j] = E[j + k]
    <3>1. IsFiniteSet(S) /\ S \in SUBSET Nat
      BY <1>6
    <3>2. Lists(E, S)
      BY <1>6
    <3>3. Lists(F, T)
      BY <2>5
    <3>4. k \in 1..Cardinality(S)
      BY <2>1
    <3>5. Follows(F, E, k)
      BY <2>6, <3>1, <3>2, <3>3, <3>4, ListsRest
    <3> QED BY <1>7, <3>5 DEF Follows
  <2>8. F \in Seq(S) /\ Len(F) = Cardinality(T)
    <3>1. F \in Seq(T) /\ T \subseteq S /\ Len(F) = Cardinality(T)
      BY <2>5, <2>6 DEF Lists
    <3> QED BY <3>1, SeqMonotonic
  <2>9. PICK whole : whole = IF Cardinality(S) <= n + m THEN Cardinality(S) ELSE n + m
    OBVIOUS
  <2>10. k + l = whole /\ l \in 0..Len(F) /\ k \in 0..Len(E) /\ k + l <= Len(E)
    <3>1. PICK a \in Nat : a = Cardinality(S)
      BY <1>6
    <3>2. PICK b \in Nat : b = Cardinality(T)
      BY <2>5
    <3>3. b = a - k /\ Len(F) = b /\ Len(E) = a
      BY <1>7, <2>7, <2>8, <3>1, <3>2
    <3>4. /\ k = IF a <= n THEN a ELSE n
          /\ l = IF b <= m THEN b ELSE m
          /\ whole = IF a <= n + m THEN a ELSE n + m
      BY <1>4, <2>4, <2>9, <3>1, <3>2
    <3> QED BY <1>1, <3>3, <3>4
  <2>11. SubSeq(E, 1, k) \o SubSeq(F, 1, l) = SubSeq(E, 1, k + l)
    BY <1>7, <2>7, <2>8, <2>10, PrefixesJoin
  <2>12. participants_by_qblock(q, None, n + m) = SubSeq(E, 1, whole)
    <3>1. n + m \in 1..MaxPage
      BY <1>1, <1>13, RegistryAssumption
    <3> QED BY <1>2, <1>3, <2>9, <3>1, PageIs
  <2> QED BY <1>6, <2>1, <2>5, <2>10, <2>11, <2>12
<1> QED BY <1>5, <1>12, <1>13

-----------------------------------------------------------------------------
\* What makes the index follow the rounds.
FollowsInductive ==
  /\ version \in {1, 2} /\ QBlockCount \in 0..MaxQBlocks
  /\ ParticipantCountByQBlock \in [QBlockIds -> Nat]
  /\ DOMAIN NodeDescriptors = Accounts
  /\ LatestParticipation \in [Accounts -> [qblock_id : QBlockIds, kind : Kinds] \cup {None}]
  /\ ParticipantsByQBlock \in [QBlockIds -> [Accounts -> [qblock_id : QBlockIds, kind : Kinds] \cup {None}]]
  /\ ParticipationIndexed

\* A declaration: the account's record moves to the candidate, which no round exceeds.
LEMMA ParticipateFollows ==
  ASSUME FollowsInductive, NEW who \in Accounts, NEW q \in QBlockIds, NEW k \in Kinds,
         version = 2, participate(who, q, k)
  PROVE  FollowsInductive'
<1>1. PICK record : record = [qblock_id |-> q, kind |-> k]
  OBVIOUS
<1>2. record \in [qblock_id : QBlockIds, kind : Kinds] /\ record.qblock_id = q /\ record # None
  <2>1. record \in [qblock_id : QBlockIds, kind : Kinds] /\ record.qblock_id = q
    BY <1>1
  <2>2. record \in [qblock_id : Nat, kind : Kinds]
    BY <1>1, RegistryAssumption DEF QBlockIds
  <2> QED BY <2>1, <2>2, RegistryAssumption
<1>3. /\ q = QBlockCount + 1 /\ NodeDescriptors[who] # None
      /\ LatestParticipation' = [LatestParticipation EXCEPT ![who] = record]
      /\ ParticipantsByQBlock' = [ParticipantsByQBlock EXCEPT ![q][who] = record]
      /\ ParticipantCountByQBlock' = [ParticipantCountByQBlock EXCEPT ![q] = @ + 1]
      /\ UNCHANGED <<version, NodeDescriptors, QBlockCount, lastOldRound>>
  BY <1>1 DEF participate, IsCandidate, candidate_qblock_id, history
<1>4. /\ version' \in {1, 2} /\ QBlockCount' \in 0..MaxQBlocks
      /\ DOMAIN NodeDescriptors' = Accounts /\ version' = 2
  BY <1>3 DEF FollowsInductive
<1>5. ParticipantCountByQBlock' \in [QBlockIds -> Nat]
  BY <1>3 DEF FollowsInductive
<1>6. LatestParticipation' \in [Accounts -> [qblock_id : QBlockIds, kind : Kinds] \cup {None}]
  BY <1>2, <1>3 DEF FollowsInductive
<1>7. ParticipantsByQBlock' \in [QBlockIds -> [Accounts -> [qblock_id : QBlockIds, kind : Kinds] \cup {None}]]
  BY <1>2, <1>3 DEF FollowsInductive
<1>8. ParticipationIndexed'
  <2> SUFFICES ASSUME NEW other \in Accounts
               PROVE  /\ \A p \in QBlockIds : ParticipantsByQBlock'[p][other] # None => p <= QBlockCount' + 1
                      /\ LatestParticipation'[other] # None =>
                           /\ NodeDescriptors'[other] = None => LatestParticipation'[other].qblock_id <= lastOldRound'
                           /\ ParticipantsByQBlock'[LatestParticipation'[other].qblock_id][other]
                                = LatestParticipation'[other]
                           /\ \A p \in QBlockIds : ParticipantsByQBlock'[p][other] # None
                                => p <= LatestParticipation'[other].qblock_id
    BY DEF ParticipationIndexed, Participants, candidate_qblock_id
  <2>1. /\ \A p \in QBlockIds : ParticipantsByQBlock[p][other] # None => p <= QBlockCount + 1
        /\ LatestParticipation[other] # None =>
             /\ NodeDescriptors[other] = None => LatestParticipation[other].qblock_id <= lastOldRound
             /\ ParticipantsByQBlock[LatestParticipation[other].qblock_id][other] = LatestParticipation[other]
             /\ \A p \in QBlockIds : ParticipantsByQBlock[p][other] # None
                  => p <= LatestParticipation[other].qblock_id
    BY DEF FollowsInductive, ParticipationIndexed, Participants, candidate_qblock_id
  <2>2. CASE other = who
    <3>1. LatestParticipation'[other] = record
      BY <1>3, <2>2 DEF FollowsInductive
    <3>2. \A p \in QBlockIds : ParticipantsByQBlock'[p][other]
                                = IF p = q THEN record ELSE ParticipantsByQBlock[p][other]
      BY <1>3, <2>2 DEF FollowsInductive
    <3>3. \A p \in QBlockIds : ParticipantsByQBlock'[p][other] # None => p <= q
      BY <1>3, <2>1, <3>2 DEF QBlockIds
    <3> QED BY <1>2, <1>3, <2>2, <3>1, <3>2, <3>3
  <2>3. CASE other # who
    <3>1. LatestParticipation'[other] = LatestParticipation[other]
      BY <1>3, <2>3 DEF FollowsInductive
    <3>2. \A p \in QBlockIds : ParticipantsByQBlock'[p][other] = ParticipantsByQBlock[p][other]
      BY <1>3, <2>3 DEF FollowsInductive
    <3>3. LatestParticipation[other] # None => LatestParticipation[other].qblock_id \in QBlockIds
      BY DEF FollowsInductive
    <3> QED BY <1>3, <2>1, <3>1, <3>2, <3>3
  <2> QED BY <2>2, <2>3
<1> QED BY <1>4, <1>5, <1>6, <1>7, <1>8 DEF FollowsInductive

\* Filing and clearing a descriptor: a record goes with the descriptor it needs.
LEMMA DescriptorsFollow ==
  ASSUME FollowsInductive, NEW who \in Accounts, version = 2,
         clear_descriptor(who) \/ \E input \in Inputs : set_descriptor(who, input)
  PROVE  FollowsInductive'
<1>1. CASE clear_descriptor(who)
  <2>1. /\ NodeDescriptors' = [NodeDescriptors EXCEPT ![who] = None]
        /\ LatestParticipation' = [LatestParticipation EXCEPT ![who] = None]
        /\ UNCHANGED <<version, ParticipantsByQBlock, ParticipantCountByQBlock, QBlockCount, lastOldRound>>
    BY <1>1 DEF clear_descriptor, history
  <2>2. /\ DOMAIN NodeDescriptors' = Accounts
        /\ LatestParticipation' \in [Accounts -> [qblock_id : QBlockIds, kind : Kinds] \cup {None}]
        /\ LatestParticipation'[who] = None
        /\ \A other \in Accounts \ {who} : /\ LatestParticipation'[other] = LatestParticipation[other]
                                           /\ NodeDescriptors'[other] = NodeDescriptors[other]
    BY <2>1 DEF FollowsInductive
  <2>3. ParticipationIndexed'
    BY <2>1, <2>2 DEF FollowsInductive, ParticipationIndexed, Participants, candidate_qblock_id
  <2> QED BY <2>1, <2>2, <2>3 DEF FollowsInductive
<1>2. ASSUME NEW input \in Inputs, set_descriptor(who, input)
      PROVE  FollowsInductive'
  <2>1. PICK row \in [layout : {1, 2}, deposit : Nat] :
          NodeDescriptors' = [NodeDescriptors EXCEPT ![who] = row]
    BY <1>2, DepositAssumption DEF set_descriptor
  <2>2. /\ row # None
        /\ UNCHANGED <<version, LatestParticipation, ParticipantsByQBlock, ParticipantCountByQBlock,
                       QBlockCount, lastOldRound>>
    BY <1>2, RegistryAssumption DEF set_descriptor, participation, history
  <2>3. /\ DOMAIN NodeDescriptors' = Accounts
        /\ \A other \in Accounts : NodeDescriptors[other] # None => NodeDescriptors'[other] # None
    BY <2>1, <2>2 DEF FollowsInductive
  <2>4. ParticipationIndexed'
    BY <2>2, <2>3 DEF FollowsInductive, ParticipationIndexed, Participants, candidate_qblock_id
  <2> QED BY <2>2, <2>3, <2>4 DEF FollowsInductive
<1> QED BY <1>1, <1>2

\* The upgrade and a new qblock.
LEMMA RoundsFollow ==
  ASSUME FollowsInductive, on_runtime_upgrade \/ NewQBlock \/ UNCHANGED vars
  PROVE  FollowsInductive'
<1>1. CASE on_runtime_upgrade
  <2>1. /\ version' = 2 /\ NodeDescriptors' = [who \in Accounts |-> None]
        /\ lastOldRound' = QBlockCount + 1
        /\ UNCHANGED <<LatestParticipation, ParticipantsByQBlock, ParticipantCountByQBlock, QBlockCount>>
    BY <1>1 DEF on_runtime_upgrade, participation, candidate_qblock_id
  <2>2. ASSUME NEW who \in Accounts, LatestParticipation[who] # None
        PROVE  LatestParticipation[who].qblock_id <= lastOldRound'
    <3>1. /\ LatestParticipation[who].qblock_id \in QBlockIds
          /\ ParticipantsByQBlock[LatestParticipation[who].qblock_id][who] # None
      BY <2>2 DEF FollowsInductive, ParticipationIndexed
    <3>. QED  BY <2>1, <3>1 DEF FollowsInductive, ParticipationIndexed, Participants, candidate_qblock_id
  <2>3. ParticipationIndexed'
    BY <2>1, <2>2 DEF FollowsInductive, ParticipationIndexed, Participants, candidate_qblock_id
  <2> QED BY <2>1, <2>3 DEF FollowsInductive
<1>2. CASE NewQBlock
  <2>1. /\ QBlockCount' = QBlockCount + 1 /\ QBlockCount' \in 0..MaxQBlocks
        /\ UNCHANGED <<version, NodeDescriptors, LatestParticipation, ParticipantsByQBlock,
                       ParticipantCountByQBlock, lastOldRound>>
    BY <1>2, RegistryAssumption DEF NewQBlock, participation, history, FollowsInductive
  <2>2. \A q \in QBlockIds : q <= QBlockCount + 1 => q <= QBlockCount' + 1
    BY <2>1 DEF FollowsInductive, QBlockIds
  <2>3. ParticipationIndexed'
    BY <2>1, <2>2 DEF FollowsInductive, ParticipationIndexed, Participants, candidate_qblock_id
  <2> QED BY <2>1, <2>3 DEF FollowsInductive
<1>3. CASE UNCHANGED vars
  BY <1>3 DEF vars, participation, history, FollowsInductive, ParticipationIndexed, Participants, candidate_qblock_id
<1> QED BY <1>1, <1>2, <1>3

\* The shape of the index on a chain of version 1: records up to the candidate.
LEMMA InitIndex ==
  ASSUME Init
  PROVE  /\ version \in {1, 2} /\ QBlockCount \in 0..MaxQBlocks
         /\ ParticipantsByQBlock \in [QBlockIds -> [Accounts -> [qblock_id : QBlockIds, kind : Kinds] \cup {None}]]
         /\ \A q \in QBlockIds, who \in Accounts : ParticipantsByQBlock[q][who] # None => q <= QBlockCount + 1
         /\ ParticipantCountByQBlock \in [QBlockIds -> Nat]
<1>1. version \in {1, 2} /\ QBlockCount \in 0..MaxQBlocks
  BY RegistryAssumption DEF Init
<1>2. PICK joined \in SUBSET ((1..candidate_qblock_id) \X Accounts), kind \in Kinds :
        ParticipantsByQBlock = [q \in QBlockIds |-> [who \in Accounts |->
          IF <<q, who>> \in joined THEN [qblock_id |-> q, kind |-> kind] ELSE None]]
  BY DEF Init
<1>3. ParticipantsByQBlock \in [QBlockIds -> [Accounts -> [qblock_id : QBlockIds, kind : Kinds] \cup {None}]]
  BY <1>2
<1>4. ASSUME NEW q \in QBlockIds, NEW who \in Accounts, ParticipantsByQBlock[q][who] # None
      PROVE  q <= QBlockCount + 1
  <2>1. <<q, who>> \in joined
    BY <1>2, <1>4
  <2>2. q \in 1..candidate_qblock_id
    BY <2>1
  <2> QED BY <1>1, <2>2 DEF candidate_qblock_id
<1>5. \A q \in QBlockIds : Cardinality(Participants(q)) \in Nat
  <2> TAKE q \in QBlockIds
  <2>1. Participants(q) \in SUBSET Accounts
    BY DEF Participants
  <2> QED BY <2>1, RegistryAssumption, FS_Subset, FS_CardinalityType
<1>6. ParticipantCountByQBlock \in [QBlockIds -> Nat]
  BY <1>5 DEF Init
<1> QED BY <1>1, <1>3, <1>4, <1>6

LEMMA InitFollows ==
  ASSUME Init
  PROVE  FollowsInductive
<1>1. DOMAIN NodeDescriptors = Accounts
  BY DEF Init
<1> DEFINE Current(current, latest) ==
             /\ \A who \in current :
                  /\ who \in Participants(latest[who])
                  /\ \A q \in QBlockIds : who \in Participants(q) => q <= latest[who]
             /\ LatestParticipation = [who \in Accounts |->
                  IF who \in current THEN ParticipantsByQBlock[latest[who]][who] ELSE None]
<1>0. PICK current \in SUBSET {who \in Accounts : NodeDescriptors[who] # None} :
        \E latest \in [current -> QBlockIds] : Current(current, latest)
  BY DEF Init
<1>2. PICK latest \in [current -> QBlockIds] : Current(current, latest)
  BY <1>0
<1>3. \A q \in QBlockIds, who \in Accounts :
        ParticipantsByQBlock[q][who] # None => ParticipantsByQBlock[q][who].qblock_id = q
  <2>1. PICK joined \in SUBSET ((1..candidate_qblock_id) \X Accounts), kind \in Kinds :
          ParticipantsByQBlock = [q \in QBlockIds |-> [who \in Accounts |->
            IF <<q, who>> \in joined THEN [qblock_id |-> q, kind |-> kind] ELSE None]]
    BY DEF Init
  <2> QED BY <2>1
<1>4. ASSUME NEW who \in Accounts, LatestParticipation[who] # None
      PROVE  /\ who \in current /\ NodeDescriptors[who] # None
             /\ LatestParticipation[who] = ParticipantsByQBlock[latest[who]][who]
             /\ LatestParticipation[who].qblock_id = latest[who]
  BY <1>2, <1>3, <1>4
<1>5. LatestParticipation \in [Accounts -> [qblock_id : QBlockIds, kind : Kinds] \cup {None}]
  BY <1>2, InitIndex
<1>6. ParticipationIndexed
  <2> SUFFICES ASSUME NEW who \in Accounts
               PROVE  /\ \A q \in QBlockIds : who \in Participants(q) => q <= candidate_qblock_id
                      /\ LatestParticipation[who] # None =>
                           /\ NodeDescriptors[who] = None => LatestParticipation[who].qblock_id <= lastOldRound
                           /\ ParticipantsByQBlock[LatestParticipation[who].qblock_id][who] = LatestParticipation[who]
                           /\ \A q \in QBlockIds : who \in Participants(q) => q <= LatestParticipation[who].qblock_id
    BY DEF ParticipationIndexed
  <2>1. \A q \in QBlockIds : who \in Participants(q) => q <= candidate_qblock_id
    BY InitIndex DEF Participants, candidate_qblock_id
  <2>2. ASSUME LatestParticipation[who] # None
        PROVE  \A q \in QBlockIds : who \in Participants(q) => q <= LatestParticipation[who].qblock_id
    BY <1>2, <1>4, <2>2
  <2> QED BY <1>4, <2>1, <2>2
<1> QED BY <1>1, <1>5, <1>6, InitIndex DEF FollowsInductive

(***************************************************************************)
(* ParticipationReadable: in whichever order accounts file, clear and take *)
(* part, across qblocks and the upgrade of a chain with any participants,  *)
(* the index names nobody of a later round, agrees with every account's    *)
(* latest record, of which only those the upgrade left behind lack a       *)
(* descriptor, and is read exactly once by a reader that follows the       *)
(* cursor, whatever page sizes it asks.                                    *)
(***************************************************************************)
THEOREM ReadersSeeTheRound == Spec => []ParticipationReadable
<1>2. FollowsInductive /\ [Next]_vars => FollowsInductive'
  BY ParticipateFollows, DescriptorsFollow, RoundsFollow DEF Next
<1>3. FollowsInductive /\ ReserveInductive => ParticipationReadable
  BY PagesAlwaysJoin DEF FollowsInductive, ReserveInductive, ParticipationReadable, TypeOK
<1> QED BY <1>2, <1>3, InitFollows, ReservesStay, PTL DEF Spec
=============================================================================
