--------------------------- MODULE FaucetOps_proofs ---------------------------
(***************************************************************************)
(* Issuance for every schedule, budget, set of accounts and amounts: what  *)
(* bounds the faucet, that every unit issued is accounted for through the  *)
(* accrual loop and its failures, and that no subnet runs ahead of its     *)
(* share of the rates in force or falls behind it.                         *)
(***************************************************************************)
EXTENDS FaucetOps, FiniteSums

\* The faucet's share of the state: what the hooks, rewards and transfers leave alone.
BudgetInv == FaucetBudget \in Nat /\ FaucetIssued \in Nat /\ BudgetIsLifetime

\* Of all steps only the faucet's mint touches what it has issued, and it only
\* mints through an enabled faucet.
LEMMA FaucetStep ==
  ASSUME [Next]_vars
  PROVE  /\ FaucetBudget' = FaucetBudget
         /\ \/ UNCHANGED FaucetIssued
            \/ /\ State = "Enabled" /\ UNCHANGED State
               /\ \E who \in Accounts, amount \in Amounts : mint_faucet(who, amount)
<1>1. CASE \E t \in 0..MaxTime : Block(t)
  BY <1>1 DEF Block, on_initialize
<1>2. CASE \E t \in 0..MaxTime : UpgradeBlock(t)
  BY <1>2 DEF UpgradeBlock, on_runtime_upgrade
<1>3. CASE \E who \in Accounts, requested \in Amounts : Reward(who, requested)
  BY <1>3 DEF Reward, pay
<1>4. CASE \E from \in Users, to \in Accounts, amount \in Amounts : Send(from, to, amount)
  BY <1>4 DEF Send, Transfer
<1>5. CASE \E origin \in Users \cup {Foundation}, who \in Accounts, amount \in Amounts :
             MintFaucet(origin, who, amount)
  BY <1>5 DEF MintFaucet, mint_faucet, faucetVars
<1>6. CASE \E authority \in Users \cup {None} : set_authority(authority)
  BY <1>6 DEF set_authority, emissionVars
<1>7. CASE \E origin \in Users \cup {Foundation} : disable(origin)
  BY <1>7 DEF disable, emissionVars
<1>8. CASE UNCHANGED vars
  BY <1>8 DEF vars, emissionVars
<1> QED BY <1>1, <1>2, <1>3, <1>4, <1>5, <1>6, <1>7, <1>8 DEF Next

\* The fuse and the pause of a legacy faucet survive every step.
LEMMA StateStep ==
  ASSUME [Next]_vars, State # "Enabled"
  PROVE  State' # "Enabled" /\ (State = "PermanentlyDisabled" => State' = State)
<1>1. CASE \E t \in 0..MaxTime : Block(t)
  BY <1>1 DEF Block, faucetVars
<1>2. CASE \E t \in 0..MaxTime : UpgradeBlock(t)
  BY <1>2 DEF UpgradeBlock, UpgradeFaucet, LegacyState
<1>3. CASE \E who \in Accounts, requested \in Amounts : Reward(who, requested)
  BY <1>3 DEF Reward, faucetVars
<1>4. CASE \E from \in Users, to \in Accounts, amount \in Amounts : Send(from, to, amount)
  BY <1>4 DEF Send, faucetVars
<1>5. CASE \E origin \in Users \cup {Foundation}, who \in Accounts, amount \in Amounts :
             MintFaucet(origin, who, amount)
  BY <1>5 DEF MintFaucet
<1>6. CASE \E authority \in Users \cup {None} : set_authority(authority)
  BY <1>6 DEF set_authority
<1>7. CASE \E origin \in Users \cup {Foundation} : disable(origin)
  BY <1>7 DEF disable
<1>8. CASE UNCHANGED vars
  BY <1>8 DEF vars, faucetVars
<1> QED BY <1>1, <1>2, <1>3, <1>4, <1>5, <1>6, <1>7, <1>8 DEF Next

\* mint: the sum over all mints never exceeds the genesis budget.
THEOREM BudgetCorrect == Spec => []BudgetIsLifetime
<1>1. Init => BudgetInv
  BY EmissionAssumption DEF Init, EmissionInit, BudgetInv, BudgetIsLifetime
<1>2. BudgetInv /\ [Next]_vars => BudgetInv'
  <2> SUFFICES ASSUME BudgetInv, [Next]_vars PROVE BudgetInv'
    OBVIOUS
  <2>1. CASE UNCHANGED FaucetIssued
    BY <2>1, FaucetStep DEF BudgetInv, BudgetIsLifetime
  <2>2. CASE \E who \in Accounts, amount \in Amounts : mint_faucet(who, amount)
    BY <2>2, EmissionAssumption DEF mint_faucet, BudgetInv, BudgetIsLifetime
  <2> QED BY <2>1, <2>2, FaucetStep
<1>3. BudgetInv => BudgetIsLifetime
  BY DEF BudgetInv
<1> QED BY <1>1, <1>2, <1>3, PTL DEF Spec

\* disable, on_runtime_upgrade: a closed faucet stays closed and issues nothing.
THEOREM ClosedForGood == Spec => FaucetStaysClosed
<1>1. [Next]_vars =>
        [/\ State # "Enabled" => State' # "Enabled" /\ FaucetIssued' = FaucetIssued
         /\ State = "PermanentlyDisabled" => State' = State]_vars
  BY FaucetStep, StateStep
<1> QED BY <1>1, PTL DEF Spec, FaucetStaysClosed

-----------------------------------------------------------------------------
(* The loop of accrue over the routes. *)

\* The recursion that FoldLeft unfolds for the loop, and its chosen solution.
LoopEquation(g, base, total, W) ==
  g = [T \in SUBSET W |-> IF T = {} THEN base
         ELSE fund_subnet(g[T \ {Max(T)}], Routes[Max(T)], total)]
LoopFcn(base, total, W) == CHOOSE g : LoopEquation(g, base, total, W)

LEMMA LastIndex ==
  ASSUME NEW T \in SUBSET DOMAIN Routes
  PROVE  IsFiniteSet(T) /\ (T # {} => Max(T) \in T)
<1>1. DOMAIN Routes = 1..Len(Routes) /\ Len(Routes) \in Nat
  BY EmissionAssumption
<1>2. IsFiniteSet(1..Len(Routes))
  BY <1>1, FS_Interval
<1>3. IsFiniteSet(T) /\ T \subseteq Int
  BY <1>1, <1>2, FS_Subset
<1>4. T # {} => \E x \in T : \A y \in T : x >= y
  BY <1>3, HasMaximum
<1> QED BY <1>3, <1>4 DEF Max

\* Two solutions agree wherever both are defined.
LEMMA LoopAgree ==
  ASSUME NEW base, NEW total, NEW S \in SUBSET DOMAIN Routes, NEW W \in SUBSET S,
         NEW g, NEW h, LoopEquation(g, base, total, S), LoopEquation(h, base, total, W)
  PROVE  \A T \in SUBSET W : g[T] = h[T]
<1> DEFINE F == {T \in SUBSET W : g[T] # h[T]}
<1> SUFFICES ASSUME F # {} PROVE FALSE
  OBVIOUS
<1>1. PICK T \in F : \A U \in F : U \subseteq T => U = T
  <2>1. F \subseteq SUBSET W /\ IsFiniteSet(W)
    BY LastIndex
  <2> HIDE DEF F
  <2> QED BY <2>1, MinimalSubset
<1>2. T # {}
  BY DEF LoopEquation
<1>3. Max(T) \in T
  BY <1>2, LastIndex
<1>4. g[T \ {Max(T)}] = h[T \ {Max(T)}]
  BY <1>1, <1>3
<1>5. /\ g[T] = fund_subnet(g[T \ {Max(T)}], Routes[Max(T)], total)
      /\ h[T] = fund_subnet(h[T \ {Max(T)}], Routes[Max(T)], total)
  BY <1>2 DEF LoopEquation
<1>6. g[T] = h[T]
  BY <1>4, <1>5
<1> QED BY <1>6

\* The recursion has a solution, so the chosen one is a solution.
LEMMA LoopDefined ==
  ASSUME NEW base, NEW total, NEW S \in SUBSET DOMAIN Routes
  PROVE  LoopEquation(LoopFcn(base, total, S), base, total, S)
<1> DEFINE F == {T \in SUBSET S : ~LoopEquation(LoopFcn(base, total, T), base, total, T)}
<1> SUFFICES ASSUME F # {} PROVE FALSE
  OBVIOUS
<1>1. PICK T \in F : \A U \in F : U \subseteq T => U = T
  <2>1. F \subseteq SUBSET S /\ IsFiniteSet(S)
    BY LastIndex
  <2> HIDE DEF F
  <2> QED BY <2>1, MinimalSubset
<1> DEFINE sol(U) == LoopFcn(base, total, U)[U]
           h == [U \in SUBSET T |-> IF U = {} THEN base
                  ELSE fund_subnet(sol(U \ {Max(U)}), Routes[Max(U)], total)]
<1>2. \A U \in SUBSET T : U # T => LoopEquation(LoopFcn(base, total, U), base, total, U)
  BY <1>1
<1>3. \A U \in SUBSET T : U # T => h[U] = sol(U)
  <2>0. {} # T => h[{}] = sol({})
    <3>1. {} # T => LoopEquation(LoopFcn(base, total, {}), base, total, {})
      BY <1>2
    <3>2. h[{}] = base
      OBVIOUS
    <3> QED BY <3>1, <3>2 DEF LoopEquation
  <2> SUFFICES ASSUME NEW U \in SUBSET T, U # T, U # {} PROVE h[U] = sol(U)
    BY <2>0
  <2> DEFINE V == U \ {Max(U)}
  <2>1. Max(U) \in U /\ V \in SUBSET U /\ V \in SUBSET T /\ V # T /\ U \in SUBSET DOMAIN Routes
    <3>1. U \in SUBSET DOMAIN Routes
      OBVIOUS
    <3>2. Max(U) \in U
      BY <3>1, LastIndex
    <3> QED BY <3>1, <3>2
  <2>2. LoopFcn(base, total, U)[V] = LoopFcn(base, total, V)[V]
    <3>1. /\ LoopEquation(LoopFcn(base, total, U), base, total, U)
          /\ LoopEquation(LoopFcn(base, total, V), base, total, V)
      BY <1>2, <2>1
    <3> HIDE DEF V
    <3> QED BY <2>1, <3>1, LoopAgree
  <2>3. LoopFcn(base, total, U)[U] = fund_subnet(LoopFcn(base, total, U)[V], Routes[Max(U)], total)
    <3>1. PICK g : g = LoopFcn(base, total, U)
      OBVIOUS
    <3>2. LoopEquation(g, base, total, U)
      BY <1>2, <3>1
    <3>3. g[U] = fund_subnet(g[V], Routes[Max(U)], total)
      BY <3>2 DEF LoopEquation
    <3> QED BY <3>1, <3>3
  <2>4. h[U] = fund_subnet(sol(V), Routes[Max(U)], total)
    OBVIOUS
  <2> QED BY <2>2, <2>3, <2>4
<1>4. LoopEquation(h, base, total, T)
  <2>1. ASSUME NEW U \in SUBSET T, U # {}
        PROVE  h[U] = fund_subnet(h[U \ {Max(U)}], Routes[Max(U)], total)
    <3>1. Max(U) \in U
      BY <2>1, LastIndex
    <3>2. U \ {Max(U)} \in SUBSET T /\ U \ {Max(U)} # T
      BY <3>1
    <3>3. h[U \ {Max(U)}] = sol(U \ {Max(U)})
      BY <1>3, <3>2
    <3>4. h[U] = fund_subnet(sol(U \ {Max(U)}), Routes[Max(U)], total)
      BY <2>1
    <3> HIDE DEF h, sol
    <3> QED BY <3>3, <3>4
  <2> QED BY <2>1 DEF LoopEquation
<1>5. LoopEquation(LoopFcn(base, total, T), base, total, T)
  BY <1>4 DEF LoopFcn
<1> QED BY <1>1, <1>5

\* The books before the loop.
OldBooks == [issued |-> SubnetIssued, scheduled |-> ScheduledIssued, free |-> free]

LEMMA LoopUnfold ==
  ASSUME NEW total
  PROVE  fund_subnets(total) = LoopFcn(OldBooks, total, DOMAIN Routes)[DOMAIN Routes]
  BY Zenon DEF fund_subnets, FoldLeft, MapThenFoldSet, LoopFcn, LoopEquation, OldBooks

\* What every turn of the loop keeps, the loop keeps.
LEMMA LoopKeeps ==
  ASSUME NEW total, NEW B, OldBooks \in B,
         \A b \in B : \A i \in DOMAIN Routes : fund_subnet(b, Routes[i], total) \in B
  PROVE  fund_subnets(total) \in B
<1>1. PICK D : D = DOMAIN Routes
  OBVIOUS
<1>2. PICK g : g = LoopFcn(OldBooks, total, D)
  OBVIOUS
<1>3. LoopEquation(g, OldBooks, total, D)
  BY <1>1, <1>2, LoopDefined
<1> DEFINE F == {T \in SUBSET D : g[T] \notin B}
<1>4. ASSUME F # {} PROVE FALSE
  <2>1. PICK T \in F : \A U \in F : U \subseteq T => U = T
    <3>1. F \subseteq SUBSET D /\ IsFiniteSet(D)
      BY <1>1, LastIndex
    <3> HIDE DEF F
    <3> QED BY <1>4, <3>1, MinimalSubset
  <2>2. T # {}
    BY <1>3 DEF LoopEquation
  <2>3. Max(T) \in T /\ T \subseteq D
    BY <1>1, <2>2, LastIndex
  <2>4. g[T \ {Max(T)}] \in B
    BY <2>1, <2>3
  <2>5. g[T] = fund_subnet(g[T \ {Max(T)}], Routes[Max(T)], total)
    BY <1>3, <2>2, <2>3 DEF LoopEquation
  <2>6. g[T] \in B
    BY <1>1, <2>3, <2>4, <2>5
  <2> QED BY <2>6
<1>5. g[D] \in B
  BY <1>4
<1> QED BY <1>1, <1>2, <1>5, LoopUnfold

-----------------------------------------------------------------------------
(* The ledger: every unit has a source, and no account holds dust. *)

LEMMA BooksFinite == /\ IsFiniteSet(Subnets) /\ IsFiniteSet(Users) /\ IsFiniteSet(Accounts)
                     /\ \A s \in Subnets : pot(s) \in Accounts
<1>1. DOMAIN Routes = 1..Len(Routes) /\ Len(Routes) \in Nat
  BY EmissionAssumption
<1>2. IsFiniteSet(DOMAIN Routes)
  BY <1>1, FS_Interval
<1>3. IsFiniteSet(Subnets)
  <2>1. PICK f : f = [i \in DOMAIN Routes |-> Routes[i][1]]
    OBVIOUS
  <2>2. f \in Surjection(DOMAIN Routes, Subnets)
    BY <2>1 DEF Subnets, Surjection
  <2> QED BY <1>2, <2>2, FS_Surjection
<1>4. IsFiniteSet({pot(s) : s \in Subnets})
  <2>1. PICK f : f = [s \in Subnets |-> pot(s)]
    OBVIOUS
  <2>2. f \in Surjection(Subnets, {pot(s) : s \in Subnets})
    BY <2>1 DEF Surjection
  <2> QED BY <1>3, <2>2, FS_Surjection
<1>5. IsFiniteSet(Users)
  BY EmissionAssumption
<1>6. IsFiniteSet(Accounts)
  BY <1>4, <1>5, FS_Union DEF Accounts
<1> QED BY <1>3, <1>5, <1>6 DEF Accounts

AllBooks == [issued : [Subnets -> Nat], scheduled : Nat, free : [Accounts -> Nat]]

\* Books that are explained by genesis, schedule and a faucet that minted `minted`.
Explained(b, minted) ==
  /\ \A a \in Accounts : b.free[a] = 0 \/ b.free[a] >= ExistentialDeposit
  /\ b.scheduled = SumFunctionOnSet(b.issued, Subnets)
  /\ SumFunctionOnSet(b.free, Accounts) = GenesisFree * Cardinality(Users) + b.scheduled + minted
  /\ SumFunctionOnSet(b.free, Accounts) <= MaxBalance

\* No account holds less than the existential deposit.
NoDust(balances) == \A a \in Accounts : balances[a] = 0 \/ balances[a] >= ExistentialDeposit

\* `after` is what a deposit of `amount` makes of `balances`.
Deposited(after, balances, amount) ==
  /\ after \in [Accounts -> Nat] /\ NoDust(after)
  /\ SumFunctionOnSet(after, Accounts) = SumFunctionOnSet(balances, Accounts) + amount
  /\ SumFunctionOnSet(after, Accounts) <= MaxBalance

\* A deposit that may be made: it adds its amount to the issuance, and leaves no dust.
LEMMA DepositKeeps ==
  ASSUME NEW balances \in [Accounts -> Nat], NEW who \in Accounts, NEW amount \in Nat,
         NoDust(balances), deposit_exact(balances, who, amount),
         NEW after, after = [balances EXCEPT ![who] = @ + amount]
  PROVE  Deposited(after, balances, amount)
<1>1. after \in [Accounts -> Nat]
  OBVIOUS
<1>2. after[who] = balances[who] + amount /\ \A a \in Accounts \ {who} : after[a] = balances[a]
  OBVIOUS
<1>3. /\ SumFunctionOnSet(balances, Accounts) + amount <= MaxBalance
      /\ balances[who] + amount >= ExistentialDeposit
  <2>1. DOMAIN balances = Accounts
    OBVIOUS
  <2> QED BY <2>1 DEF deposit_exact, TotalIssuance, SumFunction
<1>4. NoDust(after)
  BY <1>2, <1>3 DEF NoDust
<1>5. SumFunctionOnSet(after, Accounts) = SumFunctionOnSet(balances, Accounts) + after[who] - balances[who]
  <2>1. \A a \in Accounts : balances[a] \in Int /\ after[a] \in Int
    BY <1>1
  <2>2. \A a \in Accounts \ {who} : balances[a] = after[a]
    BY <1>2
  <2>3. IsFiniteSet(Accounts)
    BY BooksFinite
  <2> QED BY ONLY <2>1, <2>2, <2>3, who \in Accounts, SumChange
<1>6. SumFunctionOnSet(balances, Accounts) \in Nat
  BY BooksFinite, SumNat
<1>7. SumFunctionOnSet(after, Accounts) = SumFunctionOnSet(balances, Accounts) + amount
  <2>1. balances[who] \in Nat
    OBVIOUS
  <2> QED BY <1>2, <1>5, <1>6, <2>1
<1> QED BY <1>1, <1>3, <1>4, <1>7 DEF Deposited

\* One turn of the loop: what a subnet is issued is deposited and booked, or nothing is.
LEMMA FundKeeps ==
  ASSUME NEW b \in AllBooks, NEW minted \in Nat, Explained(b, minted), NEW total \in Nat,
         NEW i \in DOMAIN Routes
  PROVE  fund_subnet(b, Routes[i], total) \in AllBooks /\ Explained(fund_subnet(b, Routes[i], total), minted)
<1>1. PICK s : s = Routes[i][1]
  OBVIOUS
<1>2. PICK amount : amount = mul_floor(Routes[i][2], total) - b.issued[s]
  OBVIOUS
<1>3. s \in Subnets /\ Routes[i][2] \in Nat
  <2>1. Routes[i] \in Subnets \X Nat
    BY EmissionAssumption
  <2> QED BY <1>1, <2>1
<1>4. amount \in Int
  <2>1. One \in Nat \ {0}
    BY EmissionAssumption
  <2>2. mul_floor(Routes[i][2], total) \in Int
    BY <1>3, <2>1 DEF mul_floor
  <2>3. b.issued[s] \in Nat
    BY <1>3 DEF AllBooks
  <2> QED BY <1>2, <2>2, <2>3
<1>5. CASE ~(amount > 0 /\ deposit_exact(b.free, pot(s), amount))
  BY <1>1, <1>2, <1>5 DEF fund_subnet
<1>6. CASE amount > 0 /\ deposit_exact(b.free, pot(s), amount)
  <2>1. PICK issued : issued = [b.issued EXCEPT ![s] = @ + amount]
    OBVIOUS
  <2>2. PICK after : after = [b.free EXCEPT ![pot(s)] = @ + amount]
    OBVIOUS
  <2>3. PICK c : c = [issued |-> issued, scheduled |-> b.scheduled + amount, free |-> after]
    OBVIOUS
  <2>4. fund_subnet(b, Routes[i], total) = c
    BY <1>1, <1>2, <1>6, <2>1, <2>2, <2>3 DEF fund_subnet
  <2>5. b.issued \in [Subnets -> Nat] /\ b.free \in [Accounts -> Nat] /\ b.scheduled \in Nat /\ amount \in Nat
    BY <1>4, <1>6 DEF AllBooks
  <2>6. /\ after \in [Accounts -> Nat]
        /\ \A a \in Accounts : after[a] = 0 \/ after[a] >= ExistentialDeposit
        /\ SumFunctionOnSet(after, Accounts) = SumFunctionOnSet(b.free, Accounts) + amount
        /\ SumFunctionOnSet(after, Accounts) <= MaxBalance
    <3>1. pot(s) \in Accounts
      BY <1>3, BooksFinite
    <3>2. NoDust(b.free)
      BY DEF Explained, NoDust
    <3>3. Deposited(after, b.free, amount)
      BY <1>6, <2>2, <2>5, <3>1, <3>2, DepositKeeps
    <3> QED BY <3>3 DEF Deposited, NoDust
  <2>7. /\ issued \in [Subnets -> Nat] /\ issued[s] = b.issued[s] + amount
        /\ \A x \in Subnets \ {s} : issued[x] = b.issued[x]
    BY <1>3, <2>1, <2>5
  <2>8. SumFunctionOnSet(issued, Subnets) = SumFunctionOnSet(b.issued, Subnets) + amount
    <3>1. PICK f : f = b.issued
      OBVIOUS
    <3>2. /\ \A x \in Subnets : f[x] \in Int /\ issued[x] \in Int
          /\ \A x \in Subnets \ {s} : f[x] = issued[x]
      BY <2>5, <2>7, <3>1
    <3>3. SumFunctionOnSet(issued, Subnets) = SumFunctionOnSet(f, Subnets) + issued[s] - f[s]
      BY <1>3, <3>2, BooksFinite, SumChange
    <3>4. SumFunctionOnSet(f, Subnets) \in Int /\ f[s] \in Int
      BY <1>3, <3>2, BooksFinite, SumInt
    <3> QED BY <1>4, <2>7, <3>1, <3>3, <3>4
  <2>9. c \in AllBooks
    BY <2>3, <2>5, <2>6, <2>7 DEF AllBooks
  <2>10. c.issued = issued /\ c.scheduled = b.scheduled + amount /\ c.free = after
    BY <2>3
  <2>11. Explained(c, minted)
    <3>1. GenesisFree * Cardinality(Users) \in Int
      BY BooksFinite, FS_CardinalityType, EmissionAssumption
    <3>2. /\ b.scheduled = SumFunctionOnSet(b.issued, Subnets)
          /\ SumFunctionOnSet(b.free, Accounts) = GenesisFree * Cardinality(Users) + b.scheduled + minted
      BY DEF Explained
    <3>3. PICK g \in Int : g = GenesisFree * Cardinality(Users)
      BY <3>1
    <3>4. SumFunctionOnSet(after, Accounts) = g + (b.scheduled + amount) + minted
      BY <2>5, <2>6, <3>2, <3>3
    <3> QED BY <2>6, <2>8, <2>10, <3>2, <3>3, <3>4 DEF Explained
  <2> QED BY <2>4, <2>9, <2>11
<1> QED BY <1>5, <1>6

\* The whole loop.
LEMMA LoopExplained ==
  ASSUME OldBooks \in AllBooks, NEW minted \in Nat, Explained(OldBooks, minted), NEW total \in Nat
  PROVE  fund_subnets(total) \in AllBooks /\ Explained(fund_subnets(total), minted)
<1> DEFINE B == {b \in AllBooks : Explained(b, minted)}
<1>1. OldBooks \in B
  OBVIOUS
<1>2. \A b \in B : \A i \in DOMAIN Routes : fund_subnet(b, Routes[i], total) \in B
  BY FundKeeps
<1>3. fund_subnets(total) \in B
  <2> HIDE DEF B
  <2> QED BY <1>1, <1>2, LoopKeeps
<1> QED BY <1>3

\* The entitlement of a schedule, at most its rate times the elapsed seconds.
LEMMA EntitlementIs ==
  ASSUME NEW elapsed \in Nat, NEW annual \in Nat, entitlement(elapsed, annual) # None
  PROVE  /\ entitlement(elapsed, annual) \in Nat
         /\ entitlement(elapsed, annual) * Year <= annual * elapsed
<1>1. Year \in Nat /\ Year > 0
  BY EmissionAssumption
<1>2. PICK q : q = elapsed \div Year
  OBVIOUS
<1>3. PICK r : r = elapsed % Year
  OBVIOUS
<1>4. q \in Nat /\ r \in Nat /\ elapsed = Year * q + r
  BY <1>1, <1>2, <1>3
<1>5. PICK years : years = annual * q
  OBVIOUS
<1>6. PICK product : product = annual * r
  OBVIOUS
<1>7. years \in Nat /\ product \in Nat
  BY <1>4, <1>5, <1>6
<1>8. PICK part : part = product \div Year
  OBVIOUS
<1>9. part \in Nat /\ Year * part <= product
  BY <1>1, <1>7, <1>8
<1>10. entitlement(elapsed, annual) = years + part
  BY <1>2, <1>3, <1>5, <1>6, <1>8 DEF entitlement
<1>11. (years + part) * Year = years * Year + Year * part
  BY <1>1, <1>7, <1>9
<1>12. annual * elapsed = years * Year + product
  <2>1. annual * (Year * q + r) = annual * (Year * q) + annual * r
    BY <1>1, <1>4
  <2>2. annual * (Year * q) = (annual * q) * Year
    BY <1>1, <1>4
  <2> QED BY <1>4, <1>5, <1>6, <2>1, <2>2
<1>13. years * Year \in Nat
  BY <1>1, <1>7
<1>14. PICK a \in Nat : a = years * Year
  BY <1>13
<1>15. (years + part) * Year = a + Year * part /\ annual * elapsed = a + product
  BY <1>11, <1>12, <1>14
<1>16. (years + part) * Year <= annual * elapsed
  <2>1. PICK c \in Nat : c = Year * part
    BY <1>1, <1>9
  <2>2. c <= product
    BY <1>9, <2>1
  <2>3. a + c <= a + product
    BY <1>7, <1>14, <2>1, <2>2
  <2> QED BY <1>15, <2>1, <2>3
<1>17. years + part \in Nat
  BY <1>7, <1>9
<1> QED BY <1>10, <1>16, <1>17

\* What accrue does: it leaves the books alone, or it has run the loop with the
\* entitlement since the anchor.
Accrued(start, annual) ==
  \/ /\ OldBooks' = OldBooks
     /\ StartAt' = start \/ (start = None /\ StartAt' = now)
  \/ /\ start # None /\ StartAt' = start /\ Enabled
     /\ \E elapsed : /\ elapsed = IF now > start THEN now - start ELSE 0
                     /\ entitlement(elapsed, annual) # None
                     /\ SubnetIssued' = fund_subnets(entitlement(elapsed, annual)).issued
                     /\ ScheduledIssued' = fund_subnets(entitlement(elapsed, annual)).scheduled
                     /\ free' = fund_subnets(entitlement(elapsed, annual)).free

LEMMA AccrueIs ==
  ASSUME NEW start, NEW annual, accrue(start, annual), Enabled \in BOOLEAN
  PROVE  Accrued(start, annual)
<1>1. PICK elapsed : elapsed = IF now > start THEN now - start ELSE 0
  OBVIOUS
<1>2. PICK total : total = entitlement(elapsed, annual)
  OBVIOUS
<1>3. CASE ~Enabled \/ now = 0
  <2>1. StartAt' = start /\ UNCHANGED <<SubnetIssued, ScheduledIssued, free>>
    BY <1>3 DEF accrue
  <2> QED BY <2>1 DEF Accrued, OldBooks
<1>4. CASE ~(~Enabled \/ now = 0) /\ start = None
  <2>1. StartAt' = now /\ UNCHANGED <<SubnetIssued, ScheduledIssued, free>>
    BY <1>4 DEF accrue
  <2> QED BY <1>4, <2>1 DEF Accrued, OldBooks
<1>5. CASE ~(~Enabled \/ now = 0) /\ start # None
  <2>1. /\ StartAt' = start
        /\ IF total = None THEN UNCHANGED <<SubnetIssued, ScheduledIssued, free>>
           ELSE /\ SubnetIssued' = fund_subnets(total).issued
                /\ ScheduledIssued' = fund_subnets(total).scheduled
                /\ free' = fund_subnets(total).free
    BY <1>1, <1>2, <1>5 DEF accrue
  <2>2. CASE total = None
    BY <2>1, <2>2 DEF Accrued, OldBooks
  <2>3. CASE total # None
    BY <1>1, <1>2, <1>5, <2>1, <2>3 DEF Accrued
  <2> QED BY <2>2, <2>3
<1> QED BY <1>3, <1>4, <1>5

LEMMA AccrueKeeps ==
  ASSUME OldBooks \in AllBooks, FaucetIssued \in Nat, Explained(OldBooks, FaucetIssued),
         now \in Nat, NEW start \in Nat \cup {None}, NEW annual \in Nat, Accrued(start, annual)
  PROVE  /\ OldBooks' \in AllBooks /\ Explained(OldBooks', FaucetIssued)
         /\ StartAt' \in Nat \cup {None}
<1>1. CASE OldBooks' = OldBooks /\ (StartAt' = start \/ (start = None /\ StartAt' = now))
  BY <1>1
<1>2. CASE ~(OldBooks' = OldBooks /\ (StartAt' = start \/ (start = None /\ StartAt' = now)))
  <2>1. PICK elapsed : /\ elapsed = IF now > start THEN now - start ELSE 0
                       /\ start # None /\ StartAt' = start
                       /\ entitlement(elapsed, annual) # None
                       /\ SubnetIssued' = fund_subnets(entitlement(elapsed, annual)).issued
                       /\ ScheduledIssued' = fund_subnets(entitlement(elapsed, annual)).scheduled
                       /\ free' = fund_subnets(entitlement(elapsed, annual)).free
    BY <1>2 DEF Accrued
  <2>2. start \in Nat /\ elapsed \in Nat
    BY <2>1
  <2>3. PICK total : total = entitlement(elapsed, annual)
    OBVIOUS
  <2>4. total \in Nat
    BY <2>1, <2>2, <2>3, EntitlementIs
  <2>5. fund_subnets(total) \in AllBooks /\ Explained(fund_subnets(total), FaucetIssued)
    BY <2>4, LoopExplained
  <2>6. PICK b : b = fund_subnets(total)
    OBVIOUS
  <2>7. SubnetIssued' = b.issued /\ ScheduledIssued' = b.scheduled /\ free' = b.free
    BY <2>1, <2>3, <2>6
  <2>8. b \in AllBooks /\ Explained(b, FaucetIssued)
    BY <2>5, <2>6
  <2>9. b = [issued |-> b.issued, scheduled |-> b.scheduled, free |-> b.free]
    BY <2>8 DEF AllBooks
  <2>10. OldBooks' = b
    BY <2>7, <2>9 DEF OldBooks
  <2> QED BY <2>1, <2>8, <2>10
<1> QED BY <1>1, <1>2

\* The clock of the schedule.
ClockInductive ==
  /\ now \in 0..MaxTime /\ Enabled \in BOOLEAN /\ StartAt \in Nat \cup {None}
  /\ emissionVersion \in {1, 2} /\ credit \in Nat /\ covered \in 0..credit

\* What keeps the ledger explained.
LedgerInductive ==
  /\ ClockInductive
  /\ FaucetBudget \in Balance /\ FaucetIssued \in Balance
  /\ State \in FaucetStates /\ Authority \in Users \cup {None} /\ faucetVersion \in {0, 1}
  /\ OldBooks \in AllBooks /\ Explained(OldBooks, FaucetIssued)

\* The seconds since the anchor, at time x.
Since(start, x) == IF x > start THEN x - start ELSE 0

LEMMA SinceGrows ==
  ASSUME NEW start \in Nat, NEW x \in Nat, NEW y \in Nat, y >= x
  PROVE  Since(start, x) \in Nat /\ Since(start, y) \in Nat /\ Since(start, y) >= Since(start, x)
<1>1. CASE x > start
  BY <1>1 DEF Since
<1>2. CASE ~(x > start)
  BY <1>2 DEF Since
<1> QED BY <1>1, <1>2

LEMMA PassedIs ==
  ASSUME now \in Nat, NEW t \in Nat, SetTime(t), StartAt' \in Nat \cup {None}, Enabled \in BOOLEAN
  PROVE  /\ Passed(t) \in Nat /\ now' = t /\ t >= now
         /\ Enabled /\ StartAt' # None =>
              /\ Passed(t) = Since(StartAt', t) - Since(StartAt', now)
              /\ Since(StartAt', t) \in Nat /\ Since(StartAt', now) \in Nat
<1>1. now' = t /\ t >= now
  BY EmissionAssumption DEF SetTime
<1>2. CASE ~Enabled \/ StartAt' = None
  BY <1>1, <1>2 DEF Passed
<1>3. CASE Enabled /\ StartAt' # None
  <2>1. PICK start \in Nat : start = StartAt'
    BY <1>3
  <2>2. /\ Since(start, t) \in Nat /\ Since(start, now) \in Nat
        /\ Since(start, t) >= Since(start, now)
    BY <1>1, <2>1, SinceGrows
  <2>3. Passed(t) = Since(StartAt', t) - Since(StartAt', now)
    BY <1>3 DEF Passed, Since
  <2> QED BY <1>1, <2>1, <2>2, <2>3
<1> QED BY <1>2, <1>3

LEMMA RebasedType ==
  ASSUME NEW annual \in Nat \ {0}, now \in Nat, StartAt \in Nat \cup {None}, ScheduledIssued \in Nat
  PROVE  rebased_start(annual) \in Nat \cup {None}
<1>1. PICK e : e = (ScheduledIssued * Year) \div annual
  OBVIOUS
<1>2. e \in Nat
  <2>1. PICK m : m = ScheduledIssued * Year
    OBVIOUS
  <2>2. m \in Nat
    BY <2>1, EmissionAssumption
  <2> QED BY <1>1, <2>1, <2>2
<1> QED BY <1>1, <1>2 DEF rebased_start

\* A block: the clock, the accrual and the history of the rates.
LEMMA BlockKeeps ==
  ASSUME LedgerInductive, NEW t \in 0..MaxTime, SetTime(t),
         NEW start \in Nat \cup {None}, NEW annual \in Nat, accrue(start, annual),
         credit' = credit + annual * Passed(t), covered' = credit,
         UNCHANGED <<Enabled, FaucetBudget, FaucetIssued>>, emissionVersion' \in {1, 2},
         State' \in FaucetStates, Authority' \in Users \cup {None}, faucetVersion' \in {0, 1}
  PROVE  LedgerInductive'
<1>1. /\ now \in Nat /\ t \in Nat /\ Enabled \in BOOLEAN /\ FaucetIssued \in Nat
      /\ credit \in Nat /\ MaxTime \in Nat
  BY EmissionAssumption DEF LedgerInductive, ClockInductive, Balance
<1>2. /\ OldBooks' \in AllBooks /\ Explained(OldBooks', FaucetIssued)
      /\ StartAt' \in Nat \cup {None}
  <2>1. Accrued(start, annual)
    BY <1>1, AccrueIs
  <2>2. OldBooks \in AllBooks /\ Explained(OldBooks, FaucetIssued)
    BY DEF LedgerInductive
  <2> QED BY <1>1, <2>1, <2>2, AccrueKeeps
<1>3. Passed(t) \in Nat /\ now' = t
  BY <1>1, <1>2, PassedIs
<1>4. credit' \in Nat /\ covered' \in 0..credit'
  <2>1. PICK c : c = annual * Passed(t)
    OBVIOUS
  <2>2. c \in Nat
    BY <1>3, <2>1
  <2> QED BY <1>1, <2>1, <2>2
<1>5. ClockInductive'
  BY <1>1, <1>2, <1>3, <1>4 DEF ClockInductive
<1>6. FaucetBudget' \in Balance /\ FaucetIssued' \in Balance /\ FaucetIssued' = FaucetIssued
  BY DEF LedgerInductive
<1> QED BY <1>2, <1>5, <1>6 DEF LedgerInductive, Balance

\* The parts of the books that the currency's calls change or leave alone.
LEMMA BooksParts ==
  /\ OldBooks \in AllBooks <=> /\ SubnetIssued \in [Subnets -> Nat] /\ ScheduledIssued \in Nat
                               /\ free \in [Accounts -> Nat]
  /\ \A minted : Explained(OldBooks, minted) <=>
       /\ \A a \in Accounts : free[a] = 0 \/ free[a] >= ExistentialDeposit
       /\ ScheduledIssued = SumFunctionOnSet(SubnetIssued, Subnets)
       /\ SumFunctionOnSet(free, Accounts) = GenesisFree * Cardinality(Users) + ScheduledIssued + minted
       /\ SumFunctionOnSet(free, Accounts) <= MaxBalance
<1>1. OldBooks.issued = SubnetIssued /\ OldBooks.scheduled = ScheduledIssued /\ OldBooks.free = free
  BY DEF OldBooks
<1>2. OldBooks \in AllBooks <=> /\ SubnetIssued \in [Subnets -> Nat] /\ ScheduledIssued \in Nat
                                /\ free \in [Accounts -> Nat]
  BY DEF OldBooks, AllBooks
<1> QED BY <1>1, <1>2 DEF Explained

\* Rewards and transfers move units between accounts that stay alive.
LEMMA MoveKeeps ==
  ASSUME LedgerInductive, NEW from \in Accounts, NEW to \in Accounts, from # to, NEW amount \in Nat,
         CanTransfer(from, to, amount), Move(from, to, amount),
         UNCHANGED <<now, Enabled, schedule, FaucetBudget, FaucetIssued, emissionVersion, credit, covered>>,
         UNCHANGED faucetVars
  PROVE  LedgerInductive'
<1>1. /\ free \in [Accounts -> Nat] /\ SubnetIssued \in [Subnets -> Nat] /\ ScheduledIssued \in Nat
      /\ \A a \in Accounts : free[a] = 0 \/ free[a] >= ExistentialDeposit
      /\ ScheduledIssued = SumFunctionOnSet(SubnetIssued, Subnets)
      /\ SumFunctionOnSet(free, Accounts) = GenesisFree * Cardinality(Users) + ScheduledIssued + FaucetIssued
      /\ SumFunctionOnSet(free, Accounts) <= MaxBalance
  BY BooksParts DEF LedgerInductive
<1>2. ExistentialDeposit \in Nat
  BY EmissionAssumption
<1>3. PICK mid : mid = [free EXCEPT ![from] = @ - amount]
  OBVIOUS
<1>4. free' = [mid EXCEPT ![to] = @ + amount]
  BY <1>3 DEF Move
<1>5. free[from] \in Nat /\ free[to] \in Nat /\ free[from] - amount >= ExistentialDeposit
      /\ free[to] + amount >= ExistentialDeposit /\ free[from] - amount \in Nat
  BY <1>1, <1>2 DEF CanTransfer
<1>6. mid \in [Accounts -> Nat] /\ mid[from] = free[from] - amount
      /\ \A a \in Accounts \ {from} : mid[a] = free[a]
  BY <1>1, <1>3, <1>5
<1>7. mid[to] = free[to]
  BY <1>6
<1>8. free' \in [Accounts -> Nat] /\ free'[to] = free[to] + amount /\ free'[from] = free[from] - amount
      /\ \A a \in Accounts \ {to} : free'[a] = mid[a]
  BY <1>4, <1>5, <1>6, <1>7
<1>9. \A a \in Accounts : free'[a] = 0 \/ free'[a] >= ExistentialDeposit
  <2> TAKE a \in Accounts
  <2>1. CASE a = from \/ a = to
    BY <1>5, <1>8, <2>1
  <2>2. CASE a # from /\ a # to
    <3>1. free'[a] = free[a]
      BY <1>6, <1>8, <2>2
    <3> QED BY <1>1, <3>1
  <2> QED BY <2>1, <2>2
<1>10. SumFunctionOnSet(mid, Accounts) = SumFunctionOnSet(free, Accounts) + mid[from] - free[from]
  <2>1. PICK f : f = free
    OBVIOUS
  <2>2. /\ \A a \in Accounts : f[a] \in Int /\ mid[a] \in Int
        /\ \A a \in Accounts \ {from} : f[a] = mid[a]
    BY <1>1, <1>6, <2>1
  <2>3. IsFiniteSet(Accounts)
    BY BooksFinite
  <2>4. SumFunctionOnSet(mid, Accounts) = SumFunctionOnSet(f, Accounts) + mid[from] - f[from]
    BY ONLY <2>2, <2>3, from \in Accounts, SumChange
  <2> QED BY <2>1, <2>4
<1>11. SumFunctionOnSet(free', Accounts) = SumFunctionOnSet(mid, Accounts) + free'[to] - mid[to]
  <2>1. PICK f : f = free'
    OBVIOUS
  <2>2. /\ \A a \in Accounts : f[a] \in Int /\ mid[a] \in Int
        /\ \A a \in Accounts \ {to} : mid[a] = f[a]
    BY <1>6, <1>8, <2>1
  <2>3. IsFiniteSet(Accounts)
    BY BooksFinite
  <2>4. SumFunctionOnSet(f, Accounts) = SumFunctionOnSet(mid, Accounts) + f[to] - mid[to]
    BY ONLY <2>2, <2>3, to \in Accounts, SumChange
  <2> QED BY <2>1, <2>4
<1>12. SumFunctionOnSet(free', Accounts) = SumFunctionOnSet(free, Accounts)
  <2>1. SumFunctionOnSet(free, Accounts) \in Nat
    BY <1>1, BooksFinite, SumNat
  <2>2. PICK a : a = SumFunctionOnSet(free, Accounts)
    OBVIOUS
  <2>3. PICK b : b = SumFunctionOnSet(mid, Accounts)
    OBVIOUS
  <2>4. b = a + (free[from] - amount) - free[from] /\ SumFunctionOnSet(free', Accounts) = b + (free[to] + amount) - free[to]
    BY <1>6, <1>7, <1>8, <1>10, <1>11, <2>2, <2>3
  <2>5. PICK x \in Nat : x = free[from]
    BY <1>5
  <2>6. PICK y \in Nat : y = free[to]
    BY <1>5
  <2>7. b = a + (x - amount) - x /\ SumFunctionOnSet(free', Accounts) = b + (y + amount) - y
    BY <2>4, <2>5, <2>6
  <2>8. a \in Nat
    BY <2>1, <2>2
  <2>9. SumFunctionOnSet(free', Accounts) = a
    BY <2>5, <2>6, <2>7, <2>8
  <2> QED BY <2>2, <2>9
<1>13. /\ SubnetIssued' = SubnetIssued /\ ScheduledIssued' = ScheduledIssued /\ FaucetIssued' = FaucetIssued
  BY DEF schedule
<1>14. OldBooks' \in AllBooks
  <2>1. OldBooks' = [issued |-> SubnetIssued, scheduled |-> ScheduledIssued, free |-> free']
    BY <1>13 DEF OldBooks
  <2> QED BY <1>1, <1>8, <2>1 DEF AllBooks
<1>15. Explained(OldBooks', FaucetIssued')
  <2>1. /\ OldBooks'.issued = SubnetIssued /\ OldBooks'.scheduled = ScheduledIssued
        /\ OldBooks'.free = free'
    BY <1>13 DEF OldBooks
  <2> QED BY <1>1, <1>9, <1>12, <1>13, <2>1 DEF Explained
<1>16. ClockInductive'
  BY DEF LedgerInductive, ClockInductive, schedule
<1> QED BY <1>14, <1>15, <1>16 DEF LedgerInductive, faucetVars, Balance

\* The faucet mints what it books.
LEMMA MintKeeps ==
  ASSUME LedgerInductive, NEW who \in Accounts, NEW amount \in Nat, mint_faucet(who, amount),
         UNCHANGED faucetVars
  PROVE  LedgerInductive'
<1>1. /\ free \in [Accounts -> Nat] /\ SubnetIssued \in [Subnets -> Nat] /\ ScheduledIssued \in Nat
      /\ \A a \in Accounts : free[a] = 0 \/ free[a] >= ExistentialDeposit
      /\ ScheduledIssued = SumFunctionOnSet(SubnetIssued, Subnets)
      /\ SumFunctionOnSet(free, Accounts) = GenesisFree * Cardinality(Users) + ScheduledIssued + FaucetIssued
  BY BooksParts DEF LedgerInductive
<1>2. /\ deposit_exact(free, who, amount) /\ free' = [free EXCEPT ![who] = @ + amount]
      /\ FaucetIssued' = FaucetIssued + amount /\ FaucetIssued + amount <= MaxBalance
      /\ UNCHANGED <<now, Enabled, StartAt, SubnetIssued, ScheduledIssued, FaucetBudget, emissionVersion,
                     credit, covered>>
  BY DEF mint_faucet, schedule
<1>3. /\ free' \in [Accounts -> Nat]
      /\ \A a \in Accounts : free'[a] = 0 \/ free'[a] >= ExistentialDeposit
      /\ SumFunctionOnSet(free', Accounts) = SumFunctionOnSet(free, Accounts) + amount
      /\ SumFunctionOnSet(free', Accounts) <= MaxBalance
  <2>1. PICK f : f = free
    OBVIOUS
  <2>2. PICK g : g = free'
    OBVIOUS
  <2>3. /\ f \in [Accounts -> Nat] /\ g = [f EXCEPT ![who] = @ + amount]
        /\ \A a \in Accounts : f[a] = 0 \/ f[a] >= ExistentialDeposit
        /\ deposit_exact(f, who, amount)
    BY <1>1, <1>2, <2>1, <2>2
  <2>4. Deposited(g, f, amount)
    BY <2>3, DepositKeeps DEF NoDust
  <2> QED BY <2>1, <2>2, <2>4 DEF Deposited, NoDust
<1>4. FaucetIssued \in Nat /\ FaucetIssued' \in Balance /\ MaxBalance \in Nat
  BY <1>2, EmissionAssumption DEF LedgerInductive, Balance
<1>5. /\ OldBooks' = [issued |-> SubnetIssued, scheduled |-> ScheduledIssued, free |-> free']
      /\ OldBooks'.issued = SubnetIssued /\ OldBooks'.scheduled = ScheduledIssued
      /\ OldBooks'.free = free'
  BY <1>2 DEF OldBooks
<1>6. OldBooks' \in AllBooks
  BY <1>1, <1>3, <1>5 DEF AllBooks
<1>7. Explained(OldBooks', FaucetIssued')
  <2>1. PICK g \in Int : g = GenesisFree * Cardinality(Users)
    BY BooksFinite, FS_CardinalityType, EmissionAssumption
  <2>2. SumFunctionOnSet(free', Accounts) = g + ScheduledIssued + FaucetIssued'
    BY <1>1, <1>2, <1>3, <1>4, <2>1
  <2> QED BY <1>1, <1>3, <1>5, <2>1, <2>2 DEF Explained
<1>8. ClockInductive'
  BY <1>2 DEF LedgerInductive, ClockInductive
<1> QED BY <1>2, <1>4, <1>6, <1>7, <1>8 DEF LedgerInductive, faucetVars, Balance

\* At genesis the users' balances are all there is.
LEMMA GenesisExplained ==
  ASSUME Init
  PROVE  OldBooks \in AllBooks /\ Explained(OldBooks, 0)
<1>1. /\ SubnetIssued = [s \in Subnets |-> 0] /\ ScheduledIssued = 0
      /\ free = [a \in Accounts |-> IF a \in Users THEN GenesisFree ELSE 0]
  BY DEF Init, EmissionInit
<1>2. GenesisFree \in Nat /\ (GenesisFree = 0 \/ GenesisFree >= ExistentialDeposit)
  BY EmissionAssumption
<1>3. OldBooks \in AllBooks
  BY <1>1, <1>2 DEF OldBooks, AllBooks
<1>4. SumFunctionOnSet(SubnetIssued, Subnets) = 0
  <2>1. PICK f : f = SubnetIssued
    OBVIOUS
  <2>2. \A s \in Subnets : f[s] = 0
    BY <1>1, <2>1
  <2>3. SumFunctionOnSet(f, Subnets) = 0 * Cardinality(Subnets)
    BY <2>2, BooksFinite, SumConstant
  <2>4. Cardinality(Subnets) \in Nat
    BY BooksFinite, FS_CardinalityType
  <2> QED BY <2>1, <2>3, <2>4
<1>5. SumFunctionOnSet(free, Accounts) = GenesisFree * Cardinality(Users)
  <2>1. PICK f : f = free
    OBVIOUS
  <2>2. /\ \A a \in Accounts : f[a] \in Int
        /\ \A a \in Accounts \ Users : f[a] = 0
        /\ \A a \in Users : f[a] = GenesisFree
        /\ Users \in SUBSET Accounts
    BY <1>1, <1>2, <2>1 DEF Accounts
  <2>3. SumFunctionOnSet(f, Accounts) = SumFunctionOnSet(f, Users)
    BY <2>2, BooksFinite, SumSupport
  <2>4. SumFunctionOnSet(f, Users) = GenesisFree * Cardinality(Users)
    BY <1>2, <2>2, BooksFinite, SumConstant
  <2> QED BY <2>1, <2>3, <2>4
<1>6. \A a \in Accounts : free[a] = 0 \/ free[a] >= ExistentialDeposit
  BY <1>1, <1>2
<1>7. PICK g \in Nat : g = GenesisFree * Cardinality(Users)
  BY <1>2, BooksFinite, FS_CardinalityType
<1>8. g <= MaxBalance /\ g = g + ScheduledIssued + 0
  BY <1>1, <1>7, EmissionAssumption
<1>9. Explained(OldBooks, 0)
  BY <1>1, <1>4, <1>5, <1>6, <1>7, <1>8, BooksParts
<1> QED BY <1>3, <1>9

LEMMA LedgerStep ==
  ASSUME LedgerInductive, [Next]_vars
  PROVE  LedgerInductive'
<1>1. /\ State \in FaucetStates /\ Authority \in Users \cup {None} /\ faucetVersion \in {0, 1}
      /\ StartAt \in Nat \cup {None} /\ now \in Nat /\ ScheduledIssued \in Nat /\ emissionVersion \in {1, 2}
  BY BooksParts, EmissionAssumption DEF LedgerInductive, ClockInductive
<1>2. OldAnnual \in Nat \ {0} /\ NewAnnual \in Nat \ {0} /\ AnnualEmission \in Nat
  BY EmissionAssumption DEF AnnualEmission
<1>3. ASSUME NEW t \in 0..MaxTime, Block(t) PROVE LedgerInductive'
  <2>1. /\ SetTime(t) /\ accrue(StartAt, AnnualEmission)
        /\ credit' = credit + AnnualEmission * Passed(t) /\ covered' = credit
        /\ UNCHANGED <<Enabled, FaucetBudget, FaucetIssued>> /\ emissionVersion' \in {1, 2}
        /\ State' \in FaucetStates /\ Authority' \in Users \cup {None} /\ faucetVersion' \in {0, 1}
    BY <1>1, <1>3 DEF Block, on_initialize, faucetVars
  <2> QED BY <1>1, <1>2, <2>1, BlockKeeps
<1>4. ASSUME NEW t \in 0..MaxTime, UpgradeBlock(t) PROVE LedgerInductive'
  <2>1. PICK start : start = IF emissionVersion < 2 THEN rebased_start(NewAnnual) ELSE StartAt
    OBVIOUS
  <2>2. start \in Nat \cup {None}
    BY <1>1, <1>2, <2>1, RebasedType
  <2>3. /\ SetTime(t) /\ accrue(start, NewAnnual)
        /\ credit' = credit + NewAnnual * Passed(t) /\ covered' = credit
        /\ UNCHANGED <<Enabled, FaucetBudget, FaucetIssued>> /\ emissionVersion' \in {1, 2}
    BY <1>4, <2>1 DEF UpgradeBlock, on_runtime_upgrade
  <2>4. State' \in FaucetStates /\ Authority' \in Users \cup {None} /\ faucetVersion' \in {0, 1}
    BY <1>1, <1>4 DEF UpgradeBlock, UpgradeFaucet, LegacyState, FaucetStates
  <2> QED BY <1>2, <2>2, <2>3, <2>4, BlockKeeps
<1>5. ASSUME NEW who \in Accounts, NEW requested \in Amounts, Reward(who, requested) PROVE LedgerInductive'
  <2>1. PICK amount : amount = IF requested < Available(RewardSubnet) THEN requested ELSE Available(RewardSubnet)
    OBVIOUS
  <2>2. amount \in Nat /\ pot(RewardSubnet) \in Accounts
    <3>1. RewardSubnet \in Subnets /\ ExistentialDeposit \in Nat /\ requested \in Nat
      BY EmissionAssumption
    <3>2. pot(RewardSubnet) \in Accounts
      BY <3>1, BooksFinite
    <3>3. free[pot(RewardSubnet)] \in Nat
      BY <3>2, BooksParts DEF LedgerInductive
    <3>4. Available(RewardSubnet) \in Nat
      BY <3>1, <3>3 DEF Available
    <3> QED BY <2>1, <3>1, <3>2, <3>4
  <2>3. /\ pot(RewardSubnet) # who /\ CanTransfer(pot(RewardSubnet), who, amount)
        /\ Move(pot(RewardSubnet), who, amount) /\ UNCHANGED faucetVars
        /\ UNCHANGED <<now, Enabled, schedule, FaucetBudget, FaucetIssued, emissionVersion, credit, covered>>
    BY <1>5, <2>1 DEF Reward, pay
  <2>4. PICK from : from = pot(RewardSubnet)
    OBVIOUS
  <2>5. /\ from \in Accounts /\ from # who /\ CanTransfer(from, who, amount) /\ Move(from, who, amount)
    BY <2>2, <2>3, <2>4
  <2> QED BY <2>2, <2>3, <2>5, MoveKeeps
<1>6. ASSUME NEW from \in Users, NEW to \in Accounts, NEW amount \in Amounts, Send(from, to, amount)
      PROVE  LedgerInductive'
  <2>1. from \in Accounts /\ amount \in Nat
    BY EmissionAssumption DEF Accounts
  <2>2. /\ from # to /\ CanTransfer(from, to, amount) /\ Move(from, to, amount) /\ UNCHANGED faucetVars
        /\ UNCHANGED <<now, Enabled, schedule, FaucetBudget, FaucetIssued, emissionVersion, credit, covered>>
    BY <1>6 DEF Send, Transfer
  <2> QED BY <2>1, <2>2, MoveKeeps
<1>7. ASSUME NEW origin, NEW who \in Accounts, NEW amount \in Amounts, MintFaucet(origin, who, amount)
      PROVE  LedgerInductive'
  <2>1. amount \in Nat
    BY EmissionAssumption
  <2> QED BY <1>7, <2>1, MintKeeps DEF MintFaucet
<1>8. CASE UNCHANGED emissionVars /\ State' \in FaucetStates /\ Authority' \in Users \cup {None}
           /\ faucetVersion' \in {0, 1}
  <2>1. OldBooks' = OldBooks /\ FaucetIssued' = FaucetIssued /\ FaucetBudget' = FaucetBudget
    BY <1>8 DEF emissionVars, schedule, OldBooks
  <2>2. ClockInductive'
    BY <1>8 DEF emissionVars, schedule, LedgerInductive, ClockInductive
  <2> QED BY <1>8, <2>1, <2>2 DEF LedgerInductive, Balance
<1>9. ASSUME NEW authority \in Users \cup {None}, set_authority(authority) PROVE LedgerInductive'
  BY <1>1, <1>8, <1>9 DEF set_authority
<1>10. ASSUME NEW origin, disable(origin) PROVE LedgerInductive'
  BY <1>1, <1>8, <1>10 DEF disable, FaucetStates
<1>11. CASE UNCHANGED vars
  BY <1>1, <1>8, <1>11 DEF vars, faucetVars
<1> QED BY <1>3, <1>4, <1>5, <1>6, <1>7, <1>9, <1>10, <1>11 DEF Next

LEMMA LedgerStays == Spec => []LedgerInductive
<1>1. Init => LedgerInductive
  <2> SUFFICES ASSUME Init PROVE LedgerInductive
    OBVIOUS
  <2>1. FaucetBudget \in Balance /\ FaucetIssued \in Balance /\ FaucetIssued = 0
    BY EmissionAssumption DEF Init, EmissionInit, Balance
  <2>2. State \in FaucetStates /\ Authority \in Users \cup {None} /\ faucetVersion \in {0, 1}
    BY DEF Init, FaucetInit, FaucetStates
  <2>3. ClockInductive
    BY EmissionAssumption DEF Init, EmissionInit, ClockInductive
  <2> QED BY <2>1, <2>2, <2>3, GenesisExplained DEF LedgerInductive
<1>2. LedgerInductive /\ [Next]_vars => LedgerInductive'
  BY LedgerStep
<1> QED BY <1>1, <1>2, PTL DEF Spec

(***************************************************************************)
(* LedgerSound: for any routes, shares, accounts and amounts, through      *)
(* accruals that fund only some subnets, rewards, transfers, mints and     *)
(* upgrades, every unit in circulation comes from genesis, the schedule or *)
(* the faucet, the schedule's total is that of its subnets, no balance     *)
(* overflows and no account is left with dust.                             *)
(***************************************************************************)
THEOREM LedgerCorrect == Spec => []LedgerSound
<1>1. LedgerInductive => LedgerSound
  <2> SUFFICES ASSUME LedgerInductive PROVE LedgerSound
    OBVIOUS
  <2>1. /\ free \in [Accounts -> Nat] /\ SubnetIssued \in [Subnets -> Nat] /\ ScheduledIssued \in Nat
        /\ \A a \in Accounts : free[a] = 0 \/ free[a] >= ExistentialDeposit
        /\ ScheduledIssued = SumFunctionOnSet(SubnetIssued, Subnets)
        /\ SumFunctionOnSet(free, Accounts) = GenesisFree * Cardinality(Users) + ScheduledIssued + FaucetIssued
        /\ SumFunctionOnSet(free, Accounts) <= MaxBalance
    BY BooksParts DEF LedgerInductive
  <2>2. MaxBalance \in Nat /\ ExistentialDeposit \in Nat /\ FaucetIssued \in Nat
    BY EmissionAssumption DEF LedgerInductive, Balance
  <2>3. PICK total \in Nat : total = SumFunctionOnSet(free, Accounts)
    BY <2>1, BooksFinite, SumNat
  <2>4. \A a \in Accounts : free[a] <= total
    BY <2>1, <2>3, BooksFinite, SumMember
  <2>5. free \in [Accounts -> {0} \cup ExistentialDeposit..MaxBalance]
    BY <2>1, <2>2, <2>3, <2>4
  <2>6. PICK g \in Nat : g = GenesisFree * Cardinality(Users)
    BY BooksFinite, FS_CardinalityType, EmissionAssumption
  <2>7. ScheduledIssued \in Balance
    BY <2>1, <2>2, <2>3, <2>6 DEF Balance
  <2>8. \A s \in Subnets : SubnetIssued[s] <= ScheduledIssued
    BY <2>1, BooksFinite, SumMember
  <2>9. SubnetIssued \in [Subnets -> Balance]
    BY <2>1, <2>2, <2>7, <2>8 DEF Balance
  <2>10. TypeOK
    BY <2>5, <2>7, <2>9 DEF TypeOK, LedgerInductive, ClockInductive
  <2>11. DOMAIN free = Accounts /\ DOMAIN SubnetIssued = Subnets
    BY <2>1
  <2>12. IssuanceAccounted
    BY <2>1, <2>11 DEF IssuanceAccounted, TotalIssuance, SumFunction
  <2> QED BY <2>10, <2>12 DEF LedgerSound
<1> QED BY <1>1, LedgerStays, PTL

-----------------------------------------------------------------------------
(* The schedule: no subnet is ahead of the rates that were in force. *)

\* The share of a route's subnet is that of the route, since no subnet has two.
LEMMA ShareIs ==
  ASSUME NEW i \in DOMAIN Routes
  PROVE  Share(Routes[i][1]) = Routes[i][2] /\ Routes[i][1] \in Subnets /\ Routes[i][2] \in Nat
<1>1. Routes[i] \in Subnets \X Nat
  BY EmissionAssumption
<1>2. \A j \in DOMAIN Routes : Routes[j][1] = Routes[i][1] => j = i
  BY EmissionAssumption DEF valid_routes
<1>3. (CHOOSE j \in DOMAIN Routes : Routes[j][1] = Routes[i][1]) = i
  BY <1>2
<1> QED BY <1>1, <1>3 DEF Share

LEMMA ShareNat ==
  ASSUME NEW s \in Subnets
  PROVE  Share(s) \in Nat /\ \E i \in DOMAIN Routes : s = Routes[i][1]
  BY ShareIs DEF Subnets

\* The shares add up to the whole: valid_routes, by subnet instead of by route.
LEMMA SharesAddUp ==
  SumFunctionOnSet([s \in Subnets |-> Share(s)], Subnets) = One
<1>1. PICK D : D = DOMAIN Routes
  OBVIOUS
<1>2. IsFiniteSet(D)
  BY <1>1, LastIndex
<1>3. PICK own : own = [i \in D |-> Routes[i][1]]
  OBVIOUS
<1>4. PICK amt : amt = [i \in D |-> Routes[i][2]]
  OBVIOUS
<1>5. PICK got : got = [s \in Subnets |-> Share(s)]
  OBVIOUS
<1>6. PICK part : part = [s \in Subnets |-> [i \in D |-> IF own[i] = s THEN amt[i] ELSE 0]]
  OBVIOUS
<1>7. \A i \in D : own[i] \in Subnets /\ amt[i] \in Nat /\ got[own[i]] = amt[i]
  BY <1>1, <1>3, <1>4, <1>5, ShareIs
<1>8. \A s \in Subnets : \A i \in D : part[s][i] = IF own[i] = s THEN amt[i] ELSE 0
  BY <1>6
<1>9. \A i, j \in D : own[i] = own[j] => i = j
  BY <1>1, <1>3, EmissionAssumption DEF valid_routes
<1>10. ASSUME NEW s \in Subnets PROVE got[s] = SumFunctionOnSet(part[s], D)
  <2>1. PICK i \in D : s = own[i]
    BY <1>1, <1>3, ShareNat
  <2>2. PICK f : f = part[s]
    OBVIOUS
  <2>3. f[i] = amt[i] /\ amt[i] \in Nat /\ \A j \in D \ {i} : f[j] = 0
    BY <1>7, <1>8, <1>9, <2>1, <2>2
  <2>4. \A j \in D : f[j] \in Int
    BY <2>3
  <2>5. SumFunctionOnSet(f, D) = SumFunctionOnSet(f, {i})
    <3>1. {i} \in SUBSET D
      OBVIOUS
    <3> QED BY <1>2, <2>3, <2>4, <3>1, SumSupport
  <2>6. SumFunctionOnSet(f, {i}) = f[i] * Cardinality({i})
    <3>1. IsFiniteSet({i})
      BY FS_Singleton
    <3>2. f[i] \in Int /\ \A y \in {i} : f[y] = f[i]
      BY <2>3
    <3> QED BY <3>1, <3>2, SumConstant
  <2>7. SumFunctionOnSet(f, {i}) = f[i]
    <3>1. Cardinality({i}) = 1
      BY FS_Singleton
    <3> QED BY <2>3, <2>6, <3>1
  <2>8. got[s] = amt[i]
    BY <1>7, <2>1
  <2> QED BY <2>2, <2>3, <2>5, <2>7, <2>8
<1>11. SumFunctionOnSet(got, Subnets) = SumFunctionOnSet(amt, D)
  <2>1. IsFiniteSet(Subnets)
    BY BooksFinite
  <2>2. \A i \in D : own[i] \in Subnets
    BY <1>7
  <2>3. \A i \in D : amt[i] \in Int
    BY <1>7
  <2> QED BY <1>2, <1>8, <1>10, <2>1, <2>2, <2>3, SumByOwner
<1>12. SumFunctionOnSet(amt, D) = One
  <2>1. DOMAIN amt = D
    BY <1>4
  <2> QED BY <1>1, <1>4, <2>1, EmissionAssumption DEF valid_routes, SumFunction
<1> QED BY <1>5, <1>11, <1>12

\* What the loop may have issued to a subnet: what it had, or its share of the total.
Targeted(b, total) ==
  \A s \in Subnets : b.issued[s] = SubnetIssued[s] \/ b.issued[s] * One <= Share(s) * total

LEMMA FundTargets ==
  ASSUME NEW b \in AllBooks, NEW total \in Nat, Targeted(b, total), NEW i \in DOMAIN Routes,
         fund_subnet(b, Routes[i], total) \in AllBooks
  PROVE  Targeted(fund_subnet(b, Routes[i], total), total)
<1>1. PICK s : s = Routes[i][1]
  OBVIOUS
<1>2. PICK target : target = mul_floor(Routes[i][2], total)
  OBVIOUS
<1>3. PICK amount : amount = target - b.issued[s]
  OBVIOUS
<1>4. s \in Subnets /\ Share(s) = Routes[i][2] /\ Share(s) \in Nat
  BY <1>1, ShareIs
<1>5. target \in Nat /\ target * One <= Share(s) * total
  <2>1. PICK m : m = Share(s) * total
    OBVIOUS
  <2>2. m \in Nat /\ One \in Nat /\ One > 0
    BY <1>4, <2>1, EmissionAssumption
  <2>3. target = m \div One
    BY <1>2, <1>4, <2>1 DEF mul_floor
  <2>4. target \in Nat /\ target * One <= m
    BY <2>2, <2>3
  <2> QED BY <2>1, <2>4
<1>6. b.issued \in [Subnets -> Nat]
  BY DEF AllBooks
<1>7. CASE ~(amount > 0 /\ deposit_exact(b.free, pot(s), amount))
  BY <1>1, <1>2, <1>3, <1>7 DEF fund_subnet
<1>8. CASE amount > 0 /\ deposit_exact(b.free, pot(s), amount)
  <2>1. PICK c : c = fund_subnet(b, Routes[i], total)
    OBVIOUS
  <2>2. c.issued = [b.issued EXCEPT ![s] = @ + amount]
    BY <1>1, <1>2, <1>3, <1>8, <2>1 DEF fund_subnet
  <2>3. c.issued[s] = target /\ \A x \in Subnets \ {s} : c.issued[x] = b.issued[x]
    <3>1. b.issued[s] \in Nat
      BY <1>4, <1>6
    <3> QED BY <1>3, <1>4, <1>5, <1>6, <2>2, <3>1
  <2>4. Targeted(c, total)
    BY <1>5, <2>3 DEF Targeted
  <2> QED BY <2>1, <2>4
<1> QED BY <1>7, <1>8

LEMMA LoopTargets ==
  ASSUME OldBooks \in AllBooks, NEW minted \in Nat, Explained(OldBooks, minted), NEW total \in Nat
  PROVE  Targeted(fund_subnets(total), total)
<1> DEFINE B == {b \in AllBooks : Explained(b, minted) /\ Targeted(b, total)}
<1>1. OldBooks \in B
  <2>1. OldBooks.issued = SubnetIssued
    BY DEF OldBooks
  <2> QED BY <2>1 DEF Targeted
<1>2. \A b \in B : \A i \in DOMAIN Routes : fund_subnet(b, Routes[i], total) \in B
  BY FundKeeps, FundTargets
<1>3. fund_subnets(total) \in B
  <2> HIDE DEF B
  <2> QED BY <1>1, <1>2, LoopKeeps
<1> QED BY <1>3

\* Products keep order.
LEMMA Scaled ==
  ASSUME NEW a \in Nat, NEW b \in Nat, NEW c \in Nat, b <= c
  PROVE  a * b <= a * c /\ a * b \in Nat /\ a * c \in Nat
<1>1. PICK d \in Nat : c = b + d
  <2>1. c - b \in Nat /\ c = b + (c - b)
    OBVIOUS
  <2> QED BY <2>1
<1>2. a * c = a * b + a * d
  BY <1>1
<1>3. a * b \in Nat /\ a * d \in Nat
  BY <1>1
<1>4. PICK x \in Nat : x = a * b
  BY <1>3
<1>5. PICK y \in Nat : y = a * d
  BY <1>3
<1>6. a * c = x + y
  BY <1>2, <1>4, <1>5
<1> QED BY <1>4, <1>5, <1>6

\* While a schedule runs, the history of its rates has credited every second since the
\* anchor: this is what an accrual pays for.
PaceInductive ==
  /\ NeverAheadOfSchedule
  /\ Enabled /\ StartAt # None => AnnualEmission * Since(StartAt, now) <= credit

\* A common factor cancels.
LEMMA Cancel ==
  ASSUME NEW a \in Nat \ {0}, NEW b \in Nat, NEW c \in Nat, a * b <= a * c
  PROVE  b <= c
<1> SUFFICES ASSUME ~(b <= c) PROVE FALSE
  OBVIOUS
<1>1. c + 1 <= b /\ c + 1 \in Nat
  OBVIOUS
<1>2. a * (c + 1) <= a * b
  BY <1>1, Scaled
<1>3. a * (c + 1) = a * c + a
  OBVIOUS
<1>4. a * b \in Nat /\ a * c \in Nat
  OBVIOUS
<1>5. PICK x \in Nat : x = a * b
  BY <1>4
<1>6. PICK y \in Nat : y = a * c
  BY <1>4
<1> QED BY <1>2, <1>3, <1>5, <1>6

\* Subnets that each received at most their share received at most the whole.
LEMMA SharesWithin ==
  ASSUME NEW f \in [Subnets -> Nat], NEW c \in Nat,
         \A s \in Subnets : f[s] * One * Year <= Share(s) * c
  PROVE  SumFunctionOnSet(f, Subnets) \in Nat /\ SumFunctionOnSet(f, Subnets) * Year <= c
<1>1. One \in Nat \ {0} /\ Year \in Nat /\ IsFiniteSet(Subnets)
  BY EmissionAssumption, BooksFinite
<1>2. PICK k \in Nat : k = One * Year
  BY <1>1
<1>3. PICK shares : shares = [s \in Subnets |-> Share(s)]
  OBVIOUS
<1>4. PICK due : due = [s \in Subnets |-> c * shares[s]]
  OBVIOUS
<1>5. PICK paid : paid = [s \in Subnets |-> k * f[s]]
  OBVIOUS
<1>6. \A s \in Subnets : /\ f[s] \in Nat /\ shares[s] = Share(s) /\ shares[s] \in Nat
                         /\ paid[s] = k * f[s] /\ due[s] = c * shares[s]
  BY <1>3, <1>4, <1>5, ShareNat
<1>7. ASSUME NEW s \in Subnets PROVE paid[s] \in Int /\ due[s] \in Int /\ paid[s] <= due[s]
  <2>1. PICK x \in Nat : x = f[s]
    BY <1>6
  <2>2. PICK y \in Nat : y = shares[s]
    BY <1>6
  <2>3. x * One * Year <= y * c
    BY <1>6, <2>1, <2>2
  <2>4. x * One * Year = k * x /\ y * c = c * y
    <3>1. (x * One) * Year = (One * Year) * x
      BY <1>1
    <3> QED BY <1>2, <3>1
  <2>5. k * x \in Int /\ c * y \in Int
    OBVIOUS
  <2> QED BY <1>6, <2>1, <2>2, <2>3, <2>4, <2>5
<1>8. SumFunctionOnSet(paid, Subnets) <= SumFunctionOnSet(due, Subnets)
  BY <1>1, <1>7, SumMonotone
<1>9. SumFunctionOnSet(paid, Subnets) = k * SumFunctionOnSet(f, Subnets)
  BY <1>1, <1>6, SumScale
<1>10. SumFunctionOnSet(due, Subnets) = c * SumFunctionOnSet(shares, Subnets)
  BY <1>1, <1>6, SumScale
<1>11. PICK total \in Nat : total = SumFunctionOnSet(f, Subnets)
  BY <1>1, <1>6, SumNat
<1>12. k * total <= c * One
  BY <1>3, <1>8, <1>9, <1>10, <1>11, SharesAddUp
<1>13. k * total = One * (total * Year) /\ c * One = One * c /\ total * Year \in Nat
  <2>1. (One * Year) * total = One * (total * Year)
    BY <1>1
  <2> QED BY <1>1, <1>2, <2>1
<1>14. total * Year <= c
  BY <1>1, <1>12, <1>13, Cancel
<1> QED BY <1>11, <1>14

\* All subnets together: the schedule is not ahead either.
LEMMA TotalNotAhead ==
  ASSUME LedgerInductive, NeverAheadOfSchedule
  PROVE  ScheduledIssued * Year <= covered /\ ScheduledIssued \in Nat /\ covered \in Nat
<1>1. /\ SubnetIssued \in [Subnets -> Nat] /\ ScheduledIssued \in Nat /\ covered \in Nat
      /\ ScheduledIssued = SumFunctionOnSet(SubnetIssued, Subnets)
  BY BooksParts DEF LedgerInductive, ClockInductive
<1>2. PICK f : f = SubnetIssued
  OBVIOUS
<1>3. PICK c \in Nat : c = covered
  BY <1>1
<1>4. f \in [Subnets -> Nat] /\ \A s \in Subnets : f[s] * One * Year <= Share(s) * c
  BY <1>1, <1>2, <1>3 DEF NeverAheadOfSchedule
<1>5. SumFunctionOnSet(f, Subnets) * Year <= c
  BY <1>4, SharesWithin
<1> QED BY <1>1, <1>2, <1>3, <1>5

\* A block whose anchor is credited: its accrual issues no more than was credited.
LEMMA BlockPaced ==
  ASSUME LedgerInductive, NeverAheadOfSchedule, NEW t \in 0..MaxTime, SetTime(t),
         NEW start \in Nat \cup {None}, NEW annual \in Nat, accrue(start, annual),
         Enabled /\ start # None => annual * Since(start, now) <= credit,
         credit' = credit + annual * Passed(t), covered' = credit, UNCHANGED Enabled
  PROVE  /\ NeverAheadOfSchedule'
         /\ Enabled' /\ StartAt' # None => annual * Since(StartAt', now') <= credit'
<1>1. /\ now \in Nat /\ t \in Nat /\ Enabled \in BOOLEAN /\ FaucetIssued \in Nat
      /\ credit \in Nat /\ covered \in Nat /\ covered <= credit
      /\ SubnetIssued \in [Subnets -> Nat] /\ OldBooks \in AllBooks /\ Explained(OldBooks, FaucetIssued)
  BY EmissionAssumption, BooksParts DEF LedgerInductive, ClockInductive, Balance
<1>2. Accrued(start, annual)
  BY <1>1, AccrueIs
<1>3. StartAt' \in Nat \cup {None}
  BY <1>1, <1>2, AccrueKeeps
<1>4. One \in Nat /\ Year \in Nat
  BY EmissionAssumption
<1>5. ASSUME NEW s \in Subnets PROVE SubnetIssued'[s] * One * Year <= Share(s) * covered'
  <2>0. Share(s) \in Nat
    BY ShareNat
  <2>1. Share(s) * covered <= Share(s) * credit
    BY <1>1, <2>0, Scaled
  <2>2. SubnetIssued[s] * One * Year <= Share(s) * credit
    <3>1. SubnetIssued[s] * One * Year <= Share(s) * covered
      BY DEF NeverAheadOfSchedule
    <3>2. SubnetIssued[s] * One * Year \in Int /\ Share(s) * covered \in Int /\ Share(s) * credit \in Int
      <4>1. SubnetIssued[s] \in Nat
        BY <1>1
      <4>2. PICK x \in Nat : x = SubnetIssued[s] * One
        BY <1>4, <4>1
      <4>3. x * Year \in Int
        BY <1>4
      <4> QED BY <1>1, <2>0, <4>2, <4>3
    <3>3. PICK a \in Int : a = SubnetIssued[s] * One * Year
      BY <3>2
    <3>4. PICK b \in Int : b = Share(s) * covered
      BY <3>2
    <3>5. PICK d \in Int : d = Share(s) * credit
      BY <3>2
    <3>6. a <= b /\ b <= d
      BY <2>1, <3>1, <3>3, <3>4, <3>5
    <3> QED BY <3>3, <3>5, <3>6
  <2>3. CASE SubnetIssued'[s] = SubnetIssued[s]
    BY <2>2, <2>3
  <2>4. CASE SubnetIssued'[s] # SubnetIssued[s]
    <3>1. OldBooks' # OldBooks
      <4>1. OldBooks'.issued = SubnetIssued' /\ OldBooks.issued = SubnetIssued
        BY DEF OldBooks
      <4> QED BY <2>4, <4>1
    <3>2. PICK elapsed : /\ start # None /\ Enabled /\ elapsed = Since(start, now)
                         /\ entitlement(elapsed, annual) # None
                         /\ SubnetIssued' = fund_subnets(entitlement(elapsed, annual)).issued
      BY <1>2, <3>1 DEF Accrued, Since
    <3>3. elapsed \in Nat
      BY <1>1, <3>2, SinceGrows
    <3>4. PICK total : total = entitlement(elapsed, annual)
      OBVIOUS
    <3>5. total \in Nat /\ total * Year <= annual * elapsed
      BY <3>2, <3>3, <3>4, EntitlementIs
    <3>6. Targeted(fund_subnets(total), total)
      BY <1>1, <3>5, LoopTargets
    <3>7. SubnetIssued'[s] * One <= Share(s) * total
      BY <2>4, <3>2, <3>4, <3>6 DEF Targeted
    <3>8. PICK x : x = SubnetIssued'[s]
      OBVIOUS
    <3>9. x \in Nat
      <4>1. OldBooks' \in AllBooks
        BY <1>1, <1>2, AccrueKeeps
      <4>2. OldBooks'.issued = SubnetIssued'
        BY DEF OldBooks
      <4>3. SubnetIssued' \in [Subnets -> Nat]
        BY <4>1, <4>2 DEF AllBooks
      <4> QED BY <3>8, <4>3
    <3>10. PICK y \in Nat : y = Share(s)
      BY <2>0
    <3>11. x * One \in Nat /\ y * total \in Nat /\ total * Year \in Nat /\ annual * elapsed \in Nat
      BY <1>4, <3>3, <3>5, <3>9, <3>10
    <3>12. Year * (x * One) <= Year * (y * total)
      BY <1>4, <3>7, <3>8, <3>10, <3>11, Scaled
    <3>13. y * (total * Year) <= y * (annual * elapsed)
      BY <3>5, <3>10, <3>11, Scaled
    <3>14. y * (annual * elapsed) <= y * credit
      BY <1>1, <3>2, <3>10, <3>11, Scaled
    <3>15. Year * (y * total) = y * (total * Year) /\ Year * (x * One) = x * One * Year
      BY <1>4, <3>5, <3>9, <3>10
    <3>16. PICK p \in Nat : p = Year * (x * One)
      BY <1>4, <3>11
    <3>17. PICK q \in Nat : q = y * (total * Year)
      BY <3>10, <3>11
    <3>18. PICK r \in Nat : r = y * (annual * elapsed)
      BY <3>10, <3>11
    <3>19. PICK w \in Nat : w = y * credit
      BY <1>1, <3>10
    <3>20. p <= q /\ q <= r /\ r <= w
      BY <3>12, <3>13, <3>14, <3>15, <3>16, <3>17, <3>18, <3>19
    <3>21. p <= w
      BY <3>16, <3>17, <3>18, <3>19, <3>20
    <3> QED BY <3>8, <3>10, <3>15, <3>16, <3>19, <3>21
  <2> QED BY <2>3, <2>4
<1>6. NeverAheadOfSchedule'
  BY <1>5 DEF NeverAheadOfSchedule
<1>7. ASSUME Enabled, StartAt' # None PROVE annual * Since(StartAt', now') <= credit'
  <2>1. PICK anchor \in Nat : anchor = StartAt'
    BY <1>3, <1>7
  <2>2. PICK late \in Nat : late = Since(anchor, t)
    BY <1>1, <2>1, SinceGrows
  <2>3. PICK early \in Nat : early = Since(anchor, now)
    BY <1>1, <2>1, SinceGrows
  <2>4. PICK p \in Nat : p = Passed(t)
    BY <1>1, <1>3, PassedIs
  <2>5. p = late - early /\ now' = t
    BY <1>1, <1>3, <1>7, <2>1, <2>2, <2>3, <2>4, PassedIs
  <2>6. annual * early <= credit
    <3>1. start = None \/ start = anchor
      BY <1>2, <2>1 DEF Accrued
    <3>2. CASE start = anchor
      BY <1>7, <2>1, <2>3, <3>2, EmissionAssumption
    <3>3. CASE start = None
      <4>1. anchor = now
        BY <1>2, <1>7, <2>1, <3>3 DEF Accrued
      <4>2. early = 0
        BY <1>1, <2>3, <4>1 DEF Since
      <4> QED BY <1>1, <4>2
    <3> QED BY <3>1, <3>2, <3>3
  <2>7. annual * late = annual * early + annual * p
    <3>1. late = early + p
      BY <2>5
    <3> QED BY <3>1
  <2>8. PICK a \in Nat : a = annual * early
    OBVIOUS
  <2>9. PICK b \in Nat : b = annual * p
    OBVIOUS
  <2>10. a + b <= credit + b
    BY <1>1, <2>6, <2>8
  <2> QED BY <2>1, <2>2, <2>4, <2>5, <2>7, <2>8, <2>9, <2>10
<1> QED BY <1>6, <1>7

\* The anchor the upgrade picks is credited: what was issued was paid for, and where
\* nothing was issued the old anchor was credited at the higher rate.
LEMMA RebasePaced ==
  ASSUME LedgerInductive, PaceInductive, NewAnnual <= OldAnnual, emissionVersion = 1,
         NEW start, start = rebased_start(NewAnnual), Enabled, start # None
  PROVE  NewAnnual * Since(start, now) <= credit
<1>1. /\ now \in Nat /\ credit \in Nat /\ StartAt \in Nat \cup {None} /\ Enabled \in BOOLEAN
      /\ covered \in Nat /\ covered <= credit /\ NewAnnual \in Nat /\ OldAnnual \in Nat /\ NewAnnual > 0
  BY EmissionAssumption DEF LedgerInductive, ClockInductive
<1>2. ScheduledIssued \in Nat /\ ScheduledIssued * Year <= covered
  BY TotalNotAhead DEF PaceInductive
<1>3. CASE start = StartAt
  <2>1. PICK since \in Nat : since = Since(start, now)
    BY <1>1, <1>3, SinceGrows
  <2>2. OldAnnual * since <= credit
    BY <1>3, <2>1 DEF PaceInductive, AnnualEmission
  <2>3. since * NewAnnual <= since * OldAnnual
    BY <1>1, <2>1, Scaled
  <2>4. NewAnnual * since = since * NewAnnual /\ OldAnnual * since = since * OldAnnual
    BY <1>1, <2>1
  <2>5. PICK a \in Nat : a = since * NewAnnual
    BY <1>1, <2>1
  <2>6. PICK b \in Nat : b = since * OldAnnual
    BY <1>1, <2>1
  <2>7. a <= b /\ b <= credit
    BY <2>2, <2>3, <2>4, <2>5, <2>6
  <2> QED BY <1>1, <2>1, <2>4, <2>5, <2>7
<1>4. CASE start # StartAt
  <2>1. PICK m : m = ScheduledIssued * Year
    OBVIOUS
  <2>2. m \in Nat
    BY <1>2, <2>1, EmissionAssumption
  <2>3. PICK elapsed : elapsed = m \div NewAnnual
    OBVIOUS
  <2>4. elapsed \in Nat /\ NewAnnual * elapsed <= m
    BY <1>1, <2>2, <2>3
  <2>5. start = IF now > elapsed THEN now - elapsed ELSE 0
    BY <1>4, <2>1, <2>3 DEF rebased_start
  <2>6. start \in Nat
    BY <1>1, <2>4, <2>5
  <2>7. PICK since \in Nat : since = Since(start, now)
    BY <1>1, <2>6, SinceGrows
  <2>8. since <= elapsed
    <3>1. PICK n \in Nat : n = now
      BY <1>1
    <3>2. since = (IF n > start THEN n - start ELSE 0) /\ start = (IF n > elapsed THEN n - elapsed ELSE 0)
      BY <2>5, <2>7, <3>1 DEF Since
    <3>3. CASE n > elapsed
      BY <2>4, <3>2, <3>3
    <3>4. CASE ~(n > elapsed)
      BY <2>4, <3>2, <3>4
    <3> QED BY <3>3, <3>4
  <2>9. NewAnnual * since <= NewAnnual * elapsed
    BY <1>1, <2>4, <2>7, <2>8, Scaled
  <2>10. PICK a \in Nat : a = NewAnnual * since
    BY <1>1, <2>7
  <2>11. PICK b \in Nat : b = NewAnnual * elapsed
    BY <1>1, <2>4
  <2>12. a <= b /\ b <= m /\ m <= covered
    BY <1>2, <2>1, <2>4, <2>9, <2>10, <2>11
  <2>13. a <= credit
    BY <1>1, <2>2, <2>12
  <2> QED BY <2>7, <2>10, <2>13
<1> QED BY <1>3, <1>4

LEMMA PaceStays == ASSUME NewAnnual <= OldAnnual
                   PROVE  Spec => []PaceInductive
<1>1. Init => PaceInductive
  <2> SUFFICES ASSUME Init PROVE PaceInductive
    OBVIOUS
  <2>1. now = 0 /\ credit = 0 /\ covered = 0 /\ \A s \in Subnets : SubnetIssued[s] = 0
    BY DEF Init, EmissionInit
  <2>2. NeverAheadOfSchedule
    <3> SUFFICES ASSUME NEW s \in Subnets PROVE SubnetIssued[s] * One * Year <= Share(s) * covered
      BY DEF NeverAheadOfSchedule
    <3>1. One \in Nat /\ Year \in Nat /\ Share(s) \in Nat
      BY EmissionAssumption, ShareNat
    <3>2. 0 * One * Year = 0 /\ Share(s) * 0 = 0
      BY <3>1
    <3> QED BY <2>1, <3>2
  <2>3. ASSUME StartAt # None PROVE AnnualEmission * Since(StartAt, now) <= credit
    <3>1. StartAt \in Nat /\ AnnualEmission \in Nat
      BY <2>3, EmissionAssumption DEF Init, EmissionInit, AnnualEmission
    <3>2. Since(StartAt, now) = 0
      BY <2>1, <3>1 DEF Since
    <3> QED BY <2>1, <3>1, <3>2
  <2> QED BY <2>2, <2>3 DEF PaceInductive
<1>2. LedgerInductive /\ PaceInductive /\ [Next]_vars => PaceInductive'
  <2> SUFFICES ASSUME LedgerInductive, PaceInductive, [Next]_vars PROVE PaceInductive'
    OBVIOUS
  <2>1. /\ StartAt \in Nat \cup {None} /\ now \in Nat /\ ScheduledIssued \in Nat /\ emissionVersion \in {1, 2}
        /\ NeverAheadOfSchedule /\ NewAnnual \in Nat \ {0} /\ AnnualEmission \in Nat
    BY BooksParts, EmissionAssumption DEF LedgerInductive, ClockInductive, PaceInductive, AnnualEmission
  <2>2. ASSUME NEW t \in 0..MaxTime, Block(t) PROVE PaceInductive'
    <3>1. /\ SetTime(t) /\ accrue(StartAt, AnnualEmission) /\ UNCHANGED Enabled
          /\ credit' = credit + AnnualEmission * Passed(t) /\ covered' = credit
          /\ AnnualEmission' = AnnualEmission
      BY <2>2 DEF Block, on_initialize, AnnualEmission
    <3>2. Enabled /\ StartAt # None => AnnualEmission * Since(StartAt, now) <= credit
      BY DEF PaceInductive
    <3>3. /\ NeverAheadOfSchedule'
          /\ Enabled' /\ StartAt' # None => AnnualEmission * Since(StartAt', now') <= credit'
      BY <2>1, <3>1, <3>2, BlockPaced
    <3>4. Enabled' /\ StartAt' # None => AnnualEmission' * Since(StartAt', now') <= credit'
      BY <3>1, <3>3
    <3> QED BY <3>3, <3>4 DEF PaceInductive
  <2>3. ASSUME NEW t \in 0..MaxTime, UpgradeBlock(t) PROVE PaceInductive'
    <3>1. PICK start : start = IF emissionVersion < 2 THEN rebased_start(NewAnnual) ELSE StartAt
      OBVIOUS
    <3>2. start \in Nat \cup {None}
      BY <2>1, <3>1, RebasedType
    <3>3. /\ SetTime(t) /\ accrue(start, NewAnnual) /\ UNCHANGED Enabled
          /\ credit' = credit + NewAnnual * Passed(t) /\ covered' = credit
          /\ AnnualEmission' = NewAnnual
      BY <2>3, <3>1 DEF UpgradeBlock, on_runtime_upgrade, AnnualEmission
    <3>4. Enabled /\ start # None => NewAnnual * Since(start, now) <= credit
      <4>1. CASE emissionVersion = 1
        BY <3>1, <4>1, RebasePaced
      <4>2. CASE emissionVersion = 2
        BY <3>1, <4>2 DEF PaceInductive, AnnualEmission
      <4> QED BY <2>1, <4>1, <4>2
    <3>5. /\ NeverAheadOfSchedule'
          /\ Enabled' /\ StartAt' # None => NewAnnual * Since(StartAt', now') <= credit'
      BY <2>1, <3>2, <3>3, <3>4, BlockPaced
    <3>6. Enabled' /\ StartAt' # None => AnnualEmission' * Since(StartAt', now') <= credit'
      BY <3>3, <3>5
    <3> QED BY <3>5, <3>6 DEF PaceInductive
  <2>4. CASE UNCHANGED <<now, Enabled, StartAt, SubnetIssued, emissionVersion, credit, covered>>
    BY <2>4 DEF PaceInductive, NeverAheadOfSchedule, AnnualEmission
  <2>5. ASSUME NEW who, NEW requested, Reward(who, requested) PROVE PaceInductive'
    BY <2>4, <2>5 DEF Reward, pay, schedule
  <2>6. ASSUME NEW from, NEW to, NEW amount, Send(from, to, amount) PROVE PaceInductive'
    BY <2>4, <2>6 DEF Send, Transfer, schedule
  <2>7. ASSUME NEW origin, NEW who, NEW amount, MintFaucet(origin, who, amount) PROVE PaceInductive'
    BY <2>4, <2>7 DEF MintFaucet, mint_faucet, schedule
  <2>8. ASSUME NEW authority, set_authority(authority) PROVE PaceInductive'
    BY <2>4, <2>8 DEF set_authority, emissionVars, schedule
  <2>9. ASSUME NEW origin, disable(origin) PROVE PaceInductive'
    BY <2>4, <2>9 DEF disable, emissionVars, schedule
  <2>10. CASE UNCHANGED vars
    BY <2>4, <2>10 DEF vars, emissionVars, schedule
  <2> QED BY <2>2, <2>3, <2>5, <2>6, <2>7, <2>8, <2>9, <2>10 DEF Next
<1> QED BY <1>1, <1>2, LedgerStays, PTL DEF Spec

(***************************************************************************)
(* NeverAheadOfSchedule, half of IssuanceTracksSchedule: whatever the gaps *)
(* between blocks, the deposits that failed and were retried, and the      *)
(* second at which the upgrade rebases the anchor, no subnet is ever       *)
(* issued more than its share of the rates that were in force.  The rate   *)
(* must not rise at the upgrade ("the annual rate drops from 40M to 30M",  *)
(* on_runtime_upgrade): a schedule that has issued nothing yet keeps its   *)
(* anchor, and a higher rate would then apply to seconds already past.     *)
(***************************************************************************)
THEOREM NeverAhead == ASSUME NewAnnual <= OldAnnual
                      PROVE  Spec => []NeverAheadOfSchedule
<1>1. Spec => []PaceInductive
  BY PaceStays
<1>2. PaceInductive => NeverAheadOfSchedule
  BY DEF PaceInductive
<1> QED BY <1>1, <1>2, PTL

-----------------------------------------------------------------------------
(* The schedule: no subnet is left behind. *)

\* Subnets that each fell short of their share by a pot's opening and the roundings
\* fell short together by no more than one opening each.
LEMMA SharesShort ==
  ASSUME NEW f \in [Subnets -> Nat], NEW c \in Nat,
         \A s \in Subnets : Share(s) * c <= f[s] * One * Year
                              + (Share(s) * (Year - 1) + One * Year * ExistentialDeposit - Year)
  PROVE  c <= SumFunctionOnSet(f, Subnets) * Year + (Year - 1)
                + Year * ExistentialDeposit * Cardinality(Subnets)
<1>1. /\ One \in Nat \ {0} /\ Year \in Nat \ {0} /\ ExistentialDeposit \in Nat
      /\ IsFiniteSet(Subnets) /\ Cardinality(Subnets) \in Nat
  BY EmissionAssumption, BooksFinite, FS_CardinalityType
<1>2. PICK k \in Nat : k = One * Year
  BY <1>1
<1>3. PICK opening \in Nat : opening = k * ExistentialDeposit
  BY <1>1, <1>2
<1>4. PICK y1 \in Nat : y1 = Year - 1
  BY <1>1
<1>5. PICK shares : shares = [s \in Subnets |-> Share(s)]
  OBVIOUS
<1>6. PICK due : due = [s \in Subnets |-> c * shares[s]]
  OBVIOUS
<1>7. PICK paid : paid = [s \in Subnets |-> k * f[s]]
  OBVIOUS
<1>8. PICK round : round = [s \in Subnets |-> y1 * shares[s]]
  OBVIOUS
<1>9. PICK open : open = [s \in Subnets |-> opening]
  OBVIOUS
<1>10. PICK part : part = [s \in Subnets |-> paid[s] + round[s]]
  OBVIOUS
<1>11. PICK got : got = [s \in Subnets |-> part[s] + open[s]]
  OBVIOUS
<1>12. ASSUME NEW s \in Subnets
       PROVE  /\ f[s] \in Int /\ shares[s] = Share(s) /\ shares[s] \in Int
              /\ paid[s] = k * f[s] /\ due[s] = c * shares[s] /\ round[s] = y1 * shares[s] /\ open[s] = opening
              /\ part[s] = paid[s] + round[s] /\ got[s] = part[s] + open[s]
              /\ due[s] \in Int /\ paid[s] \in Int /\ round[s] \in Int /\ open[s] \in Int
              /\ part[s] \in Int /\ got[s] \in Int
              /\ due[s] <= got[s]
  <2>1. /\ f[s] \in Nat /\ shares[s] = Share(s) /\ shares[s] \in Nat
        /\ paid[s] = k * f[s] /\ due[s] = c * shares[s] /\ round[s] = y1 * shares[s] /\ open[s] = opening
        /\ part[s] = paid[s] + round[s] /\ got[s] = part[s] + open[s]
    BY <1>5, <1>6, <1>7, <1>8, <1>9, <1>10, <1>11, ShareNat
  <2>2. PICK x \in Nat : x = f[s]
    BY <2>1
  <2>3. PICK y \in Nat : y = shares[s]
    BY <2>1
  <2>4. y * c <= x * One * Year + (y * y1 + k * ExistentialDeposit - Year)
    BY <1>2, <1>4, <2>1, <2>2, <2>3
  <2>5. x * One * Year = k * x /\ y * c = c * y /\ y * y1 = y1 * y
    <3>1. (x * One) * Year = (One * Year) * x
      BY <1>1
    <3> QED BY <1>2, <3>1
  <2>6. PICK a \in Int : a = k * x
    OBVIOUS
  <2>7. PICK b \in Int : b = c * y
    OBVIOUS
  <2>8. PICK r \in Int : r = y1 * y
    OBVIOUS
  <2>9. b <= a + (r + opening - Year)
    BY <1>3, <2>4, <2>5, <2>6, <2>7, <2>8
  <2>10. paid[s] = a /\ due[s] = b /\ round[s] = r /\ open[s] = opening
    BY <2>1, <2>2, <2>3, <2>6, <2>7, <2>8
  <2>11. part[s] = a + r /\ got[s] = a + r + opening /\ b <= a + r + opening
    BY <1>1, <2>1, <2>9, <2>10
  <2> QED BY <2>1, <2>10, <2>11
<1>13. PICK total \in Nat : total = SumFunctionOnSet(f, Subnets)
  <2>1. \A s \in Subnets : f[s] \in Nat
    OBVIOUS
  <2> QED BY <1>1, <2>1, SumNat
<1>14. SumFunctionOnSet(due, Subnets) <= SumFunctionOnSet(got, Subnets)
  BY <1>1, <1>12, SumMonotone
<1>15. SumFunctionOnSet(shares, Subnets) = One
  BY <1>5, SharesAddUp
<1>16. SumFunctionOnSet(due, Subnets) = c * One
  <2>1. SumFunctionOnSet(due, Subnets) = c * SumFunctionOnSet(shares, Subnets)
    BY <1>1, <1>12, SumScale
  <2> QED BY <1>15, <2>1
<1>17. SumFunctionOnSet(paid, Subnets) = k * total
  <2>1. SumFunctionOnSet(paid, Subnets) = k * SumFunctionOnSet(f, Subnets)
    BY <1>1, <1>12, SumScale
  <2> QED BY <1>13, <2>1
<1>18. SumFunctionOnSet(round, Subnets) = y1 * One
  <2>1. SumFunctionOnSet(round, Subnets) = y1 * SumFunctionOnSet(shares, Subnets)
    BY <1>1, <1>12, SumScale
  <2> QED BY <1>15, <2>1
<1>19. SumFunctionOnSet(open, Subnets) = opening * Cardinality(Subnets)
  BY <1>1, <1>12, SumConstant
<1>20. SumFunctionOnSet(part, Subnets) = SumFunctionOnSet(paid, Subnets) + SumFunctionOnSet(round, Subnets)
  BY <1>1, <1>12, SumPlus
<1>21. SumFunctionOnSet(got, Subnets) = SumFunctionOnSet(part, Subnets) + SumFunctionOnSet(open, Subnets)
  BY <1>1, <1>12, SumPlus
<1>22. c * One <= k * total + y1 * One + opening * Cardinality(Subnets)
  BY <1>14, <1>16, <1>17, <1>18, <1>19, <1>20, <1>21
<1>23. PICK n \in Nat : n = Cardinality(Subnets)
  BY <1>1
<1>24. PICK ed \in Nat : ed = ExistentialDeposit
  BY <1>1
<1>25. PICK a \in Nat : a = total * Year
  BY <1>1
<1>26. PICK b \in Nat : b = Year * ed * n
  BY <1>1
<1>27. k * total = One * a /\ opening * n = One * b /\ y1 * One = One * y1 /\ c * One = One * c
  <2>1. (One * Year) * total = One * (total * Year)
    BY <1>1
  <2>2. ((One * Year) * ed) * n = One * ((Year * ed) * n)
    BY <1>1
  <2> QED BY <1>1, <1>2, <1>3, <1>24, <1>25, <1>26, <2>1, <2>2
<1>28. One * (a + y1 + b) = One * a + One * y1 + One * b
  BY <1>1
<1>29. One * c <= One * (a + y1 + b)
  BY <1>22, <1>23, <1>27, <1>28
<1>30. c <= a + y1 + b
  <2>1. a + y1 + b \in Nat
    OBVIOUS
  <2> QED BY <1>1, <1>29, <2>1, Cancel
<1> QED BY <1>4, <1>13, <1>23, <1>24, <1>25, <1>26, <1>30

\* Balances that hold what the schedule can issue hold its entitlement, which rounds
\* off less than one unit.
LEMMA EntitlementFits ==
  ASSUME NEW elapsed \in Nat, NEW annual \in Nat, annual * Year <= MaxBalance,
         annual * elapsed <= Year * MaxBalance
  PROVE  /\ entitlement(elapsed, annual) # None
         /\ annual * elapsed <= entitlement(elapsed, annual) * Year + (Year - 1)
<1>1. Year \in Nat \ {0} /\ MaxBalance \in Nat /\ None \notin Nat
  BY EmissionAssumption
<1>2. PICK q : q = elapsed \div Year
  OBVIOUS
<1>3. PICK r : r = elapsed % Year
  OBVIOUS
<1>4. q \in Nat /\ r \in Nat /\ elapsed = Year * q + r /\ r <= Year
  BY <1>1, <1>2, <1>3
<1>5. PICK years \in Nat : years = annual * q
  BY <1>4
<1>6. PICK product \in Nat : product = annual * r
  BY <1>4
<1>7. PICK part : part = product \div Year
  OBVIOUS
<1>8. part \in Nat /\ Year * part <= product /\ product <= Year * part + (Year - 1)
  BY <1>1, <1>7
<1>9. annual * elapsed = Year * years + product
  <2>1. annual * (Year * q + r) = annual * (Year * q) + annual * r
    BY <1>1, <1>4
  <2>2. annual * (Year * q) = Year * (annual * q)
    BY <1>1, <1>4
  <2> QED BY <1>4, <1>5, <1>6, <2>1, <2>2
<1>10. PICK y \in Nat : y = Year * years
  BY <1>1
<1>11. PICK p \in Nat : p = Year * part
  BY <1>1, <1>8
<1>12. PICK m \in Nat : m = Year * MaxBalance
  BY <1>1
<1>13. y + product <= m /\ p <= product /\ product <= p + (Year - 1)
  BY <1>8, <1>9, <1>10, <1>11, <1>12
<1>14. years <= MaxBalance
  <2>1. Year * years <= Year * MaxBalance
    BY <1>10, <1>12, <1>13
  <2> QED BY <1>1, <2>1, Cancel
<1>15. product <= MaxBalance
  <2>1. annual * r <= annual * Year
    BY <1>1, <1>4, Scaled
  <2>2. PICK x \in Nat : x = annual * Year
    BY <1>1
  <2> QED BY <1>1, <1>6, <2>1, <2>2
<1>16. years + part <= MaxBalance
  <2>1. Year * (years + part) = y + p
    BY <1>1, <1>8, <1>10, <1>11
  <2>2. Year * (years + part) <= Year * MaxBalance
    BY <1>12, <1>13, <2>1
  <2>3. years + part \in Nat
    BY <1>8
  <2> QED BY <1>1, <2>2, <2>3, Cancel
<1>17. entitlement(elapsed, annual) = years + part
  <2>1. ~(years > MaxBalance \/ product > MaxBalance \/ years + part > MaxBalance)
    BY <1>1, <1>8, <1>14, <1>15, <1>16
  <2> QED BY <1>2, <1>3, <1>5, <1>6, <1>7, <2>1 DEF entitlement
<1>18. (years + part) * Year = y + p
  BY <1>1, <1>8, <1>10, <1>11
<1>19. annual * elapsed <= (years + part) * Year + (Year - 1)
  BY <1>1, <1>9, <1>10, <1>13, <1>18
<1>20. years + part \in Nat
  BY <1>8
<1> QED BY <1>1, <1>17, <1>19, <1>20

\* What one turn of the loop establishes for its subnet and every turn keeps, the
\* loop establishes.
LEMMA LoopReaches ==
  ASSUME NEW total, NEW B, NEW C, NEW i \in DOMAIN Routes, OldBooks \in B,
         \A b \in B : \A j \in DOMAIN Routes : fund_subnet(b, Routes[j], total) \in B,
         \A b \in B : fund_subnet(b, Routes[i], total) \in C,
         \A b \in C : \A j \in DOMAIN Routes : fund_subnet(b, Routes[j], total) \in C
  PROVE  fund_subnets(total) \in C
<1>1. PICK D : D = DOMAIN Routes
  OBVIOUS
<1>2. PICK g : g = LoopFcn(OldBooks, total, D)
  OBVIOUS
<1>3. LoopEquation(g, OldBooks, total, D)
  BY <1>1, <1>2, LoopDefined
<1> DEFINE F == {T \in SUBSET D : g[T] \notin B}
           G == {T \in SUBSET D : i \in T /\ g[T] \notin C}
<1>4. ASSUME NEW T \in SUBSET D, T # {}
      PROVE  /\ Max(T) \in T /\ Max(T) \in D
             /\ g[T] = fund_subnet(g[T \ {Max(T)}], Routes[Max(T)], total)
  <2>1. Max(T) \in T
    BY <1>1, <1>4, LastIndex
  <2> QED BY <1>3, <1>4, <2>1 DEF LoopEquation
<1>5. ASSUME F # {} PROVE FALSE
  <2>1. PICK T \in F : \A U \in F : U \subseteq T => U = T
    <3>1. F \subseteq SUBSET D /\ IsFiniteSet(D)
      BY <1>1, LastIndex
    <3> HIDE DEF F
    <3> QED BY <1>5, <3>1, MinimalSubset
  <2>2. T # {}
    BY <1>3 DEF LoopEquation
  <2>3. g[T \ {Max(T)}] \in B
    BY <1>4, <2>1, <2>2
  <2>4. g[T] \in B
    BY <1>1, <1>4, <2>2, <2>3
  <2> QED BY <2>4
<1>6. ASSUME G # {} PROVE FALSE
  <2>1. PICK T \in G : \A U \in G : U \subseteq T => U = T
    <3>1. G \subseteq SUBSET D /\ IsFiniteSet(D)
      BY <1>1, LastIndex
    <3> HIDE DEF G
    <3> QED BY <1>6, <3>1, MinimalSubset
  <2>2. PICK m : m = Max(T)
    OBVIOUS
  <2>3. T \in SUBSET D /\ i \in T /\ m \in T /\ m \in D
        /\ g[T] = fund_subnet(g[T \ {m}], Routes[m], total)
    BY <1>4, <2>2
  <2>4. CASE m = i
    <3>1. g[T \ {m}] \in B
      BY <1>5
    <3>2. g[T] \in C
      BY <2>3, <2>4, <3>1
    <3> QED BY <3>2
  <2>5. CASE m # i
    <3>1. g[T \ {m}] \in C
      BY <2>1, <2>3, <2>5
    <3>2. g[T] \in C
      BY <1>1, <2>3, <3>1
    <3> QED BY <3>2
  <2> QED BY <2>4, <2>5
<1>7. g[D] \in C
  BY <1>1, <1>6
<1> QED BY <1>1, <1>2, <1>7, LoopUnfold

\* Books in which no subnet has more than its share of `due`.
Within(b, due) == \A s \in Subnets : b.issued[s] * One * Year <= Share(s) * due

\* Genesis, a faucet that minted `minted` and a schedule of `due` fit into a balance.
Room(minted, due) ==
  Year * (GenesisFree * Cardinality(Users) + minted) + due <= Year * MaxBalance

\* The target of a subnet: its share of the total, but for the rounding.
LEMMA TargetIs ==
  ASSUME NEW s \in Subnets, NEW total \in Nat
  PROVE  /\ mul_floor(Share(s), total) \in Nat
         /\ mul_floor(Share(s), total) * One <= Share(s) * total
         /\ Share(s) * total <= mul_floor(Share(s), total) * One + (One - 1)
<1>1. One \in Nat \ {0} /\ Share(s) \in Nat
  BY EmissionAssumption, ShareNat
<1>2. PICK m \in Nat : m = Share(s) * total
  BY <1>1
<1>3. PICK target : target = m \div One
  OBVIOUS
<1>4. target \in Nat /\ target * One <= m /\ m <= target * One + (One - 1)
  BY <1>1, <1>3
<1> QED BY <1>2, <1>3, <1>4 DEF mul_floor

\* A target is within the share of what the total was accrued for.
LEMMA TargetWithin ==
  ASSUME NEW s \in Subnets, NEW total \in Nat, NEW due \in Nat, total * Year <= due
  PROVE  mul_floor(Share(s), total) * One * Year <= Share(s) * due
<1>1. One \in Nat /\ Year \in Nat /\ Share(s) \in Nat
  BY EmissionAssumption, ShareNat
<1>2. PICK x \in Nat : x = mul_floor(Share(s), total)
  BY TargetIs
<1>3. PICK y \in Nat : y = Share(s)
  BY <1>1
<1>4. x * One <= y * total /\ x * One \in Nat /\ y * total \in Nat /\ total * Year \in Nat
  BY <1>1, <1>2, <1>3, TargetIs
<1>5. Year * (x * One) <= Year * (y * total)
  BY <1>1, <1>4, Scaled
<1>6. y * (total * Year) <= y * due
  BY <1>4, Scaled
<1>7. Year * (y * total) = y * (total * Year) /\ Year * (x * One) = x * One * Year
  BY <1>1
<1>8. PICK a \in Nat : a = Year * (x * One)
  BY <1>1, <1>4
<1>9. PICK b \in Nat : b = y * (total * Year)
  BY <1>4
<1>10. PICK c \in Nat : c = y * due
  OBVIOUS
<1>11. a <= c
  BY <1>5, <1>6, <1>7, <1>8, <1>9, <1>10
<1> QED BY <1>2, <1>3, <1>7, <1>8, <1>10, <1>11

\* One turn of the loop, subnet by subnet: the route's subnet is brought to its target
\* or left alone, the others are left alone.
LEMMA FundIs ==
  ASSUME NEW b \in AllBooks, NEW total \in Nat, NEW i \in DOMAIN Routes,
         NEW s, s = Routes[i][1], NEW target, target = mul_floor(Share(s), total),
         NEW c, c = fund_subnet(b, Routes[i], total)
  PROVE  /\ s \in Subnets /\ target \in Nat /\ b.issued[s] \in Nat
         /\ \A x \in Subnets \ {s} : c.issued[x] = b.issued[x]
         /\ \/ c.issued[s] = target /\ target > b.issued[s]
            \/ /\ c.issued[s] = b.issued[s]
               /\ target > b.issued[s] => ~deposit_exact(b.free, pot(s), target - b.issued[s])
<1>1. s \in Subnets /\ Share(s) = Routes[i][2]
  BY ShareIs
<1>2. b.issued \in [Subnets -> Nat] /\ b.issued[s] \in Nat /\ target \in Nat
  BY <1>1, TargetIs DEF AllBooks
<1>3. PICK amount \in Int : amount = target - b.issued[s]
  BY <1>2
<1>4. CASE ~(amount > 0 /\ deposit_exact(b.free, pot(s), amount))
  <2>1. c = b
    BY <1>1, <1>3, <1>4 DEF fund_subnet
  <2> QED BY <1>1, <1>2, <1>3, <1>4, <2>1
<1>5. CASE amount > 0 /\ deposit_exact(b.free, pot(s), amount)
  <2>1. c.issued = [b.issued EXCEPT ![s] = @ + amount]
    BY <1>1, <1>3, <1>5 DEF fund_subnet
  <2>2. c.issued[s] = b.issued[s] + amount /\ \A x \in Subnets \ {s} : c.issued[x] = b.issued[x]
    BY <1>1, <1>2, <2>1
  <2> QED BY <1>1, <1>2, <1>3, <1>5, <2>2
<1> QED BY <1>4, <1>5

LEMMA FundWithin ==
  ASSUME NEW b \in AllBooks, NEW due \in Nat, Within(b, due), NEW total \in Nat, total * Year <= due,
         NEW i \in DOMAIN Routes
  PROVE  Within(fund_subnet(b, Routes[i], total), due)
<1>1. PICK s : s = Routes[i][1]
  OBVIOUS
<1>2. PICK target : target = mul_floor(Share(s), total)
  OBVIOUS
<1>3. PICK c : c = fund_subnet(b, Routes[i], total)
  OBVIOUS
<1>4. /\ s \in Subnets /\ \A x \in Subnets \ {s} : c.issued[x] = b.issued[x]
      /\ c.issued[s] = target \/ c.issued[s] = b.issued[s]
  BY <1>1, <1>2, <1>3, FundIs
<1>5. target * One * Year <= Share(s) * due
  BY <1>2, <1>4, TargetWithin
<1>6. Within(c, due)
  BY <1>4, <1>5 DEF Within
<1> QED BY <1>3, <1>6

\* With room in the currency a turn fails only for a pot it cannot open: it leaves its
\* subnet short of its target by less than the existential deposit.
LEMMA FundReaches ==
  ASSUME NEW b \in AllBooks, NEW minted \in Nat, Explained(b, minted), NEW due \in Nat, Within(b, due),
         Room(minted, due), NEW total \in Nat, total * Year <= due, NEW i \in DOMAIN Routes,
         NEW s, s = Routes[i][1], NEW c, c = fund_subnet(b, Routes[i], total)
  PROVE  mul_floor(Share(s), total) < c.issued[s] + ExistentialDeposit
<1>1. PICK target : target = mul_floor(Share(s), total)
  OBVIOUS
<1>2. /\ s \in Subnets /\ target \in Nat /\ b.issued[s] \in Nat
      /\ \/ c.issued[s] = target /\ target > b.issued[s]
         \/ /\ c.issued[s] = b.issued[s]
            /\ target > b.issued[s] => ~deposit_exact(b.free, pot(s), target - b.issued[s])
  BY <1>1, FundIs
<1>3. /\ ExistentialDeposit \in Nat \ {0} /\ Year \in Nat \ {0} /\ MaxBalance \in Nat
      /\ IsFiniteSet(Subnets) /\ IsFiniteSet(Accounts) /\ pot(s) \in Accounts
  BY <1>2, EmissionAssumption, BooksFinite
<1>4. CASE c.issued[s] = target \/ ~(target > b.issued[s])
  BY <1>1, <1>2, <1>3, <1>4
<1>5. CASE c.issued[s] = b.issued[s] /\ target > b.issued[s] /\ ~deposit_exact(b.free, pot(s), target - b.issued[s])
  <2>1. PICK amount \in Nat : amount = target - b.issued[s]
    BY <1>2, <1>5
  <2>2. PICK f : f = b.issued
    OBVIOUS
  <2>3. f \in [Subnets -> Nat] /\ b.free \in [Accounts -> Nat] /\ b.scheduled \in Nat
    BY <2>2 DEF AllBooks
  <2>4. PICK g : g = [f EXCEPT ![s] = target]
    OBVIOUS
  <2>5. /\ g \in [Subnets -> Nat] /\ g[s] = target /\ f[s] = b.issued[s]
        /\ \A x \in Subnets \ {s} : f[x] = g[x]
    BY <1>2, <2>2, <2>3, <2>4
  <2>6. \A x \in Subnets : g[x] * One * Year <= Share(x) * due
    <3>1. target * One * Year <= Share(s) * due
      BY <1>1, <1>2, TargetWithin
    <3> QED BY <2>2, <2>5, <3>1 DEF Within
  <2>7. PICK all \in Nat : all = SumFunctionOnSet(g, Subnets)
    BY <2>5, <2>6, SharesWithin
  <2>8. all * Year <= due
    BY <2>5, <2>6, <2>7, SharesWithin
  <2>9. SumFunctionOnSet(g, Subnets) = SumFunctionOnSet(f, Subnets) + g[s] - f[s]
    <3>1. \A x \in Subnets : f[x] \in Int /\ g[x] \in Int
      BY <2>3, <2>5
    <3> QED BY <1>2, <1>3, <2>5, <3>1, SumChange
  <2>10. SumFunctionOnSet(f, Subnets) = b.scheduled
    BY <2>2 DEF Explained
  <2>11. all = b.scheduled + amount
    BY <1>2, <2>1, <2>3, <2>5, <2>7, <2>9, <2>10
  <2>12. PICK genesis \in Nat : genesis = GenesisFree * Cardinality(Users)
    <3>1. PICK n \in Nat : n = Cardinality(Users)
      BY BooksFinite, FS_CardinalityType
    <3>2. PICK m \in Nat : m = GenesisFree
      BY EmissionAssumption
    <3>3. m * n \in Nat
      BY ONLY m \in Nat, n \in Nat
    <3> QED BY <3>1, <3>2, <3>3
  <2>13. PICK issuance : issuance = SumFunctionOnSet(b.free, Accounts)
    OBVIOUS
  <2>14. issuance = genesis + b.scheduled + minted
    BY <2>12, <2>13 DEF Explained
  <2>15. issuance + amount = (genesis + minted) + all
    BY <2>3, <2>11, <2>14
  <2>16. issuance + amount <= MaxBalance
    <3>1. PICK base \in Nat : base = genesis + minted
      OBVIOUS
    <3>2. Year * base + due <= Year * MaxBalance
      BY <2>12, <3>1 DEF Room
    <3>3. Year * (base + all) = Year * base + all * Year
      BY <1>3
    <3>4. PICK x \in Nat : x = Year * base
      BY <1>3
    <3>5. PICK y \in Nat : y = all * Year
      BY <1>3
    <3>6. PICK z \in Nat : z = Year * MaxBalance
      BY <1>3
    <3>7. x + y <= z
      BY <2>8, <3>2, <3>4, <3>5, <3>6
    <3>8. Year * (base + all) <= Year * MaxBalance
      BY <3>3, <3>4, <3>5, <3>6, <3>7
    <3>9. base + all <= MaxBalance
      <4>1. base + all \in Nat
        OBVIOUS
      <4> QED BY <1>3, <3>8, <4>1, Cancel
    <3> QED BY <2>15, <3>1, <3>9
  <2>17. DOMAIN b.free = Accounts
    BY <2>3
  <2>18. ~(b.free[pot(s)] + amount >= ExistentialDeposit)
    BY <1>5, <2>1, <2>13, <2>16, <2>17 DEF deposit_exact, TotalIssuance, SumFunction
  <2>19. b.free[pot(s)] \in Nat
    BY <1>3, <2>3
  <2>20. amount < ExistentialDeposit
    BY <1>3, <2>18, <2>19
  <2> QED BY <1>1, <1>2, <1>3, <1>5, <2>1, <2>20
<1> QED BY <1>2, <1>4, <1>5

\* The whole loop leaves no subnet an existential deposit behind its target.
LEMMA LoopReachesTargets ==
  ASSUME OldBooks \in AllBooks, NEW minted \in Nat, Explained(OldBooks, minted),
         NEW due \in Nat, Within(OldBooks, due), Room(minted, due), NEW total \in Nat, total * Year <= due
  PROVE  \A s \in Subnets : mul_floor(Share(s), total) < fund_subnets(total).issued[s] + ExistentialDeposit
<1> SUFFICES ASSUME NEW s \in Subnets
             PROVE  mul_floor(Share(s), total) < fund_subnets(total).issued[s] + ExistentialDeposit
  OBVIOUS
<1>1. PICK i \in DOMAIN Routes : s = Routes[i][1]
  BY ShareNat
<1>2. PICK target \in Nat : target = mul_floor(Share(s), total)
  BY TargetIs
<1> DEFINE B == {b \in AllBooks : Explained(b, minted) /\ Within(b, due)}
           C == {b \in B : target < b.issued[s] + ExistentialDeposit}
<1>3. OldBooks \in B
  OBVIOUS
<1>4. \A b \in B : \A j \in DOMAIN Routes : fund_subnet(b, Routes[j], total) \in B
  BY FundKeeps, FundWithin
<1>5. \A b \in B : fund_subnet(b, Routes[i], total) \in C
  BY <1>1, <1>2, <1>4, FundReaches
<1>6. \A b \in C : \A j \in DOMAIN Routes : fund_subnet(b, Routes[j], total) \in C
  <2> SUFFICES ASSUME NEW b \in C, NEW j \in DOMAIN Routes PROVE fund_subnet(b, Routes[j], total) \in C
    OBVIOUS
  <2>1. PICK c : c = fund_subnet(b, Routes[j], total)
    OBVIOUS
  <2>2. c \in B /\ b \in AllBooks /\ target < b.issued[s] + ExistentialDeposit
    BY <1>4, <2>1
  <2>3. PICK x : x = Routes[j][1]
    OBVIOUS
  <2>4. PICK goal : goal = mul_floor(Share(x), total)
    OBVIOUS
  <2>5. /\ x \in Subnets /\ goal \in Nat /\ b.issued[x] \in Nat
        /\ \A y \in Subnets \ {x} : c.issued[y] = b.issued[y]
        /\ (c.issued[x] = goal /\ goal > b.issued[x]) \/ c.issued[x] = b.issued[x]
    BY <2>1, <2>2, <2>3, <2>4, FundIs
  <2>6. b.issued[s] \in Nat /\ c.issued[s] \in Nat /\ ExistentialDeposit \in Nat
    BY <2>2, EmissionAssumption DEF AllBooks
  <2>7. c.issued[s] >= b.issued[s]
    BY <2>5, <2>6
  <2>8. target < c.issued[s] + ExistentialDeposit
    BY <2>2, <2>6, <2>7
  <2> QED BY <2>1, <2>2, <2>8
<1>7. fund_subnets(total) \in C
  <2> HIDE DEF B, C
  <2> QED BY <1>3, <1>4, <1>5, <1>6, LoopReaches
<1> QED BY <1>2, <1>7

\* A subnet within an existential deposit of its target is within its share of what the
\* total was accrued for, but for the two roundings.
LEMMA TargetShort ==
  ASSUME NEW s \in Subnets, NEW total \in Nat, NEW issued \in Nat, NEW due \in Nat,
         mul_floor(Share(s), total) < issued + ExistentialDeposit, due <= total * Year + (Year - 1)
  PROVE  Share(s) * due <= issued * One * Year
                           + (Share(s) * (Year - 1) + One * Year * ExistentialDeposit - Year)
<1>1. /\ One \in Nat \ {0} /\ Year \in Nat \ {0} /\ ExistentialDeposit \in Nat \ {0}
  BY EmissionAssumption
<1>2. PICK x \in Nat : x = mul_floor(Share(s), total)
  BY TargetIs
<1>3. PICK y \in Nat : y = Share(s)
  BY ShareNat
<1>4. PICK y1 \in Nat : y1 = Year - 1
  BY <1>1
<1>5. PICK e \in Nat : e = issued + ExistentialDeposit - 1
  BY <1>1
<1>6. x <= e
  BY <1>1, <1>2, <1>5
<1>7. PICK k \in Nat : k = One * Year
  BY <1>1
<1>8. k * x <= k * e
  BY <1>6, Scaled
<1>9. PICK xo \in Nat : xo = x * One
  BY <1>1
<1>10. PICK yt \in Nat : yt = y * total
  OBVIOUS
<1>11. PICK o1 \in Nat : o1 = One - 1
  BY <1>1
<1>12. yt <= xo + o1
  BY <1>2, <1>3, <1>9, <1>10, <1>11, TargetIs
<1>13. Year * yt <= Year * (xo + o1)
  <2>1. xo + o1 \in Nat
    OBVIOUS
  <2> QED BY <1>1, <1>12, <2>1, Scaled
<1>14. Year * (xo + o1) = k * x + (k - Year)
  <2>1. Year * (xo + o1) = Year * xo + Year * o1
    BY <1>1
  <2>2. Year * (x * One) = (One * Year) * x
    BY <1>1
  <2>3. Year * (One - 1) = One * Year - Year
    BY <1>1
  <2> QED BY <1>7, <1>9, <1>11, <2>1, <2>2, <2>3
<1>15. PICK ty \in Nat : ty = total * Year
  BY <1>1
<1>16. y * due <= y * (ty + y1)
  <2>1. due <= ty + y1 /\ ty + y1 \in Nat
    BY <1>4, <1>15
  <2> QED BY <2>1, Scaled
<1>17. y * (ty + y1) = Year * yt + y * y1
  <2>1. y * (ty + y1) = y * ty + y * y1
    OBVIOUS
  <2>2. y * (total * Year) = Year * (y * total)
    BY <1>1
  <2> QED BY <1>10, <1>15, <2>1, <2>2
<1>18. k * e = issued * One * Year + k * ExistentialDeposit - k
  <2>1. k * (issued + ExistentialDeposit - 1) = k * issued + k * ExistentialDeposit - k
    BY <1>1
  <2>2. (One * Year) * issued = issued * One * Year
    BY <1>1
  <2> QED BY <1>5, <1>7, <2>1, <2>2
<1>19. PICK a \in Nat : a = y * due
  OBVIOUS
<1>20. PICK b \in Nat : b = y * y1
  OBVIOUS
<1>21. PICK c \in Nat : c = Year * yt
  BY <1>1
<1>22. PICK d \in Nat : d = k * x
  OBVIOUS
<1>23. PICK ke \in Nat : ke = k * e
  OBVIOUS
<1>24. a <= c + b /\ c <= d + (k - Year) /\ d <= ke
  BY <1>8, <1>13, <1>14, <1>16, <1>17, <1>19, <1>20, <1>21, <1>22, <1>23
<1>25. a <= ke + (k - Year) + b
  BY <1>1, <1>24
<1>26. PICK p \in Nat : p = issued * One * Year
  <2>1. PICK w \in Nat : w = issued * One
    BY <1>1
  <2>2. w * Year \in Nat
    BY <1>1
  <2> QED BY <2>1, <2>2
<1>27. PICK q \in Nat : q = k * ExistentialDeposit
  BY <1>1
<1>28. ke = p + q - k
  BY <1>18, <1>23, <1>26, <1>27
<1>29. a <= p + (b + q - Year)
  BY <1>1, <1>25, <1>28
<1> QED BY <1>3, <1>4, <1>7, <1>19, <1>20, <1>26, <1>27, <1>29

\* Where accrue leaves the anchor, and when it runs the loop.
LEMMA AccrueAnchors ==
  ASSUME NEW start, NEW annual, accrue(start, annual), Enabled \in BOOLEAN
  PROVE  StartAt' = start \/ (start = None /\ StartAt' = now /\ now # 0 /\ Enabled)
<1>1. CASE ~Enabled \/ now = 0
  BY <1>1 DEF accrue
<1>2. CASE ~(~Enabled \/ now = 0) /\ start = None
  BY <1>2 DEF accrue
<1>3. CASE ~(~Enabled \/ now = 0) /\ start # None
  BY <1>3 DEF accrue
<1> QED BY <1>1, <1>2, <1>3

LEMMA AccrueRuns ==
  ASSUME NEW start, NEW annual, accrue(start, annual), Enabled, now # 0, start # None,
         NEW total, total = entitlement(Since(start, now), annual), total # None
  PROVE  SubnetIssued' = fund_subnets(total).issued
  BY DEF accrue, Since

\* A block credits no more seconds than its clock moves, and in none of them the time
\* before the chain.
LEMMA PassedBounded ==
  ASSUME now \in Nat, NEW t \in Nat, SetTime(t), StartAt' \in Nat \cup {None}, Enabled \in BOOLEAN
  PROVE  /\ Passed(t) \in Nat /\ Passed(t) <= t - now
         /\ (StartAt' # None => StartAt' >= FirstTime) => Passed(t) <= MaxGap
<1>1. MaxGap \in Nat /\ FirstTime \in Nat /\ t >= now
  BY EmissionAssumption, PassedIs
<1>2. CASE ~Enabled \/ StartAt' = None
  <2>1. Passed(t) = 0
    BY <1>2 DEF Passed
  <2>2. 0 <= t - now
    BY <1>1
  <2> QED BY <1>1, <2>1, <2>2
<1>3. CASE Enabled /\ StartAt' # None
  <2>1. PICK start \in Nat : start = StartAt'
    BY <1>3
  <2>2. PICK p : p = Passed(t)
    OBVIOUS
  <2>3. PICK late \in Nat : late = Since(start, t)
    BY <1>1, <2>1, SinceGrows
  <2>4. PICK early \in Nat : early = Since(start, now)
    BY <1>1, <2>1, SinceGrows
  <2>5. p = late - early /\ late >= early
    BY <1>1, <1>3, <2>1, <2>2, <2>3, <2>4, PassedIs, SinceGrows
  <2>6. late - early <= t - now
    BY <1>1, <2>3, <2>4 DEF Since
  <2>7. ASSUME start >= FirstTime PROVE late - early <= MaxGap
    <3>1. CASE now = 0
      <4>1. t = FirstTime
        BY <3>1 DEF SetTime
      <4>2. late = 0 /\ early = 0
        BY <1>1, <2>3, <2>4, <2>7, <3>1, <4>1 DEF Since
      <4> QED BY <1>1, <4>2
    <3>2. CASE now # 0
      <4>1. t <= now + MaxGap
        BY <1>1, <3>2 DEF SetTime
      <4> QED BY <1>1, <2>6, <4>1
    <3> QED BY <3>1, <3>2
  <2>8. p \in Nat /\ p <= t - now
    BY <1>1, <2>5, <2>6
  <2>9. ASSUME StartAt' # None => StartAt' >= FirstTime PROVE p <= MaxGap
    BY <1>3, <2>1, <2>5, <2>7, <2>9
  <2> QED BY <2>2, <2>8, <2>9
<1> QED BY <1>2, <1>3

\* How far a subnet that was issued `issued` may be behind its share of `due`.
Short(s, issued, due, forfeit) ==
  Share(s) * due <= issued * One * Year + Share(s) * forfeit
                    + (Share(s) * (Year - 1) + One * Year * ExistentialDeposit - Year)

\* Nothing is due yet.
LEMMA NothingDue ==
  ASSUME NEW s \in Subnets, NEW issued \in Nat, NEW forfeit \in Nat
  PROVE  Short(s, issued, 0, forfeit)
<1>1. /\ One \in Nat \ {0} /\ Year \in Nat \ {0} /\ ExistentialDeposit \in Nat \ {0} /\ Share(s) \in Nat
  BY EmissionAssumption, ShareNat
<1>2. PICK y1 \in Nat : y1 = Year - 1
  BY <1>1
<1>3. PICK a \in Nat : a = issued * One * Year
  <2>1. PICK w \in Nat : w = issued * One
    BY <1>1
  <2>2. w * Year \in Nat
    BY <1>1
  <2> QED BY <2>1, <2>2
<1>4. PICK b \in Nat : b = Share(s) * forfeit
  BY <1>1
<1>5. PICK c \in Nat : c = Share(s) * y1
  BY <1>1
<1>6. PICK m \in Nat : m = One * ExistentialDeposit
  BY <1>1
<1>7. 1 <= m
  <2>1. One * 1 <= One * ExistentialDeposit
    BY <1>1, Scaled
  <2> QED BY <1>1, <1>6, <2>1
<1>8. Year * 1 <= Year * m
  BY <1>1, <1>7, Scaled
<1>9. Year * m = One * Year * ExistentialDeposit
  BY <1>1, <1>6
<1>10. PICK d \in Nat : d = One * Year * ExistentialDeposit
  <2>1. PICK k \in Nat : k = One * Year
    BY <1>1
  <2>2. k * ExistentialDeposit \in Nat
    BY <1>1
  <2> QED BY <2>1, <2>2
<1>11. Year <= d
  BY <1>1, <1>8, <1>9, <1>10
<1>12. Share(s) * 0 <= a + b + (c + d - Year)
  BY <1>1, <1>11
<1> QED BY <1>2, <1>3, <1>4, <1>5, <1>10, <1>12 DEF Short

\* All that is credited by now fits into the currency.
LEMMA CreditFits ==
  ASSUME ScheduleFits, now \in 0..MaxTime, credit \in Nat, credit <= OldAnnual * now,
         FaucetBudget \in FaucetBudgets, FaucetIssued \in Nat, FaucetIssued <= FaucetBudget
  PROVE  Room(FaucetIssued, credit) /\ credit <= Year * MaxBalance
<1>1. /\ Year \in Nat \ {0} /\ OldAnnual \in Nat /\ MaxTime \in Nat /\ MaxBalance \in Nat
      /\ FaucetBudget \in Nat /\ now \in Nat /\ now <= MaxTime
  BY EmissionAssumption
<1>2. PICK genesis \in Nat : genesis = GenesisFree * Cardinality(Users)
  <2>1. PICK n \in Nat : n = Cardinality(Users)
    BY BooksFinite, FS_CardinalityType
  <2>2. PICK m \in Nat : m = GenesisFree
    BY EmissionAssumption
  <2> QED BY <2>1, <2>2
<1>3. OldAnnual * now <= OldAnnual * MaxTime
  BY <1>1, Scaled
<1>4. Year * (genesis + FaucetIssued) <= Year * (genesis + FaucetBudget)
  <2>1. genesis + FaucetIssued <= genesis + FaucetBudget /\ genesis + FaucetIssued \in Nat
        /\ genesis + FaucetBudget \in Nat
    BY <1>1
  <2> QED BY <1>1, <2>1, Scaled
<1>5. Year * (genesis + FaucetBudget) + OldAnnual * MaxTime <= Year * MaxBalance
  BY <1>2 DEF ScheduleFits
<1>6. PICK a \in Nat : a = Year * (genesis + FaucetIssued)
  BY <1>1
<1>7. PICK b \in Nat : b = Year * (genesis + FaucetBudget)
  BY <1>1
<1>8. PICK c \in Nat : c = OldAnnual * MaxTime
  BY <1>1
<1>9. PICK d \in Nat : d = OldAnnual * now
  BY <1>1
<1>10. PICK e \in Nat : e = Year * MaxBalance
  BY <1>1
<1>11. credit <= d /\ d <= c /\ a <= b /\ b + c <= e
  BY <1>3, <1>4, <1>5, <1>6, <1>7, <1>8, <1>9, <1>10
<1>12. a + credit <= e /\ credit <= e
  BY <1>11
<1> QED BY <1>2, <1>6, <1>10, <1>12 DEF Room

\* The accrual of a block pays what was credited up to it, short of what was forfeited.
LEMMA AccrueReaches ==
  ASSUME LedgerInductive, NeverAheadOfSchedule, ScheduleFits,
         FaucetBudget \in FaucetBudgets, FaucetIssued <= FaucetBudget, credit <= OldAnnual * now,
         NEW start \in Nat \cup {None}, NEW annual \in Nat, annual <= OldAnnual, accrue(start, annual),
         NEW forfeit \in Nat, ~Enabled \/ start = None => credit = 0,
         Enabled /\ start # None => /\ annual * Since(start, now) <= credit
                                    /\ credit <= annual * Since(start, now) + forfeit
  PROVE  \A s \in Subnets : Short(s, SubnetIssued'[s], credit, forfeit)
<1>1. /\ now \in Nat /\ now \in 0..MaxTime /\ Enabled \in BOOLEAN /\ FaucetIssued \in Nat
      /\ credit \in Nat /\ covered \in Nat /\ covered <= credit
      /\ SubnetIssued \in [Subnets -> Nat] /\ OldBooks \in AllBooks /\ Explained(OldBooks, FaucetIssued)
  BY EmissionAssumption, BooksParts DEF LedgerInductive, ClockInductive, Balance
<1>2. /\ One \in Nat \ {0} /\ Year \in Nat \ {0} /\ OldAnnual \in Nat /\ MaxBalance \in Nat
  BY EmissionAssumption
<1>3. SubnetIssued' \in [Subnets -> Nat]
  <2>1. OldBooks' \in AllBooks
    BY <1>1, AccrueIs, AccrueKeeps
  <2>2. OldBooks'.issued = SubnetIssued'
    BY DEF OldBooks
  <2> QED BY <2>1, <2>2 DEF AllBooks
<1> SUFFICES ASSUME NEW s \in Subnets PROVE Short(s, SubnetIssued'[s], credit, forfeit)
  OBVIOUS
<1>4. PICK issued \in Nat : issued = SubnetIssued'[s]
  BY <1>3
<1>5. CASE ~Enabled \/ start = None \/ now = 0
  <2>1. credit = 0
    BY <1>1, <1>2, <1>5
  <2> QED BY <1>4, <2>1, NothingDue
<1>6. CASE Enabled /\ start # None /\ now # 0
  <2>1. PICK elapsed \in Nat : elapsed = Since(start, now)
    BY <1>1, <1>6, SinceGrows
  <2>2. PICK due \in Nat : due = annual * elapsed
    OBVIOUS
  <2>3. due <= credit /\ credit <= due + forfeit
    BY <1>6, <2>1, <2>2
  <2>4. Room(FaucetIssued, credit) /\ credit <= Year * MaxBalance
    BY <1>1, CreditFits
  <2>5. annual * Year <= MaxBalance
    <3>1. Year * annual <= Year * OldAnnual
      BY <1>2, Scaled
    <3>2. OldAnnual * Year <= MaxBalance
      BY DEF ScheduleFits
    <3>3. PICK a \in Nat : a = Year * annual
      BY <1>2
    <3>4. PICK b \in Nat : b = Year * OldAnnual
      BY <1>2
    <3>5. annual * Year = a /\ OldAnnual * Year = b
      BY <1>2, <3>3, <3>4
    <3> QED BY <1>2, <3>1, <3>2, <3>3, <3>4, <3>5
  <2>6. PICK total : total = entitlement(elapsed, annual)
    OBVIOUS
  <2>7. total # None /\ due <= total * Year + (Year - 1)
    <3>1. PICK m \in Nat : m = Year * MaxBalance
      BY <1>2
    <3>2. annual * elapsed <= Year * MaxBalance
      BY <1>1, <2>2, <2>3, <2>4, <3>1
    <3> QED BY <2>2, <2>5, <2>6, <3>2, EntitlementFits
  <2>8. total \in Nat /\ total * Year <= due
    BY <2>2, <2>6, <2>7, EntitlementIs
  <2>9. total * Year <= credit
    <3>1. PICK m \in Nat : m = total * Year
      BY <1>2, <2>8
    <3> QED BY <1>1, <2>3, <2>8, <3>1
  <2>10. Within(OldBooks, credit)
    <3> SUFFICES ASSUME NEW x \in Subnets PROVE SubnetIssued[x] * One * Year <= Share(x) * credit
      BY DEF Within, OldBooks
    <3>1. Share(x) \in Nat
      BY ShareNat
    <3>2. Share(x) * covered <= Share(x) * credit
      BY <1>1, <3>1, Scaled
    <3>3. PICK n \in Nat : n = SubnetIssued[x]
      BY <1>1
    <3>4. PICK w \in Nat : w = n * One
      BY <1>2
    <3>5. PICK a \in Nat : a = w * Year
      BY <1>2
    <3>6. PICK b \in Nat : b = Share(x) * covered
      BY <1>1, <3>1
    <3>7. PICK c \in Nat : c = Share(x) * credit
      BY <1>1, <3>1
    <3>8. a <= b
      BY <3>3, <3>4, <3>5, <3>6 DEF NeverAheadOfSchedule
    <3>9. a <= c
      BY <3>2, <3>6, <3>7, <3>8
    <3> QED BY <3>3, <3>4, <3>5, <3>7, <3>9
  <2>11. mul_floor(Share(s), total) < fund_subnets(total).issued[s] + ExistentialDeposit
    BY <1>1, <2>4, <2>8, <2>9, <2>10, LoopReachesTargets
  <2>12. SubnetIssued' = fund_subnets(total).issued
    BY <1>6, <2>1, <2>6, <2>7, AccrueRuns
  <2>13. mul_floor(Share(s), total) < issued + ExistentialDeposit
    BY <1>4, <2>11, <2>12
  <2>14. Share(s) * due <= issued * One * Year
                           + (Share(s) * (Year - 1) + One * Year * ExistentialDeposit - Year)
    BY <2>7, <2>8, <2>13, TargetShort
  <2>15. PICK y \in Nat : y = Share(s)
    BY ShareNat
  <2>16. y * credit <= y * (due + forfeit)
    <3>1. due + forfeit \in Nat
      OBVIOUS
    <3> QED BY <1>1, <2>3, <3>1, Scaled
  <2>17. y * (due + forfeit) = y * due + y * forfeit
    OBVIOUS
  <2>18. PICK slack \in Int : slack = y * (Year - 1) + One * Year * ExistentialDeposit - Year
    <3>1. PICK k \in Int : k = One * Year
      BY <1>2
    <3>2. k * ExistentialDeposit \in Int /\ y * (Year - 1) \in Int
      BY <1>2, EmissionAssumption
    <3> QED BY <1>2, <3>1, <3>2
  <2>19. PICK p \in Int : p = issued * One * Year
    <3>1. PICK w \in Nat : w = issued * One
      BY <1>2
    <3>2. w * Year \in Int
      BY <1>2
    <3> QED BY <3>1, <3>2
  <2>20. PICK a \in Int : a = y * due
    OBVIOUS
  <2>21. PICK b \in Int : b = y * forfeit
    OBVIOUS
  <2>22. PICK c \in Int : c = y * credit
    BY <1>1
  <2>23. a <= p + slack /\ c <= a + b
    BY <2>14, <2>15, <2>16, <2>17, <2>18, <2>19, <2>20, <2>21, <2>22
  <2>24. c <= p + b + slack
    BY <2>23
  <2> QED BY <1>4, <2>15, <2>18, <2>19, <2>21, <2>22, <2>24 DEF Short
<1> QED BY <1>1, <1>5, <1>6

\* What a block does to the history: the seconds it credits are those since the anchor.
LEMMA CreditReaches ==
  ASSUME LedgerInductive, NEW t \in 0..MaxTime, SetTime(t), credit <= OldAnnual * now,
         NEW start \in Nat \cup {None}, NEW annual \in Nat, annual <= OldAnnual, accrue(start, annual),
         NEW forfeit \in Nat, ~Enabled \/ start = None => credit = 0,
         Enabled /\ start # None => credit <= annual * Since(start, now) + forfeit,
         credit' = credit + annual * Passed(t), UNCHANGED Enabled
  PROVE  /\ credit' <= OldAnnual * now'
         /\ ~Enabled' \/ StartAt' = None => credit' = 0
         /\ Enabled' /\ StartAt' # None => credit' <= annual * Since(StartAt', now') + forfeit
<1>1. /\ now \in Nat /\ t \in Nat /\ Enabled \in BOOLEAN /\ credit \in Nat /\ OldAnnual \in Nat
  BY EmissionAssumption DEF LedgerInductive, ClockInductive
<1>2. StartAt' = start \/ (start = None /\ StartAt' = now /\ now # 0 /\ Enabled)
  BY <1>1, AccrueAnchors
<1>3. StartAt' \in Nat \cup {None} /\ None \notin Nat
  BY <1>1, <1>2, EmissionAssumption
<1>4. PICK p \in Nat : p = Passed(t)
  BY <1>1, <1>3, PassedBounded
<1>5. p <= t - now /\ now' = t /\ t >= now
  BY <1>1, <1>3, <1>4, PassedBounded, PassedIs
<1>6. PICK gain \in Nat : gain = annual * p
  OBVIOUS
<1>7. credit' <= OldAnnual * now'
  <2>1. PICK d \in Nat : d = t - now
    BY <1>1, <1>5
  <2>2. p * annual <= p * OldAnnual
    BY <1>1, Scaled
  <2>3. OldAnnual * p <= OldAnnual * d
    BY <1>1, <1>5, <2>1, Scaled
  <2>4. OldAnnual * t = OldAnnual * now + OldAnnual * d
    <3>1. t = now + d
      BY <1>1, <2>1
    <3> QED BY <1>1, <3>1
  <2>5. PICK a \in Nat : a = OldAnnual * p
    BY <1>1
  <2>6. PICK b \in Nat : b = OldAnnual * d
    BY <1>1
  <2>7. PICK c \in Nat : c = OldAnnual * now
    BY <1>1
  <2>8. gain <= a
    BY <1>1, <1>6, <2>2, <2>5
  <2>9. credit + gain <= c + b
    BY <1>1, <2>3, <2>5, <2>6, <2>7, <2>8
  <2> QED BY <1>4, <1>5, <1>6, <2>4, <2>6, <2>7, <2>9
<1>8. ASSUME ~Enabled \/ StartAt' = None PROVE credit' = 0
  <2>1. credit = 0
    BY <1>1, <1>2, <1>3, <1>8
  <2>2. Passed(t) = 0
    BY <1>8 DEF Passed
  <2> QED BY <2>1, <2>2
<1>9. ASSUME Enabled, StartAt' # None PROVE credit' <= annual * Since(StartAt', now') + forfeit
  <2>1. PICK anchor \in Nat : anchor = StartAt'
    BY <1>3, <1>9
  <2>2. PICK late \in Nat : late = Since(anchor, t)
    BY <1>1, <2>1, SinceGrows
  <2>3. PICK early \in Nat : early = Since(anchor, now)
    BY <1>1, <2>1, SinceGrows
  <2>4. late = early + p
    <3>1. p = late - early
      BY <1>1, <1>3, <1>4, <1>9, <2>1, <2>2, <2>3, PassedIs
    <3> QED BY <3>1
  <2>5. credit <= annual * early + forfeit
    <3>1. CASE StartAt' = start
      BY <1>9, <2>1, <2>3, <3>1
    <3>2. CASE StartAt' # start
      <4>1. credit = 0 /\ annual * early \in Nat
        BY <1>2, <3>2
      <4> QED BY <4>1
    <3> QED BY <3>1, <3>2
  <2>6. annual * late = annual * early + annual * p
    BY <2>4
  <2>7. PICK a \in Nat : a = annual * early
    OBVIOUS
  <2>8. credit + gain <= a + gain + forfeit
    BY <1>1, <2>5, <2>7
  <2> QED BY <1>4, <1>5, <1>6, <2>1, <2>2, <2>6, <2>7, <2>8
<1> QED BY <1>7, <1>8, <1>9

\* What an accrual has to go by: how much is credited, and from which anchor.
ReachInductive ==
  /\ ShortfallBounded
  /\ FaucetBudget \in FaucetBudgets /\ FaucetIssued <= FaucetBudget
  /\ now = 0 \/ now >= FirstTime
  /\ credit <= OldAnnual * now
  /\ ~Enabled \/ StartAt = None => credit = 0
  /\ Enabled /\ StartAt # None => credit <= AnnualEmission * Since(StartAt, now) + Forfeited
  /\ emissionVersion = 1 => /\ credit <= covered + MaxGap * OldAnnual
                            /\ StartAt # None => StartAt >= FirstTime

\* What the one rebase forfeits.
RebaseCost ==
  MaxGap * OldAnnual + (NewAnnual - 1) + (Year - 1) + Year * ExistentialDeposit * Cardinality(Subnets)

LEMMA RebaseCostIs ==
  /\ RebaseCost \in Nat /\ Forfeited \in Nat
  /\ emissionVersion = 2 => Forfeited = RebaseCost
  /\ emissionVersion = 1 => Forfeited = 0
<1>1. /\ MaxGap \in Nat /\ OldAnnual \in Nat /\ NewAnnual \in Nat \ {0} /\ Year \in Nat \ {0}
      /\ ExistentialDeposit \in Nat /\ Cardinality(Subnets) \in Nat
  BY EmissionAssumption, BooksFinite, FS_CardinalityType
<1>2. PICK a \in Nat : a = MaxGap * OldAnnual
  BY <1>1
<1>3. PICK w \in Nat : w = Year * ExistentialDeposit
  BY <1>1
<1>4. PICK b \in Nat : b = w * Cardinality(Subnets)
  BY <1>1
<1>5. RebaseCost \in Nat
  BY <1>1, <1>2, <1>3, <1>4 DEF RebaseCost
<1> QED BY <1>5 DEF Forfeited, RebaseCost

\* The anchor the upgrade picks leaves no more than that unpaid: what the pots had
\* received by then is within one opening each of what was due at the last block.
LEMMA RebaseReaches ==
  ASSUME LedgerInductive, PaceInductive, ReachInductive, ScheduleFits, emissionVersion = 1,
         NEW start, start = rebased_start(NewAnnual)
  PROVE  /\ ~Enabled \/ start = None => credit = 0
         /\ Enabled /\ start # None => credit <= NewAnnual * Since(start, now) + RebaseCost
<1>1. /\ now \in Nat /\ now <= MaxTime /\ credit \in Nat /\ covered \in Nat /\ covered <= credit
      /\ StartAt \in Nat \cup {None} /\ Enabled \in BOOLEAN
      /\ SubnetIssued \in [Subnets -> Nat] /\ ScheduledIssued = SumFunctionOnSet(SubnetIssued, Subnets)
  BY EmissionAssumption, BooksParts DEF LedgerInductive, ClockInductive
<1>2. /\ OldAnnual \in Nat /\ NewAnnual \in Nat \ {0} /\ NewAnnual <= OldAnnual /\ Year \in Nat \ {0}
      /\ MaxGap \in Nat /\ ExistentialDeposit \in Nat /\ Cardinality(Subnets) \in Nat
      /\ MaxTime \in Nat /\ FirstTime \in Nat /\ None \notin Nat
  BY EmissionAssumption, BooksFinite, FS_CardinalityType DEF ScheduleFits
<1>3. ScheduledIssued \in Nat /\ ScheduledIssued * Year <= covered
  BY TotalNotAhead DEF PaceInductive
<1>4. PICK paid \in Nat : paid = ScheduledIssued * Year
  BY <1>2, <1>3
<1>5. PICK opening \in Nat : opening = Year * ExistentialDeposit * Cardinality(Subnets)
  <2>1. PICK w \in Nat : w = Year * ExistentialDeposit
    BY <1>2
  <2>2. w * Cardinality(Subnets) \in Nat
    BY <1>2
  <2> QED BY <2>1, <2>2
<1>6. PICK gap \in Nat : gap = MaxGap * OldAnnual
  BY <1>2
<1>7. covered <= paid + (Year - 1) + opening
  <2>1. PICK f : f = SubnetIssued
    OBVIOUS
  <2>2. PICK c \in Nat : c = covered
    BY <1>1
  <2>3. ASSUME NEW s \in Subnets
        PROVE  Share(s) * c <= f[s] * One * Year
                 + (Share(s) * (Year - 1) + One * Year * ExistentialDeposit - Year)
    <3>1. Forfeited = 0
      BY RebaseCostIs
    <3>2. Share(s) * covered <= SubnetIssued[s] * One * Year + Share(s) * 0
            + (Share(s) * (Year - 1) + One * Year * ExistentialDeposit - Year)
      BY <3>1 DEF ReachInductive, ShortfallBounded
    <3>3. Share(s) * 0 = 0
      BY ShareNat
    <3>4. PICK p \in Int : p = f[s] * One * Year
      <4>1. f[s] \in Nat /\ One \in Nat
        BY <1>1, <2>1, EmissionAssumption
      <4>2. PICK w \in Nat : w = f[s] * One
        BY <4>1
      <4>3. w * Year \in Int
        BY <1>2
      <4> QED BY <4>2, <4>3
    <3>5. p + 0 = p
      OBVIOUS
    <3> QED BY <2>1, <2>2, <3>2, <3>3, <3>4, <3>5
  <2>4. f \in [Subnets -> Nat]
    BY <1>1, <2>1
  <2>5. c <= SumFunctionOnSet(f, Subnets) * Year + (Year - 1)
             + Year * ExistentialDeposit * Cardinality(Subnets)
    BY <2>3, <2>4, SharesShort
  <2> QED BY <1>1, <1>4, <1>5, <2>1, <2>2, <2>5
<1>8. credit <= covered + gap
  BY <1>6 DEF ReachInductive
<1>9. credit <= paid + (Year - 1) + opening + gap
  BY <1>1, <1>2, <1>7, <1>8
<1>10. RebaseCost = gap + (NewAnnual - 1) + (Year - 1) + opening
  BY <1>5, <1>6 DEF RebaseCost
<1>11. PICK elapsed : elapsed = paid \div NewAnnual
  OBVIOUS
<1>12. elapsed \in Nat /\ NewAnnual * elapsed <= paid /\ paid <= NewAnnual * elapsed + (NewAnnual - 1)
  BY <1>2, <1>11
<1>13. start = IF ~Enabled \/ StartAt = None \/ ScheduledIssued = 0 THEN StartAt
               ELSE IF now > elapsed THEN now - elapsed ELSE 0
  BY <1>4, <1>11 DEF rebased_start
<1>14. ~Enabled \/ start = None => credit = 0
  <2>1. ~Enabled \/ StartAt = None => credit = 0
    BY DEF ReachInductive
  <2>2. start = None => StartAt = None
    BY <1>1, <1>2, <1>12, <1>13
  <2> QED BY <2>1, <2>2
<1>15. ASSUME Enabled, start # None PROVE credit <= NewAnnual * Since(start, now) + RebaseCost
  <2>1. start \in Nat
    BY <1>1, <1>12, <1>13, <1>15
  <2>2. PICK since \in Nat : since = Since(start, now)
    BY <1>1, <2>1, SinceGrows
  <2>3. PICK new \in Nat : new = NewAnnual * since
    BY <1>2
  <2>4. CASE ScheduledIssued = 0
    <3>1. paid = 0
      BY <1>2, <1>4, <2>4
    <3>2. credit <= new + RebaseCost
      BY <1>1, <1>2, <1>9, <1>10, <3>1
    <3> QED BY <2>2, <2>3, <3>2
  <2>5. CASE ScheduledIssued # 0
    <3>1. PICK anchor \in Nat : anchor = StartAt
      BY <1>1, <1>13, <1>15
    <3>2. PICK e \in Nat : e = Since(anchor, now)
      BY <1>1, <3>1, SinceGrows
    <3>3. credit <= OldAnnual * e /\ anchor >= FirstTime
      <4>1. credit <= AnnualEmission * Since(StartAt, now) + Forfeited /\ StartAt >= FirstTime
        BY <1>2, <1>15, <3>1 DEF ReachInductive
      <4>2. AnnualEmission = OldAnnual /\ Forfeited = 0
        BY RebaseCostIs DEF AnnualEmission
      <4>3. OldAnnual * e \in Nat
        BY <1>2
      <4> QED BY <3>1, <3>2, <4>1, <4>2, <4>3
    <3>4. paid > 0
      <4>1. ScheduledIssued >= 1
        BY <1>3, <2>5
      <4>2. Year * 1 <= Year * ScheduledIssued
        BY <1>2, <1>3, <4>1, Scaled
      <4>3. Year * ScheduledIssued = paid
        BY <1>2, <1>3, <1>4
      <4> QED BY <1>2, <4>2, <4>3
    <3>5. ASSUME ~(now > elapsed) PROVE FALSE
      <4>1. NewAnnual * now <= NewAnnual * elapsed
        BY <1>1, <1>2, <1>12, <3>5, Scaled
      <4>2. PICK nn \in Nat : nn = NewAnnual * now
        BY <1>1, <1>2
      <4>3. PICK ne \in Nat : ne = NewAnnual * elapsed
        BY <1>2, <1>12
      <4>4. PICK oe \in Nat : oe = OldAnnual * e
        BY <1>2
      <4>5. nn <= oe /\ oe > 0
        BY <1>1, <1>3, <1>4, <1>12, <3>3, <3>4, <4>1, <4>2, <4>3, <4>4
      <4>6. e # 0
        BY <1>2, <4>4, <4>5
      <4>7. e = now - anchor /\ now > anchor
        BY <1>1, <3>2, <4>6 DEF Since
      <4>8. OldAnnual * e = OldAnnual * now - OldAnnual * anchor
        BY <1>1, <1>2, <4>7
      <4>9. PICK on \in Nat : on = OldAnnual * now
        BY <1>1, <1>2
      <4>10. PICK oa \in Nat : oa = OldAnnual * anchor
        BY <1>2
      <4>11. PICK d \in Nat : d = OldAnnual - NewAnnual
        BY <1>2
      <4>12. d * now = on - nn
        BY <1>1, <1>2, <4>2, <4>9, <4>11
      <4>13. d * now <= d * MaxTime
        BY <1>1, <1>2, Scaled
      <4>14. OldAnnual * FirstTime <= OldAnnual * anchor
        BY <1>2, <3>3, Scaled
      <4>15. PICK dn \in Nat : dn = d * now
        BY <1>1
      <4>16. PICK dm \in Nat : dm = d * MaxTime
        BY <1>2
      <4>17. PICK of \in Nat : of = OldAnnual * FirstTime
        BY <1>2
      <4>18. dm < of
        BY <4>11, <4>16, <4>17 DEF ScheduleFits
      <4>19. oe = on - oa /\ dn = on - nn /\ dn <= dm /\ of <= oa
        BY <4>4, <4>8, <4>9, <4>10, <4>12, <4>13, <4>14, <4>15, <4>16, <4>17
      <4> QED BY <4>5, <4>18, <4>19
    <3>6. start = now - elapsed
      BY <1>13, <1>15, <2>5, <3>1, <3>5, <1>2
    <3>7. since = elapsed
      BY <1>1, <1>12, <2>2, <3>5, <3>6 DEF Since
    <3>8. paid <= new + (NewAnnual - 1)
      BY <1>12, <2>3, <3>7
    <3>9. credit <= new + RebaseCost
      BY <1>1, <1>2, <1>9, <1>10, <3>8
    <3> QED BY <2>2, <2>3, <3>9
  <2> QED BY <2>4, <2>5
<1> QED BY <1>14, <1>15

\* A block, before the upgrade, after it, or with it.
LEMMA BlockReaches ==
  ASSUME LedgerInductive, PaceInductive, ReachInductive, ScheduleFits,
         NEW t \in 0..MaxTime, SetTime(t),
         NEW start \in Nat \cup {None}, NEW annual \in Nat, annual <= OldAnnual, accrue(start, annual),
         annual = AnnualEmission', NEW forfeit \in Nat, forfeit = Forfeited',
         ~Enabled \/ start = None => credit = 0,
         Enabled /\ start # None => /\ annual * Since(start, now) <= credit
                                    /\ credit <= annual * Since(start, now) + forfeit,
         credit' = credit + annual * Passed(t), covered' = credit,
         UNCHANGED <<Enabled, FaucetBudget, FaucetIssued>>,
         emissionVersion' = 1 => emissionVersion = 1 /\ start = StartAt
  PROVE  ReachInductive'
<1>1. /\ now \in Nat /\ t \in Nat /\ Enabled \in BOOLEAN /\ credit \in Nat /\ OldAnnual \in Nat
      /\ FirstTime \in Nat /\ MaxGap \in Nat /\ now' = t /\ None \notin Nat
  BY EmissionAssumption DEF LedgerInductive, ClockInductive, SetTime
<1>2. /\ FaucetBudget \in FaucetBudgets /\ FaucetIssued <= FaucetBudget /\ credit <= OldAnnual * now
      /\ NeverAheadOfSchedule
  BY DEF ReachInductive, PaceInductive
<1>3. \A s \in Subnets : Short(s, SubnetIssued'[s], credit, forfeit)
  BY <1>2, AccrueReaches
<1>4. ShortfallBounded'
  <2> SUFFICES ASSUME NEW s \in Subnets
               PROVE  Share(s) * covered' <= SubnetIssued'[s] * One * Year + Share(s) * Forfeited'
                        + (Share(s) * (Year - 1) + One * Year * ExistentialDeposit - Year)
    BY DEF ShortfallBounded
  <2> QED BY <1>3 DEF Short
<1>5. /\ credit' <= OldAnnual * now'
      /\ ~Enabled' \/ StartAt' = None => credit' = 0
      /\ Enabled' /\ StartAt' # None => credit' <= annual * Since(StartAt', now') + forfeit
  BY <1>2, CreditReaches
<1>6. now' = 0 \/ now' >= FirstTime
  BY <1>1 DEF ReachInductive, SetTime
<1>7. ASSUME emissionVersion' = 1
      PROVE  /\ credit' <= covered' + MaxGap * OldAnnual
             /\ StartAt' # None => StartAt' >= FirstTime
  <2>1. emissionVersion = 1 /\ start = StartAt
    BY <1>7
  <2>2. StartAt' = start \/ (start = None /\ StartAt' = now /\ now # 0 /\ Enabled)
    BY <1>1, AccrueAnchors
  <2>3. StartAt' # None => StartAt' >= FirstTime
    BY <2>1, <2>2 DEF ReachInductive
  <2>4. StartAt' \in Nat \cup {None}
    BY <1>1, <2>2
  <2>5. PICK p \in Nat : p = Passed(t)
    BY <1>1, <2>4, PassedBounded
  <2>6. p <= MaxGap
    BY <1>1, <2>3, <2>4, <2>5, PassedBounded
  <2>7. PICK rate \in Nat : rate = annual
    OBVIOUS
  <2>8. PICK a \in Nat : a = rate * p
    BY ONLY rate \in Nat, p \in Nat
  <2>9. PICK b \in Nat : b = MaxGap * rate
    BY <1>1
  <2>10. PICK c \in Nat : c = MaxGap * OldAnnual
    BY <1>1
  <2>11. a <= b /\ b <= c
    <3>1. rate * p <= rate * MaxGap /\ MaxGap * rate <= MaxGap * OldAnnual
      BY <1>1, <2>6, <2>7, Scaled
    <3>2. rate * MaxGap = MaxGap * rate
      BY <1>1
    <3> QED BY <2>8, <2>9, <2>10, <3>1, <3>2
  <2>12. credit + a <= credit + c
    BY <1>1, <2>11
  <2> QED BY <2>3, <2>5, <2>7, <2>8, <2>10, <2>12
<1>8. FaucetBudget' \in FaucetBudgets /\ FaucetIssued' <= FaucetBudget'
  BY <1>2
<1> QED BY <1>4, <1>5, <1>6, <1>7, <1>8 DEF ReachInductive

(***************************************************************************)
(* IssuanceTracksSchedule: whatever the gaps between blocks, the deposits  *)
(* that failed and were retried, the rewards and mints in between and the  *)
(* moment of the upgrade, what accrue has issued to every subnet is its    *)
(* share of the rates that were in force, never a unit above it, and below *)
(* it by no more than a pot's opening, two roundings and, once, what the   *)
(* rebase forfeits.                                                        *)
(***************************************************************************)
THEOREM TracksSchedule == ASSUME ScheduleFits
                          PROVE  Spec => []IssuanceTracksSchedule
<1>0. NewAnnual <= OldAnnual /\ NewAnnual \in Nat \ {0} /\ OldAnnual \in Nat
  BY EmissionAssumption DEF ScheduleFits
<1>1. Init => ReachInductive
  <2> SUFFICES ASSUME Init PROVE ReachInductive
    OBVIOUS
  <2>1. /\ now = 0 /\ credit = 0 /\ covered = 0 /\ StartAt \in StartsAt
        /\ SubnetIssued = [s \in Subnets |-> 0]
        /\ FaucetBudget \in FaucetBudgets /\ FaucetIssued = 0
    BY DEF Init, EmissionInit
  <2>2. FaucetIssued <= FaucetBudget
    BY <2>1, EmissionAssumption
  <2>3. PICK f \in Nat : f = Forfeited
    BY RebaseCostIs
  <2>4. ShortfallBounded
    <3> SUFFICES ASSUME NEW s \in Subnets
                 PROVE  Share(s) * covered <= SubnetIssued[s] * One * Year + Share(s) * Forfeited
                          + (Share(s) * (Year - 1) + One * Year * ExistentialDeposit - Year)
      BY DEF ShortfallBounded
    <3>1. Short(s, 0, 0, f)
      BY NothingDue
    <3>2. SubnetIssued[s] = 0
      BY <2>1
    <3> QED BY <2>1, <2>3, <3>1, <3>2 DEF Short
  <2>5. ASSUME StartAt # None PROVE credit <= AnnualEmission * Since(StartAt, now) + Forfeited
    <3>1. StartAt \in Nat /\ AnnualEmission \in Nat
      BY <1>0, <2>1, <2>5, EmissionAssumption DEF AnnualEmission
    <3>2. Since(StartAt, now) = 0
      BY <2>1, <3>1 DEF Since
    <3>3. AnnualEmission * 0 = 0
      BY <3>1
    <3> QED BY <2>1, <2>3, <3>2, <3>3
  <2>6. StartAt # None => StartAt >= FirstTime
    BY <2>1 DEF ScheduleFits
  <2>7. credit <= OldAnnual * now /\ credit <= covered + MaxGap * OldAnnual
    <3>1. OldAnnual * 0 = 0
      BY <1>0
    <3>2. MaxGap * OldAnnual \in Nat
      BY <1>0, EmissionAssumption
    <3> QED BY <2>1, <3>1, <3>2
  <2> QED BY <2>1, <2>2, <2>4, <2>5, <2>6, <2>7 DEF ReachInductive
<1>2. LedgerInductive /\ PaceInductive /\ ReachInductive /\ [Next]_vars => ReachInductive'
  <2> SUFFICES ASSUME LedgerInductive, PaceInductive, ReachInductive, [Next]_vars PROVE ReachInductive'
    OBVIOUS
  <2>1. /\ StartAt \in Nat \cup {None} /\ now \in Nat /\ ScheduledIssued \in Nat /\ emissionVersion \in {1, 2}
        /\ AnnualEmission \in Nat /\ AnnualEmission <= OldAnnual
    BY <1>0, BooksParts, EmissionAssumption DEF LedgerInductive, ClockInductive, AnnualEmission
  <2>2. /\ ~Enabled \/ StartAt = None => credit = 0
        /\ Enabled /\ StartAt # None => /\ AnnualEmission * Since(StartAt, now) <= credit
                                        /\ credit <= AnnualEmission * Since(StartAt, now) + Forfeited
    BY DEF PaceInductive, ReachInductive
  <2>3. ASSUME NEW t \in 0..MaxTime, Block(t) PROVE ReachInductive'
    <3>1. /\ SetTime(t) /\ accrue(StartAt, AnnualEmission) /\ emissionVersion' = emissionVersion
          /\ credit' = credit + AnnualEmission * Passed(t) /\ covered' = credit
          /\ UNCHANGED <<Enabled, FaucetBudget, FaucetIssued>>
      BY <2>3 DEF Block, on_initialize
    <3>2. PICK annual \in Nat : annual = AnnualEmission
      BY <2>1
    <3>3. PICK forfeit \in Nat : forfeit = Forfeited
      BY RebaseCostIs
    <3>4. annual = AnnualEmission' /\ forfeit = Forfeited'
      BY <3>1, <3>2, <3>3 DEF AnnualEmission, Forfeited
    <3>5. PICK start \in Nat \cup {None} : start = StartAt
      BY <2>1
    <3>6. /\ accrue(start, annual) /\ annual <= OldAnnual /\ credit' = credit + annual * Passed(t)
          /\ ~Enabled \/ start = None => credit = 0
          /\ Enabled /\ start # None => /\ annual * Since(start, now) <= credit
                                        /\ credit <= annual * Since(start, now) + forfeit
      BY <2>1, <2>2, <3>1, <3>2, <3>3, <3>5
    <3> QED BY <3>1, <3>4, <3>5, <3>6, BlockReaches
  <2>4. ASSUME NEW t \in 0..MaxTime, UpgradeBlock(t) PROVE ReachInductive'
    <3>1. PICK start : start = IF emissionVersion < 2 THEN rebased_start(NewAnnual) ELSE StartAt
      OBVIOUS
    <3>2. start \in Nat \cup {None}
      BY <1>0, <2>1, <3>1, RebasedType
    <3>3. /\ SetTime(t) /\ accrue(start, NewAnnual) /\ emissionVersion' = 2
          /\ credit' = credit + NewAnnual * Passed(t) /\ covered' = credit
          /\ UNCHANGED <<Enabled, FaucetBudget, FaucetIssued>>
      BY <2>4, <3>1 DEF UpgradeBlock, on_runtime_upgrade
    <3>4. PICK forfeit \in Nat : forfeit = RebaseCost
      BY RebaseCostIs
    <3>5. NewAnnual = AnnualEmission' /\ forfeit = Forfeited'
      BY <3>3, <3>4 DEF AnnualEmission, Forfeited, RebaseCost
    <3>6. /\ ~Enabled \/ start = None => credit = 0
          /\ Enabled /\ start # None => /\ NewAnnual * Since(start, now) <= credit
                                        /\ credit <= NewAnnual * Since(start, now) + forfeit
      <4>1. CASE emissionVersion = 1
        <5>1. start = rebased_start(NewAnnual)
          BY <3>1, <4>1
        <5>2. Enabled /\ start # None => NewAnnual * Since(start, now) <= credit
          BY <1>0, <4>1, <5>1, RebasePaced
        <5> QED BY <3>4, <4>1, <5>1, <5>2, RebaseReaches
      <4>2. CASE emissionVersion = 2
        <5>1. start = StartAt /\ AnnualEmission = NewAnnual
          BY <3>1, <4>2 DEF AnnualEmission
        <5>2. Forfeited = forfeit
          BY <3>4, <4>2, RebaseCostIs
        <5> QED BY <2>2, <5>1, <5>2
      <4> QED BY <2>1, <4>1, <4>2
    <3>7. emissionVersion' # 1
      BY <3>3
    <3> QED BY <1>0, <3>2, <3>3, <3>5, <3>6, <3>7, BlockReaches
  <2>5. CASE /\ UNCHANGED <<now, Enabled, StartAt, SubnetIssued, emissionVersion, credit, covered, FaucetBudget>>
             /\ FaucetIssued' <= FaucetBudget'
    BY <2>5 DEF ReachInductive, ShortfallBounded, Forfeited, AnnualEmission
  <2>6. FaucetIssued <= FaucetBudget
    BY DEF ReachInductive
  <2>7. ASSUME NEW who, NEW requested, Reward(who, requested) PROVE ReachInductive'
    BY <2>5, <2>6, <2>7 DEF Reward, pay, schedule
  <2>8. ASSUME NEW from, NEW to, NEW amount, Send(from, to, amount) PROVE ReachInductive'
    BY <2>5, <2>6, <2>8 DEF Send, Transfer, schedule
  <2>9. ASSUME NEW origin, NEW who, NEW amount, MintFaucet(origin, who, amount) PROVE ReachInductive'
    BY <2>5, <2>9 DEF MintFaucet, mint_faucet, schedule
  <2>10. ASSUME NEW authority, set_authority(authority) PROVE ReachInductive'
    BY <2>5, <2>6, <2>10 DEF set_authority, emissionVars, schedule
  <2>11. ASSUME NEW origin, disable(origin) PROVE ReachInductive'
    BY <2>5, <2>6, <2>11 DEF disable, emissionVars, schedule
  <2>12. CASE UNCHANGED vars
    BY <2>5, <2>6, <2>12 DEF vars, emissionVars, schedule
  <2> QED BY <2>3, <2>4, <2>7, <2>8, <2>9, <2>10, <2>11, <2>12 DEF Next
<1>3. Spec => []PaceInductive
  BY <1>0, PaceStays
<1>4. PaceInductive /\ ReachInductive => IssuanceTracksSchedule
  BY DEF PaceInductive, ReachInductive, IssuanceTracksSchedule
<1> QED BY <1>1, <1>2, <1>3, <1>4, LedgerStays, PTL DEF Spec
=============================================================================
