---------------------- MODULE MempoolCompositions_proofs ----------------------
(***************************************************************************)
(* What is built on the mempool, proved from MempoolInductive and the      *)
(* lemmas of ComputeMempool_proofs: the order book implements OrderEscrow; *)
(* beside pallet-xqvm the deposits back the stored programs, settlement is *)
(* never blocked and the mempool keeps its guarantees; on an upgraded      *)
(* chain the migrated orders are queued, ranked and drained as if they had *)
(* been proposed under this runtime.                                       *)
(***************************************************************************)
EXTENDS EscrowRefinement, ProgramMarket, MempoolUpgrade, ComputeMempool_proofs

-----------------------------------------------------------------------------
(* The refinement: what each step does to the promise of OrderEscrow. *)

\* The promise about order o is as it was.
SameBook(o) ==
  /\ StageOf(o)' = StageOf(o) /\ PledgeOf(o)' = PledgeOf(o)
  /\ PledgerOf(o)' = PledgerOf(o) /\ WinnersOf(o)' = WinnersOf(o)

LEMMA BookSame ==
  ASSUME NEW o, JobOrders'[o] = JobOrders[o], StoredRanking(o)' = StoredRanking(o)
  PROVE  SameBook(o)
  BY DEF SameBook, StageOf, PledgeOf, PledgerOf, WinnersOf, Exists

LEMMA RankingSame ==
  ASSUME NEW o, UNCHANGED rankVars, JobOrders'[o].terms = JobOrders[o].terms
  PROVE  StoredRanking(o)' = StoredRanking(o)
  BY DEF StoredRanking, rankVars

LEMMA AllSame ==
  ASSUME free' = free, \A o \in OrderIds : SameBook(o)
  PROVE  UNCHANGED Escrow!escrowVars
<1>1. /\ [o \in OrderIds |-> StageOf(o)'] = [o \in OrderIds |-> StageOf(o)]
      /\ [o \in OrderIds |-> PledgeOf(o)'] = [o \in OrderIds |-> PledgeOf(o)]
      /\ [o \in OrderIds |-> PledgerOf(o)'] = [o \in OrderIds |-> PledgerOf(o)]
      /\ [o \in OrderIds |-> WinnersOf(o)'] = [o \in OrderIds |-> WinnersOf(o)]
  BY DEF SameBook
<1> QED BY <1>1 DEF Escrow!escrowVars

LEMMA ProposePledges ==
  ASSUME TypeOK, IdsAllocated, MoneyInductive, NEW who \in Proposers, NEW t \in Terms, NEW c,
         do_propose_job(who, t, c)
  PROVE  \E o \in OrderIds : Escrow!Pledge(o)
<1>0. PICK id : id = NextOrderId
  OBVIOUS
<1>1. /\ id \in OrderIds /\ JobOrders[id] = None /\ JobOrders'[id] # None
      /\ \A o \in OrderIds \ {id} : JobOrders'[o] = JobOrders[o]
      /\ JobOrders'[id].terms = t /\ JobOrders'[id].proposer = who
      /\ JobOrders'[id].status = "Opened"
  <2>1. id \in OrderIds /\ JobOrders[id] = None
    BY <1>0, OrderIdsAssumption DEF do_propose_job, IdsAllocated, TypeOK
  <2> DEFINE new == [proposer |-> who, terms |-> t, status |-> "Opened", created_at |-> now,
                     first_solution_at |-> None, solution_count |-> 0]
  <2>2. new \in Order /\ JobOrders' = [JobOrders EXCEPT ![id] = new]
    BY <1>0, ProposeStores
  <2>3. new.terms = t /\ new.proposer = who /\ new.status = "Opened"
    OBVIOUS
  <2> HIDE DEF new
  <2> QED BY <2>1, <2>2, <2>3, NoneAssumption DEF TypeOK
<1>2. /\ who \in Accounts /\ t.reward \in 0..free[who]
      /\ free' = [free EXCEPT ![who] = @ - t.reward] /\ UNCHANGED rankVars
  <2>1. /\ who \in Accounts /\ t.reward \in Nat /\ free[who] >= t.reward + ExistentialDeposit
        /\ free' = [free EXCEPT ![who] = @ - t.reward] /\ UNCHANGED rankVars
    BY TermsAssumption, BoundsAssumption DEF do_propose_job, CanReserve
  <2>2. free[who] \in Nat
    BY <2>1 DEF MoneyInductive
  <2> QED BY <2>1, <2>2, BoundsAssumption
<1>3. \A o \in OrderIds \ {id} : SameBook(o)
  BY <1>1, <1>2, RankingSame, BookSame
<1>4. /\ StageOf(id) = "absent" /\ StageOf(id)' = "open"
      /\ PledgeOf(id)' = t.reward /\ PledgerOf(id)' = who
      /\ WinnersOf(id) = {} /\ WinnersOf(id)' = {}
  BY <1>1 DEF StageOf, PledgeOf, PledgerOf, WinnersOf, Exists
<1>5. /\ [o \in OrderIds |-> StageOf(o)'] = [[o \in OrderIds |-> StageOf(o)] EXCEPT ![id] = "open"]
      /\ [o \in OrderIds |-> PledgeOf(o)'] = [[o \in OrderIds |-> PledgeOf(o)] EXCEPT ![id] = t.reward]
      /\ [o \in OrderIds |-> PledgerOf(o)'] = [[o \in OrderIds |-> PledgerOf(o)] EXCEPT ![id] = who]
      /\ [o \in OrderIds |-> WinnersOf(o)'] = [o \in OrderIds |-> WinnersOf(o)]
  BY <1>1, <1>3, <1>4 DEF SameBook
<1>6. Escrow!Pledge(id)
  BY <1>1, <1>2, <1>4, <1>5 DEF Escrow!Pledge
<1> QED BY <1>1, <1>6

LEMMA SubmitStutters ==
  ASSUME TypeOK, RankingInductive, NEW who \in Miners, NEW o \in OrderIds, NEW s, NEW p,
         submit_solution(who, o, s, p)
  PROVE  UNCHANGED Escrow!escrowVars
<1>1. /\ IsOpen(o) /\ JobOrders'[o] # None
      /\ \A q \in OrderIds \ {o} : JobOrders'[q] = JobOrders[q]
      /\ JobOrders'[o].terms = JobOrders[o].terms
      /\ JobOrders'[o].proposer = JobOrders[o].proposer
      /\ JobOrders'[o].status = JobOrders[o].status
  BY SubmitCounts
<1>2. \A q \in OrderIds \ {o} : StoredRanking(q)' = StoredRanking(q)
  <2>1. PICK e : update_ranking(o, who, e)
    BY DEF submit_solution, AcceptSubmission
  <2>2. DOMAIN OrderFrontRunner = OrderIds /\ DOMAIN OrderTopSolvers = OrderIds
    BY DEF RankingInductive, RankTypes
  <2>3. \A q \in OrderIds \ {o} : /\ OrderFrontRunner'[q] = OrderFrontRunner[q]
                                  /\ OrderTopSolvers'[q] = OrderTopSolvers[q]
    BY <2>1, <2>2 DEF update_ranking
  <2> QED BY <1>1, <2>3 DEF StoredRanking
<1>3. \A q \in OrderIds \ {o} : SameBook(q)
  BY <1>1, <1>2, BookSame
<1>4. SameBook(o)
  BY <1>1 DEF SameBook, StageOf, PledgeOf, PledgerOf, WinnersOf, Exists, IsOpen
<1>5. free' = free
  BY DEF submit_solution, moneyVars
<1> QED BY <1>3, <1>4, <1>5, AllSame

\* Whoever is in a stored ranking is an account.
LEMMA WinnersAreAccounts ==
  ASSUME NEW o, StoredRanking(o) \in Seq(Ranked)
  PROVE  {StoredRanking(o)[i].solver : i \in DOMAIN StoredRanking(o)} \subseteq Accounts
<1>1. PICK R \in Seq(Ranked) : R = StoredRanking(o)
  OBVIOUS
<1>2. \A i \in DOMAIN R : R[i] \in Ranked
  BY ElementOfSeq
<1>3. \A i \in DOMAIN R : R[i].solver \in Accounts
  BY <1>2 DEF Ranked
<1> QED BY <1>1, <1>3

LEMMA BlockDecides ==
  ASSUME TypeOK, RankingInductive, on_initialize
  PROVE  \E S \in SUBSET OrderIds : Escrow!Decide(S)
<1> DEFINE S == {o \in OrderIds : IsOpen(o) /\ JobOrders'[o].status = "Expired"}
<1>1. /\ free' = free /\ UNCHANGED rankVars
      /\ \A o \in OrderIds : JobOrders[o] = None <=> JobOrders'[o] = None
      /\ \A o \in OrderIds : JobOrders[o] # None =>
            /\ JobOrders'[o].terms = JobOrders[o].terms
            /\ JobOrders'[o].proposer = JobOrders[o].proposer
            /\ \/ JobOrders'[o] = JobOrders[o]
               \/ IsOpen(o) /\ JobOrders'[o].status = "Expired"
  BY BlockKeeps DEF moneyVars
<1>2. \A o \in OrderIds \ S : SameBook(o)
  <2> TAKE o \in OrderIds \ S
  <2>1. JobOrders'[o] = JobOrders[o]
    BY <1>1
  <2>2. StoredRanking(o)' = StoredRanking(o)
    BY <1>1, <2>1, RankingSame
  <2> QED BY <2>1, <2>2, BookSame
<1>3. ASSUME NEW o \in S
      PROVE  /\ StageOf(o) = "open" /\ StageOf(o)' = "decided"
             /\ PledgeOf(o)' = PledgeOf(o) /\ PledgerOf(o)' = PledgerOf(o)
             /\ WinnersOf(o)' \subseteq Accounts
  <2>1. /\ JobOrders[o] # None /\ JobOrders'[o] # None /\ JobOrders[o].status = "Opened"
        /\ JobOrders'[o].status = "Expired" /\ JobOrders'[o].terms = JobOrders[o].terms
        /\ JobOrders'[o].proposer = JobOrders[o].proposer
    BY <1>1 DEF IsOpen
  <2>2. StoredRanking(o)' = StoredRanking(o)
    BY <1>1, <2>1, RankingSame
  <2>3. StoredRanking(o) \in Seq(Ranked)
    BY <2>1 DEF RankingInductive, RankedTruly, TrueRanking
  <2>4. WinnersOf(o)' = {StoredRanking(o)[i].solver : i \in DOMAIN StoredRanking(o)}
    BY <2>1, <2>2 DEF WinnersOf, StageOf, Exists
  <2> QED BY <2>1, <2>3, <2>4, WinnersAreAccounts DEF StageOf, PledgeOf, PledgerOf, Exists
<1>4. S \in SUBSET OrderIds
  OBVIOUS
<1> HIDE DEF S
<1>5. /\ [o \in OrderIds |-> StageOf(o)'] =
           [o \in OrderIds |-> IF o \in S THEN "decided" ELSE [q \in OrderIds |-> StageOf(q)][o]]
      /\ [o \in OrderIds |-> PledgeOf(o)'] = [o \in OrderIds |-> PledgeOf(o)]
      /\ [o \in OrderIds |-> PledgerOf(o)'] = [o \in OrderIds |-> PledgerOf(o)]
  BY <1>2, <1>3, <1>4 DEF SameBook
<1>6. /\ \A o \in S : [q \in OrderIds |-> StageOf(q)][o] = "open"
      /\ \A o \in S : [q \in OrderIds |-> WinnersOf(q)'][o] \subseteq Accounts
      /\ \A o \in OrderIds \ S : [q \in OrderIds |-> WinnersOf(q)'][o] = [q \in OrderIds |-> WinnersOf(q)][o]
  BY <1>2, <1>3, <1>4 DEF SameBook
<1>7. Escrow!Decide(S)
  BY <1>1, <1>5, <1>6 DEF Escrow!Decide
<1> QED BY <1>4, <1>7

\* A settlement moves one order from decided to settled.
LEMMA SettleSettles ==
  ASSUME TypeOK, RankingInductive, NEW o \in OrderIds,
         claim_reward(o) \/ \E who \in Proposers : reclaim_order(who, o)
  PROVE  /\ Escrow!Settle(o)
         /\ StoredRanking(o) \in Seq(Ranked)
         /\ WinnersOf(o) = {StoredRanking(o)[i].solver : i \in DOMAIN StoredRanking(o)}
         /\ PledgeOf(o) = RewardOf(o) /\ PledgerOf(o) = JobOrders[o].proposer
<1>1. /\ JobOrders[o] # None /\ JobOrders[o].status = "Expired" /\ JobOrders'[o] # None
      /\ \A q \in OrderIds \ {o} : JobOrders'[q] = JobOrders[q]
      /\ JobOrders'[o].terms = JobOrders[o].terms /\ JobOrders'[o].status = "Closed"
      /\ JobOrders'[o].proposer = JobOrders[o].proposer
      /\ UNCHANGED rankVars
  BY SettleKeeps, NoneAssumption
<1>2. StoredRanking(o)' = StoredRanking(o) /\ \A q \in OrderIds \ {o} : SameBook(q)
  BY <1>1, RankingSame, BookSame
<1>3. /\ StageOf(o) = "decided" /\ StageOf(o)' = "settled"
      /\ PledgeOf(o)' = PledgeOf(o) /\ PledgerOf(o)' = PledgerOf(o)
      /\ WinnersOf(o)' = WinnersOf(o)
      /\ WinnersOf(o) = {StoredRanking(o)[i].solver : i \in DOMAIN StoredRanking(o)}
      /\ PledgeOf(o) = RewardOf(o) /\ PledgerOf(o) = JobOrders[o].proposer
  BY <1>1, <1>2 DEF StageOf, PledgeOf, PledgerOf, WinnersOf, Exists, RewardOf
<1>4. /\ [q \in OrderIds |-> StageOf(q)'] = [[q \in OrderIds |-> StageOf(q)] EXCEPT ![o] = "settled"]
      /\ [q \in OrderIds |-> PledgeOf(q)'] = [q \in OrderIds |-> PledgeOf(q)]
      /\ [q \in OrderIds |-> PledgerOf(q)'] = [q \in OrderIds |-> PledgerOf(q)]
      /\ [q \in OrderIds |-> WinnersOf(q)'] = [q \in OrderIds |-> WinnersOf(q)]
  BY <1>2, <1>3 DEF SameBook
<1>5. Escrow!Settle(o)
  BY <1>3, <1>4 DEF Escrow!Settle
<1>6. StoredRanking(o) \in Seq(Ranked)
  BY <1>1 DEF RankingInductive, RankedTruly, TrueRanking
<1> QED BY <1>3, <1>5, <1>6

LEMMA ReclaimReturns ==
  ASSUME TypeOK, RankingInductive, NEW who \in Proposers, NEW o \in OrderIds, reclaim_order(who, o)
  PROVE  Escrow!Return(o)
<1>1. /\ JobOrders[o] # None /\ JobOrders[o].proposer = who /\ JobOrders[o].solution_count = 0
      /\ free' = [free EXCEPT ![who] = @ + RewardOf(o)]
  BY DEF reclaim_order, ReclaimAccepted, RewardOf
<1>2. Participants(o) = {}
  <2>1. Cardinality(Participants(o)) = 0
    BY <1>1 DEF RankingInductive, RankedTruly
  <2>2. IsFiniteSet(Participants(o))
    BY LedgerAssumption, FS_Subset DEF Participants
  <2> QED BY <2>1, <2>2, FS_EmptySet
<1>3. \A i \in 1..Len(StoredRanking(o)) : StoredRanking(o)[i].solver \in Participants(o)
  BY <1>1 DEF RankingInductive, RankedTruly, TrueRanking
<1>4. /\ Escrow!Settle(o) /\ StoredRanking(o) \in Seq(Ranked)
      /\ WinnersOf(o) = {StoredRanking(o)[i].solver : i \in DOMAIN StoredRanking(o)}
      /\ PledgeOf(o) = RewardOf(o) /\ PledgerOf(o) = JobOrders[o].proposer
  BY SettleSettles
<1>5. WinnersOf(o) = {}
  BY <1>2, <1>3, <1>4
<1> QED BY <1>1, <1>4, <1>5 DEF Escrow!Return

\* The sum the abstract module takes is the one of this module.
LEMMA SameSum ==
  ASSUME NEW share
  PROVE  Escrow!SumFunction(share) = SumFunction(share)
  BY Zenon DEF Escrow!SumFunction, Escrow!SumFunctionOnSet, Escrow!FoldFunctionOnSet,
     Escrow!MapThenFoldSet, SumFunction, SumFunctionOnSet, FoldFunctionOnSet, MapThenFoldSet

LEMMA ClaimPaysWinners ==
  ASSUME TypeOK, RankingInductive, MoneyInductive, NEW o \in OrderIds, claim_reward(o)
  PROVE  Escrow!Pay(o)
<1>1. /\ Escrow!Settle(o) /\ StoredRanking(o) \in Seq(Ranked)
      /\ WinnersOf(o) = {StoredRanking(o)[i].solver : i \in DOMAIN StoredRanking(o)}
      /\ PledgeOf(o) = RewardOf(o)
  BY SettleSettles
<1> DEFINE got == [a \in Accounts |-> AmountFor(compute_payouts(o), a)]
           W == WinnersOf(o)
           share == [a \in W |-> got[a]]
<1>2. PICK r \in Nat : r = RewardOf(o)
  BY ClaimMoves, RewardIsNat, NoneAssumption
<1>3. /\ Len(StoredRanking(o)) > 0 /\ free' \in [Accounts -> Nat]
      /\ Distributed(compute_payouts(o), StoredRanking(o), r)
      /\ \A a \in Accounts : free'[a] = free[a] + got[a]
  BY <1>2, ClaimMoves
<1>4. W # {} /\ W \subseteq Accounts
  <2>1. 1 \in DOMAIN StoredRanking(o)
    BY <1>1, <1>3
  <2> QED BY <1>1, <2>1, WinnersAreAccounts
<1>5. /\ \A a \in Accounts : got[a] \in 0..r
      /\ SumFunctionOnSet(got, Accounts) = r
  BY <1>2, <1>3 DEF Distributed
<1>6. \A a \in Accounts \ W : got[a] = 0
  <2> TAKE a \in Accounts \ W
  <2>1. \A i \in 1..Len(StoredRanking(o)) : StoredRanking(o)[i].solver # a
    BY <1>1
  <2> QED BY <1>3, <2>1 DEF Distributed
<1>7. share \in [W -> 0..r]
  BY <1>4, <1>5
<1>8. SumFunction(share) = r
  <2>1. IsFiniteSet(Accounts) /\ W \in SUBSET Accounts
    BY <1>4, LedgerAssumption
  <2>2. \A a \in Accounts : got[a] \in Int
    BY <1>5
  <2>3. IsFiniteSet(W)
    BY <2>1, FS_Subset
  <2>4. \A a \in W : share[a] = got[a] /\ share[a] \in Int
    BY <2>1, <2>2
  <2>5. DOMAIN share = W
    OBVIOUS
  <2> HIDE DEF got, share, W
  <2>6. SumFunctionOnSet(got, Accounts) = SumFunctionOnSet(got, W)
    BY <1>6, <2>1, <2>2, SumSupport
  <2>7. SumFunctionOnSet(share, W) = SumFunctionOnSet(got, W)
    BY <2>3, <2>4, SumEqual
  <2> QED BY <1>5, <2>5, <2>6, <2>7 DEF SumFunction
<1>9. free' = [a \in Accounts |-> free[a] + IF a \in W THEN share[a] ELSE 0]
  <2>1. \A a \in Accounts : free'[a] = free[a] + IF a \in W THEN share[a] ELSE 0
    BY <1>3, <1>6
  <2> HIDE DEF got, share, W
  <2> QED BY <1>3, <2>1
<1> HIDE DEF share, got
<1>10. \E sh \in [W -> 0..PledgeOf(o)] :
          /\ Escrow!SumFunction(sh) = PledgeOf(o)
          /\ free' = [a \in Accounts |-> free[a] + IF a \in W THEN sh[a] ELSE 0]
  BY <1>1, <1>2, <1>7, <1>8, <1>9, SameSum
<1> DEFINE wins == [x \in OrderIds |-> WinnersOf(x)]
           pledges == [x \in OrderIds |-> PledgeOf(x)]
<1>11. wins[o] = W /\ pledges[o] = PledgeOf(o)
  OBVIOUS
<1>12. /\ wins[o] # {}
       /\ \E sh \in [wins[o] -> 0..pledges[o]] :
            /\ Escrow!SumFunction(sh) = pledges[o]
            /\ free' = [a \in Accounts |-> free[a] + IF a \in wins[o] THEN sh[a] ELSE 0]
  <2> HIDE DEF W, wins, pledges
  <2> QED BY ONLY <1>4, <1>10, <1>11
<1> QED BY ONLY <1>1, <1>12, Zenon DEF Escrow!Pay

LEMMA EscrowStep ==
  TypeOK /\ IdsAllocated /\ RankingInductive /\ MoneyInductive /\ [Next]_vars
    => [Escrow!EscrowNext]_(Escrow!escrowVars)
<1> SUFFICES ASSUME TypeOK, IdsAllocated, RankingInductive, MoneyInductive, [Next]_vars
             PROVE  Escrow!EscrowNext \/ UNCHANGED Escrow!escrowVars
  OBVIOUS
<1>1. CASE BookUntouched
  <2>1. free' = free /\ UNCHANGED rankVars /\ JobOrders' = JobOrders
    BY <1>1 DEF BookUntouched, moneyVars
  <2>2. \A o \in OrderIds : SameBook(o)
    BY <2>1, RankingSame, BookSame
  <2> QED BY <2>1, <2>2, AllSame
<1>2. CASE \E who \in Proposers, t \in Terms : \E c : do_propose_job(who, t, c)
  BY <1>2, ProposePledges DEF Escrow!EscrowNext
<1>3. CASE \E who \in Miners, o \in OrderIds, s \in Submissions, p \in Payees \cup {None} :
             submit_solution(who, o, s, p)
  BY <1>3, SubmitStutters
<1>4. CASE \E o \in OrderIds : claim_reward(o)
  BY <1>4, ClaimPaysWinners DEF Escrow!EscrowNext
<1>5. CASE \E who \in Proposers, o \in OrderIds : reclaim_order(who, o)
  BY <1>5, ReclaimReturns DEF Escrow!EscrowNext
<1>6. CASE on_initialize
  BY <1>6, BlockDecides DEF Escrow!EscrowNext
<1> QED BY <1>1, <1>2, <1>3, <1>4, <1>5, <1>6, BookSteps

(***************************************************************************)
(* The order book implements the market's promise, for any number of       *)
(* accounts, orders, winners and blocks: each of its steps pledges,        *)
(* decides, pays the whole pledge to the winners fixed at expiry, returns  *)
(* it, or is invisible.                                                    *)
(***************************************************************************)
THEOREM MempoolKeepsPromise == Spec => EscrowImplemented
<1>1. Init => Escrow!EscrowInit
  <2> SUFFICES ASSUME Init PROVE Escrow!EscrowInit
    OBVIOUS
  <2>1. \A o \in OrderIds : StageOf(o) = "absent" /\ PledgeOf(o) = 0 /\ WinnersOf(o) = {}
    BY DEF Init, StageOf, PledgeOf, WinnersOf, Exists
  <2> QED BY <2>1 DEF Escrow!EscrowInit
<1>2. QueueInductive => IdsAllocated
  BY DEF QueueInductive
<1>3. Spec => [][Escrow!EscrowNext]_(Escrow!escrowVars)
  BY <1>2, EscrowStep, TypeCorrect, QueueCorrect, RankingInvariant, MoneyInvariant, PTL DEF Spec
<1> QED BY <1>1, <1>3, PTL DEF Spec, EscrowImplemented, Escrow!EscrowSpec

-----------------------------------------------------------------------------
(* The mempool beside pallet-xqvm: the steps of each, seen by the other. *)

\* A call of pallet-xqvm.
XqvmCall ==
  \/ \E who \in Authors, h \in Programs : store_program(who, h) \/ remove_program(who, h)
  \/ \E h \in Programs : evict_program(h)

\* A step of the mempool in the market.
MempoolTurn ==
  /\ [Next]_vars /\ JobSpecs \subseteq JobSpecs'
  /\ UNCHANGED <<xqvmVars, externalVars>>

LEMMA MarketSteps ==
  ASSUME [MarketNext]_marketVars
  PROVE  MempoolTurn \/ XqvmCall
<1>1. CASE UNCHANGED marketVars
  BY <1>1 DEF marketVars, MempoolTurn, vars, externalVars, registryVars
<1>2. CASE on_initialize /\ UNCHANGED xqvmVars
  BY <1>2 DEF MempoolTurn, Next, on_initialize, externalVars, registryVars
<1>3. CASE now > 0 /\ MempoolCalls /\ UNCHANGED xqvmVars
  <2>1. Next
    BY <1>3 DEF MempoolCalls, Next, Calls
  <2>2. UNCHANGED externalVars /\ JobSpecs \subseteq JobSpecs'
    BY <1>3 DEF MempoolCalls, register_solver, deregister_solver, register_job_spec, propose_job,
                propose_job_with_payee_requirement, do_propose_job, reclaim_order, purge_result,
                externalVars, registryVars
  <2> QED BY <1>3, <2>1, <2>2 DEF MempoolTurn
<1>4. CASE /\ now > 0
           /\ \E who \in Miners, o \in OrderIds, s \in Submissions, p \in Payees \cup {None} :
                SubmitTransformed(who, o, s, p)
  <2>1. PICK who \in Miners, o \in OrderIds, s \in Submissions, p \in Payees \cup {None} :
           submit_solution(who, o, s, p) /\ UNCHANGED xqvmVars
    BY <1>4 DEF SubmitTransformed
  <2>2. Next
    BY <1>4, <2>1 DEF Next, Calls
  <2>3. UNCHANGED externalVars /\ JobSpecs \subseteq JobSpecs'
    BY <2>1 DEF submit_solution, externalVars, registryVars
  <2> QED BY <2>1, <2>2, <2>3 DEF MempoolTurn
<1>5. CASE now > 0 /\ \E o \in OrderIds : ClaimHeld(o)
  <2>1. PICK o \in OrderIds : claim_reward(o) /\ UNCHANGED xqvmVars
    BY <1>5 DEF ClaimHeld
  <2>2. Next
    BY <1>5, <2>1 DEF Next, Calls
  <2>3. UNCHANGED externalVars /\ JobSpecs \subseteq JobSpecs'
    BY <2>1 DEF claim_reward, externalVars, registryVars
  <2> QED BY <2>1, <2>2, <2>3 DEF MempoolTurn
<1>6. CASE now > 0 /\ XqvmCall
  BY <1>6
<1> QED BY <1>1, <1>2, <1>3, <1>4, <1>5, <1>6 DEF MarketNext, XqvmCall

-----------------------------------------------------------------------------
(* The deposits. *)

Deposited(a) == SumFunctionOnSet(ProgramDeposit, Owned(a))

\* The part of DepositsBackPrograms about pallet-xqvm, with the types it needs.
HoldsInductive ==
  /\ ProgramOwner \in [Programs -> Accounts \cup {None}]
  /\ ProgramDeposit \in [Programs -> Nat \cup {None}]
  /\ held \in [Accounts -> Nat]
  /\ \A h \in Programs :
       (h \in programs <=> ProgramOwner[h] # None) /\ (h \in programs <=> ProgramDeposit[h] # None)
  /\ \A a \in Accounts : held[a] = Deposited(a)

Wealth == SumFunction([a \in Accounts |-> free[a] + reserved[a] + held[a]])

LEMMA OwnedFinite ==
  ASSUME NEW a PROVE IsFiniteSet(Owned(a))
  BY MarketAssumption, FS_Subset DEF Owned

LEMMA OwnedDeposits ==
  ASSUME HoldsInductive, NEW a \in Accounts, NEW h \in Owned(a)
  PROVE  h \in Programs /\ h \in programs /\ ProgramOwner[h] = a /\ ProgramDeposit[h] \in Nat
  BY MarketAssumption DEF HoldsInductive, Owned

\* What store_program does: h becomes who's, with the deposit held for it.
LEMMA StoreHolds ==
  ASSUME MempoolInductive, HoldsInductive, NEW who \in Authors, NEW h \in Programs,
         store_program(who, h)
  PROVE  /\ HoldsInductive' /\ Wealth' = Wealth
         /\ free' \in [Accounts -> Nat] /\ UNCHANGED mempoolRest
         /\ \A a \in Accounts : \/ free'[a] >= ExistentialDeposit
                                \/ free'[a] >= free[a] /\ held'[a] <= held[a]
<1>1. PICK d : d = deposit_for(h)
  OBVIOUS
<1>2. /\ h \notin programs /\ free[who] >= d + ExistentialDeposit
      /\ free' = [free EXCEPT ![who] = @ - d]
      /\ held' = [held EXCEPT ![who] = @ + d]
      /\ programs' = programs \cup {h}
      /\ ProgramOwner' = [ProgramOwner EXCEPT ![h] = who]
      /\ ProgramDeposit' = [ProgramDeposit EXCEPT ![h] = d]
      /\ UNCHANGED mempoolRest
  BY <1>1 DEF store_program, CanHold
<1>3. who \in Accounts /\ d \in Nat /\ None \notin Accounts /\ None \notin Nat
  BY <1>1, MarketAssumption, NoneAssumption DEF deposit_for
<1>4. /\ free \in [Accounts -> Nat] /\ reserved \in [Accounts -> Int] /\ reserved' = reserved
      /\ ProgramOwner \in [Programs -> Accounts \cup {None}]
      /\ ProgramDeposit \in [Programs -> Nat \cup {None}]
      /\ held \in [Accounts -> Nat]
  BY <1>2 DEF MempoolInductive, MoneyInductive, HoldsInductive, mempoolRest
<1>5. free' \in [Accounts -> Nat] /\ held' \in [Accounts -> Nat]
  <2>1. free[who] - d \in Nat /\ held[who] + d \in Nat
    BY <1>2, <1>3, <1>4, BoundsAssumption
  <2> QED BY <1>2, <1>3, <1>4, <2>1
<1>6. /\ ProgramOwner' \in [Programs -> Accounts \cup {None}]
      /\ ProgramDeposit' \in [Programs -> Nat \cup {None}]
  BY <1>2, <1>3, <1>4
<1>7. \A g \in Programs :
        (g \in programs' <=> ProgramOwner'[g] # None) /\ (g \in programs' <=> ProgramDeposit'[g] # None)
  BY <1>2, <1>3, <1>4 DEF HoldsInductive
<1>8. ASSUME NEW a \in Accounts \ {who} PROVE held'[a] = Deposited(a)'
  <2>1. Owned(a)' = Owned(a) /\ h \notin Owned(a)
    BY <1>2, <1>3, <1>4 DEF Owned, HoldsInductive
  <2>2. \A g \in Owned(a) : ProgramDeposit[g] = ProgramDeposit'[g] /\ ProgramDeposit[g] \in Int
    BY <1>2, <1>4, <2>1, OwnedDeposits
  <2>3. SumFunctionOnSet(ProgramDeposit, Owned(a)) = SumFunctionOnSet(ProgramDeposit', Owned(a))
    BY <2>2, OwnedFinite, SumEqual
  <2> QED BY <1>2, <1>4, <2>1, <2>3 DEF Deposited, HoldsInductive
<1>9. held'[who] = Deposited(who)'
  <2>1. PICK S : S = Owned(who)
    OBVIOUS
  <2>2. Owned(who)' = S \cup {h} /\ h \notin S
    BY <1>2, <1>3, <1>4, <2>1 DEF Owned, HoldsInductive
  <2>3. \A g \in S : ProgramDeposit'[g] = ProgramDeposit[g] /\ ProgramDeposit[g] \in Int
    BY <1>2, <1>3, <1>4, <2>1, <2>2, OwnedDeposits
  <2>4. ProgramDeposit'[h] = d /\ d \in Int /\ IsFiniteSet(S)
    BY <1>2, <1>3, <1>4, <2>1, OwnedFinite
  <2>5. SumFunctionOnSet(ProgramDeposit', S \cup {h}) = ProgramDeposit'[h] + SumFunctionOnSet(ProgramDeposit, S)
    BY <2>2, <2>3, <2>4, SumExtend
  <2>6. held'[who] = held[who] + d /\ held[who] \in Nat /\ held[who] = SumFunctionOnSet(ProgramDeposit, S)
    BY <1>2, <1>3, <1>4, <2>1 DEF HoldsInductive, Deposited
  <2>7. held'[who] = SumFunctionOnSet(ProgramDeposit', S \cup {h})
    BY <1>3, <2>4, <2>5, <2>6
  <2> QED BY <2>2, <2>7 DEF Deposited
<1>10. Wealth' = Wealth
  <2>1. \A a \in Accounts : free'[a] + reserved'[a] + held'[a] = free[a] + reserved[a] + held[a]
    BY <1>2, <1>3, <1>4
  <2>2. [a \in Accounts |-> free'[a] + reserved'[a] + held'[a]]
          = [a \in Accounts |-> free[a] + reserved[a] + held[a]]
    BY <2>1
  <2> QED BY <2>2 DEF Wealth
<1>11. \A a \in Accounts : \/ free'[a] >= ExistentialDeposit
                           \/ free'[a] >= free[a] /\ held'[a] <= held[a]
  BY <1>2, <1>3, <1>4, BoundsAssumption
<1> QED BY <1>2, <1>5, <1>6, <1>7, <1>8, <1>9, <1>10, <1>11 DEF HoldsInductive

\* What do_remove does: all of the recorded deposit goes back to the account that stored
\* the program, because the hold covers it.
LEMMA RemoveHolds ==
  ASSUME MempoolInductive, HoldsInductive, NEW h \in Programs, ProgramOwner[h] # None,
         do_remove(h, ProgramOwner[h])
  PROVE  /\ HoldsInductive' /\ Wealth' = Wealth
         /\ free' \in [Accounts -> Nat] /\ UNCHANGED mempoolRest
         /\ \A a \in Accounts : free'[a] >= free[a] /\ held'[a] <= held[a]
<1>1. PICK who, d : who = ProgramOwner[h] /\ d = ProgramDeposit[h]
  OBVIOUS
<1>2. who \in Accounts /\ d \in Nat /\ None \notin Accounts /\ None \notin Nat /\ h \in Owned(who)
  BY <1>1, MarketAssumption, NoneAssumption DEF HoldsInductive, Owned
<1>3. /\ free \in [Accounts -> Nat] /\ reserved \in [Accounts -> Int]
      /\ ProgramOwner \in [Programs -> Accounts \cup {None}]
      /\ ProgramDeposit \in [Programs -> Nat \cup {None}]
      /\ held \in [Accounts -> Nat]
  BY DEF MempoolInductive, MoneyInductive, HoldsInductive
<1>4. d <= held[who]
  <2>1. \A g \in Owned(who) : ProgramDeposit[g] \in Nat
    BY <1>2, OwnedDeposits
  <2>2. ProgramDeposit[h] <= SumFunctionOnSet(ProgramDeposit, Owned(who))
    BY <1>2, <2>1, OwnedFinite, SumMember
  <2> QED BY <1>1, <1>2, <2>2 DEF HoldsInductive, Deposited
<1>5. Min({d, held[who]}) = d
  BY <1>2, <1>3, <1>4 DEF Min
<1>6. /\ free' = [free EXCEPT ![who] = @ + d]
      /\ held' = [held EXCEPT ![who] = @ - d]
      /\ programs' = programs \ {h}
      /\ ProgramOwner' = [ProgramOwner EXCEPT ![h] = None]
      /\ ProgramDeposit' = [ProgramDeposit EXCEPT ![h] = None]
      /\ UNCHANGED mempoolRest
  BY <1>1, <1>5 DEF do_remove
<1>7. free' \in [Accounts -> Nat] /\ held' \in [Accounts -> Nat]
  <2>1. free[who] + d \in Nat /\ held[who] - d \in Nat
    BY <1>2, <1>3, <1>4
  <2> QED BY <1>2, <1>3, <1>6, <2>1
<1>8. /\ ProgramOwner' \in [Programs -> Accounts \cup {None}]
      /\ ProgramDeposit' \in [Programs -> Nat \cup {None}]
  BY <1>3, <1>6
<1>9. \A g \in Programs :
        (g \in programs' <=> ProgramOwner'[g] # None) /\ (g \in programs' <=> ProgramDeposit'[g] # None)
  BY <1>3, <1>6 DEF HoldsInductive
<1>10. ASSUME NEW a \in Accounts \ {who} PROVE held'[a] = Deposited(a)'
  <2>1. Owned(a)' = Owned(a) /\ h \notin Owned(a)
    BY <1>1, <1>2, <1>3, <1>6 DEF Owned
  <2>2. \A g \in Owned(a) : ProgramDeposit[g] = ProgramDeposit'[g] /\ ProgramDeposit[g] \in Int
    BY <1>3, <1>6, <2>1, OwnedDeposits
  <2>3. SumFunctionOnSet(ProgramDeposit, Owned(a)) = SumFunctionOnSet(ProgramDeposit', Owned(a))
    BY <2>2, OwnedFinite, SumEqual
  <2> QED BY <1>3, <1>6, <2>1, <2>3 DEF Deposited, HoldsInductive
<1>11. held'[who] = Deposited(who)'
  <2>1. PICK S : S = Owned(who) \ {h}
    OBVIOUS
  <2>2. Owned(who)' = S /\ Owned(who) = S \cup {h} /\ h \notin S /\ IsFiniteSet(S)
    <3>1. IsFiniteSet(S)
      BY <2>1, OwnedFinite, FS_Subset
    <3> QED BY <1>1, <1>2, <1>3, <1>6, <2>1, <3>1 DEF Owned
  <2>3. \A g \in S : ProgramDeposit[g] = ProgramDeposit'[g] /\ ProgramDeposit'[g] \in Int
    BY <1>2, <1>3, <1>6, <2>2, OwnedDeposits
  <2>4. /\ SumFunctionOnSet(ProgramDeposit, S \cup {h}) = ProgramDeposit[h] + SumFunctionOnSet(ProgramDeposit', S)
        /\ SumFunctionOnSet(ProgramDeposit', S) \in Int
    BY <1>1, <1>2, <2>2, <2>3, SumExtend
  <2>5. held'[who] = held[who] - d /\ held[who] \in Nat
        /\ held[who] = SumFunctionOnSet(ProgramDeposit, S \cup {h})
    BY <1>2, <1>3, <1>6, <2>2 DEF HoldsInductive, Deposited
  <2>6. held'[who] = SumFunctionOnSet(ProgramDeposit', S)
    BY <1>1, <1>2, <2>4, <2>5
  <2> QED BY <2>2, <2>6 DEF Deposited
<1>12. Wealth' = Wealth
  <2>0. reserved' = reserved
    BY <1>6 DEF mempoolRest
  <2>1. \A a \in Accounts : free'[a] + reserved'[a] + held'[a] = free[a] + reserved[a] + held[a]
    BY <1>2, <1>3, <1>6, <2>0
  <2>2. [a \in Accounts |-> free'[a] + reserved'[a] + held'[a]]
          = [a \in Accounts |-> free[a] + reserved[a] + held[a]]
    BY <2>1
  <2> QED BY <2>2 DEF Wealth
<1>13. \A a \in Accounts : free'[a] >= free[a] /\ held'[a] <= held[a]
  BY <1>2, <1>3, <1>6
<1> QED BY <1>6, <1>7, <1>8, <1>9, <1>10, <1>11, <1>12, <1>13 DEF HoldsInductive

\* A mempool step moves nothing into or out of the holds.
LEMMA MempoolHolds ==
  ASSUME MempoolInductive, HoldsInductive, MempoolTurn
  PROVE  MempoolInductive' /\ HoldsInductive' /\ Wealth' = Wealth
<1>1. MempoolInductive' /\ Funds' = Funds
  BY MempoolStep DEF MempoolTurn
<1>2. HoldsInductive' /\ held' = held
  BY DEF HoldsInductive, MempoolTurn, xqvmVars, externalVars, Deposited, Owned
<1>3. /\ free \in [Accounts -> Nat] /\ reserved \in [Accounts -> Int]
      /\ free' \in [Accounts -> Nat] /\ reserved' \in [Accounts -> Int]
      /\ held \in [Accounts -> Nat] /\ IsFiniteSet(Accounts)
  BY <1>1, LedgerAssumption DEF MempoolInductive, MoneyInductive, HoldsInductive
<1> DEFINE f == [a \in Accounts |-> free[a] + reserved[a]]
           g == [a \in Accounts |-> free'[a] + reserved'[a]]
           F == [a \in Accounts |-> free[a] + reserved[a] + held[a]]
           G == [a \in Accounts |-> free'[a] + reserved'[a] + held'[a]]
<1>4. \A a \in Accounts : /\ f[a] \in Int /\ g[a] \in Int /\ held[a] \in Int
                          /\ F[a] = f[a] + held[a] /\ G[a] = g[a] + held[a]
  BY <1>2, <1>3
<1>5. /\ Wealth = SumFunctionOnSet(F, Accounts) /\ Wealth' = SumFunctionOnSet(G, Accounts)
      /\ Funds = SumFunctionOnSet(f, Accounts) /\ Funds' = SumFunctionOnSet(g, Accounts)
  BY DEF Wealth, Funds, SumFunction
<1> HIDE DEF f, g, F, G
<1>6. SumFunctionOnSet(F, Accounts) = SumFunctionOnSet(f, Accounts) + SumFunctionOnSet(held, Accounts)
  BY <1>3, <1>4, SumPlus
<1>7. SumFunctionOnSet(G, Accounts) = SumFunctionOnSet(g, Accounts) + SumFunctionOnSet(held, Accounts)
  BY <1>3, <1>4, SumPlus
<1> QED BY <1>1, <1>2, <1>5, <1>6, <1>7

-----------------------------------------------------------------------------
(* The market's invariant. *)

(***************************************************************************)
(* What keeps settlement possible besides the mempool's own invariant: no  *)
(* balance is locked, the spec of an order stays registered, and an        *)
(* account with anything reserved or held keeps the existential deposit.   *)
(***************************************************************************)
MarketInductive ==
  /\ MempoolInductive /\ HoldsInductive
  /\ Wealth = SumFunction(InitialFree)
  /\ locked = {}
  /\ \A o \in OrderIds : JobOrders[o] # None => JobOrders[o].terms.spec_id \in JobSpecs
  /\ \A a \in Accounts : reserved[a] > 0 \/ held[a] > 0 => free[a] >= ExistentialDeposit

LEMMA MarketStarts == MarketInit => MarketInductive
<1> SUFFICES ASSUME MarketInit PROVE MarketInductive
  OBVIOUS
<1>1. MempoolInductive
  BY MempoolInit DEF MarketInit
<1>2. /\ ProgramOwner = [h \in Programs |-> None] /\ ProgramDeposit = [h \in Programs |-> None]
      /\ held = [a \in Accounts |-> 0] /\ programs = {} /\ locked = {}
      /\ free = InitialFree /\ reserved = [a \in Accounts |-> 0]
      /\ JobOrders = [o \in OrderIds |-> None]
  BY DEF MarketInit, Init
<1>3. ASSUME NEW a \in Accounts PROVE held[a] = Deposited(a)
  <2>1. Owned(a) = {}
    BY <1>2, MarketAssumption DEF Owned
  <2> QED BY <1>2, <2>1, SumEmpty DEF Deposited
<1>4. HoldsInductive
  BY <1>2, <1>3 DEF HoldsInductive
<1>5. Wealth = SumFunction(InitialFree)
  <2>1. [a \in Accounts |-> free[a] + reserved[a] + held[a]] = InitialFree
    BY <1>2, LedgerAssumption
  <2> QED BY <2>1 DEF Wealth
<1> QED BY <1>1, <1>2, <1>4, <1>5 DEF MarketInductive

LEMMA MarketStep == MarketInductive /\ [MarketNext]_marketVars => MarketInductive'
<1> SUFFICES ASSUME MarketInductive, [MarketNext]_marketVars PROVE MarketInductive'
  OBVIOUS
<1>1. MempoolInductive /\ HoldsInductive /\ Wealth = SumFunction(InitialFree) /\ locked = {}
  BY DEF MarketInductive
<1>2. /\ free \in [Accounts -> Nat] /\ reserved \in [Accounts -> Int] /\ held \in [Accounts -> Nat]
      /\ ExistentialDeposit \in Nat
  BY <1>1, BoundsAssumption DEF MempoolInductive, MoneyInductive, HoldsInductive
<1>3. CASE MempoolTurn
  <2>1. MempoolInductive' /\ HoldsInductive' /\ Wealth' = Wealth
    BY <1>1, <1>3, MempoolHolds
  <2>2. locked' = {} /\ held' = held
    BY <1>1, <1>3 DEF MempoolTurn, externalVars, xqvmVars
  <2>3. \A o \in OrderIds : JobOrders'[o] # None => JobOrders'[o].terms.spec_id \in JobSpecs'
    <3>1. [Next]_vars /\ JobSpecs \subseteq JobSpecs'
      BY <1>3 DEF MempoolTurn
    <3> QED BY <1>1, <3>1, TermsStay DEF MarketInductive
  <2>4. /\ free' \in [Accounts -> Nat] /\ reserved' \in [Accounts -> Int]
    BY <2>1 DEF MempoolInductive, MoneyInductive
  <2>5. \A a \in Accounts : \/ free'[a] >= ExistentialDeposit
                            \/ free'[a] >= free[a] /\ reserved'[a] <= reserved[a]
    BY <1>1, <1>3, MoneyMoves DEF MempoolTurn
  <2>6. \A a \in Accounts : reserved'[a] > 0 \/ held'[a] > 0 => free'[a] >= ExistentialDeposit
    BY <1>2, <2>2, <2>4, <2>5 DEF MarketInductive
  <2> QED BY <1>1, <2>1, <2>2, <2>3, <2>6 DEF MarketInductive
<1>4. CASE XqvmCall
  <2>1. /\ HoldsInductive' /\ Wealth' = Wealth
        /\ free' \in [Accounts -> Nat] /\ UNCHANGED mempoolRest
        /\ \A a \in Accounts : \/ free'[a] >= ExistentialDeposit
                               \/ free'[a] >= free[a] /\ held'[a] <= held[a]
    <3>1. CASE \E who \in Authors, h \in Programs : store_program(who, h)
      BY <1>1, <3>1, StoreHolds
    <3>2. CASE \E h \in Programs : ProgramOwner[h] # None /\ do_remove(h, ProgramOwner[h])
      BY <1>1, <3>2, RemoveHolds
    <3>3. CASE \E who \in Authors, h \in Programs : remove_program(who, h)
      BY <3>2, <3>3, MarketAssumption DEF remove_program
    <3>4. CASE \E h \in Programs : evict_program(h)
      BY <3>2, <3>4 DEF evict_program
    <3> QED BY <1>4, <3>1, <3>3, <3>4 DEF XqvmCall
  <2>2. MempoolInductive'
    BY <1>1, <2>1, MempoolAside DEF mempoolRest
  <2>3. locked' = {} /\ reserved' = reserved /\ JobOrders' = JobOrders /\ JobSpecs' = JobSpecs
    BY <1>1, <2>1 DEF mempoolRest, orderVars, registryVars
  <2>4. held' \in [Accounts -> Nat]
    BY <2>1 DEF HoldsInductive
  <2>5. \A a \in Accounts : reserved'[a] > 0 \/ held'[a] > 0 => free'[a] >= ExistentialDeposit
    BY <1>2, <2>1, <2>3, <2>4 DEF MarketInductive
  <2> QED BY <1>1, <2>1, <2>2, <2>3, <2>5 DEF MarketInductive
<1> QED BY <1>3, <1>4, MarketSteps

LEMMA MarketInvariant == MarketSpec => []MarketInductive
  BY MarketStarts, MarketStep, PTL DEF MarketSpec

(***************************************************************************)
(* The deposits of pallet-xqvm, for every number of accounts, programs and *)
(* orders and every deposit rate: store_program, remove_program and        *)
(* evict_program keep the three maps and the holds in step, each removal   *)
(* gives back all that was recorded, and neither they nor the mempool's    *)
(* escrow calls on the same balances create or destroy funds.              *)
(***************************************************************************)
THEOREM DepositsCorrect == MarketSpec => []DepositsBackPrograms
<1>1. MarketInductive => DepositsBackPrograms
  BY DEF MarketInductive, HoldsInductive, DepositsBackPrograms, Deposited, Wealth
<1> QED BY <1>1, MarketInvariant, PTL

LEMMA NothingBlocks ==
  ASSUME RewardsCoverDeposits
  PROVE  MarketInductive => SettlementNeverBlocked
<1> SUFFICES ASSUME MarketInductive, NEW o \in OrderIds, JobOrders[o] # None,
                    JobOrders[o].status = "Expired"
             PROVE  \/ ClaimAccepted(o) /\ KeepsAlive(o)
                    \/ ReclaimAccepted(JobOrders[o].proposer, o)
  BY DEF SettlementNeverBlocked
<1>1. PICK p \in Accounts : p = JobOrders[o].proposer
  BY DEF MarketInductive, MempoolInductive, TypeOK, Order
<1>2. PICK r \in Nat : r = JobOrders[o].terms.reward
  BY RewardIsNat DEF MarketInductive, MempoolInductive, RewardOf
<1>3. Unsettled(o) /\ JobOrders[o].solution_count \in Nat
  BY DEF Unsettled, MarketInductive, MempoolInductive, TypeOK, Order
<1>4. reserved[p] >= r
  BY <1>1, <1>2, <1>3, ReserveCovers DEF MarketInductive, MempoolInductive, RewardOf
<1>5. CASE JobOrders[o].solution_count = 0
  BY <1>1, <1>2, <1>4, <1>5 DEF ReclaimAccepted
<1>6. CASE JobOrders[o].solution_count > 0
  <2>1. PICK pay : pay = compute_payouts(o)
    OBVIOUS
  <2>2. /\ HasRanking(o) /\ PayoutTotal(pay) = r
        /\ \A i \in DOMAIN pay : pay[i].amount >= ExistentialDeposit
    <3>1. SolvedOrderIsPayable
      BY PayableFollows DEF MarketInductive, MempoolInductive
    <3> QED BY <1>2, <1>3, <1>6, <2>1, <3>1 DEF SolvedOrderIsPayable
  <2>3. AmountFor(pay, p) \in Nat
    <3>1. Distributed(pay, StoredRanking(o), RewardOf(o))
      BY <2>1, <2>2, PayoutsDistribute DEF MarketInductive, MempoolInductive
    <3> QED BY <3>1 DEF Distributed
  <2>4. \A i \in DOMAIN pay : CanTransfer(p, pay[i].solver, pay[i].amount)
    <3> SUFFICES ASSUME NEW i \in DOMAIN pay, pay[i].solver # p
                 PROVE  p \notin locked /\ free[pay[i].solver] + pay[i].amount >= ExistentialDeposit
      BY DEF CanTransfer
    <3>1. /\ StoredRanking(o) \in Seq(Ranked)
          /\ Splits(pay, StoredRanking(o), RewardOf(o),
                    RewardOf(o) \div Triangle(Len(StoredRanking(o))))
      BY <2>1, <2>2, PayoutsSplit DEF MarketInductive, MempoolInductive
    <3>2. PICK R : R = StoredRanking(o)
      OBVIOUS
    <3>3. R \in Seq(Ranked) /\ i \in 1..Len(R) /\ pay[i].solver = R[i].solver /\ pay[i].amount \in Nat
      BY <3>1, <3>2 DEF Splits
    <3>4. R[i] \in Ranked
      BY <3>3
    <3>5. free[pay[i].solver] \in Nat
      BY <3>3, <3>4 DEF Ranked, MarketInductive, MempoolInductive, MoneyInductive
    <3>6. pay[i].amount >= ExistentialDeposit
      BY <2>2
    <3>7. p \notin locked
      BY DEF MarketInductive
    <3> QED BY <3>3, <3>5, <3>6, <3>7, BoundsAssumption
  <2>5. ClaimAccepted(o)
    <3>1. JobOrders[o].terms.spec_id \in JobSpecs
      BY DEF MarketInductive
    <3>2. Claimable(JobOrders[o])
      BY <1>6 DEF Claimable
    <3> QED BY <1>1, <1>2, <1>4, <2>1, <2>2, <2>4, <3>1, <3>2 DEF ClaimAccepted
  <2>6. KeepsAlive(o)
    <3> SUFFICES ASSUME reserved[p] > r \/ held[p] > 0
                 PROVE  free[p] + AmountFor(pay, p) + r - PayoutTotal(pay) >= ExistentialDeposit
      BY <1>1, <1>2, <2>1 DEF KeepsAlive
    <3>1. reserved[p] \in Int /\ free[p] \in Nat
      BY DEF MarketInductive, MempoolInductive, MoneyInductive
    <3>2. free[p] >= ExistentialDeposit
      BY <3>1 DEF MarketInductive
    <3> QED BY <2>2, <2>3, <3>1, <3>2, BoundsAssumption
  <2> QED BY <2>5, <2>6
<1> QED BY <1>3, <1>5, <1>6

(***************************************************************************)
(* Settlement is never blocked, for every number of orders, accounts and   *)
(* programs: with a minimum reward as large as the runtime's, claim_reward *)
(* accepts every expired solved order and reclaim_order every unsolved     *)
(* one, whichever programs were removed or evicted meanwhile and whatever  *)
(* else of the proposer's balance is reserved or held.                     *)
(***************************************************************************)
THEOREM SettlementOpen ==
  ASSUME RewardsCoverDeposits
  PROVE  MarketSpec => []SettlementNeverBlocked
  BY NothingBlocks, MarketInvariant, PTL

(***************************************************************************)
(* The mempool's guarantees survive the sharing of programs and balances   *)
(* with pallet-xqvm: queue, ranking, payments and payees stay right.       *)
(***************************************************************************)
THEOREM MarketKeepsMempool ==
  MarketSpec => [](QueueSound /\ RankingIsTrue /\ PaidAsAnnounced /\ PayeesMeetRequirement)
<1>1. MarketInductive => QueueSound /\ PayeesMeetRequirement
  BY DEF MarketInductive, MempoolInductive, QueueSound, PayeesInductive
<1>2. MarketInductive => RankingIsTrue /\ PaidAsAnnounced
  BY RankingFollows, PaidFollows DEF MarketInductive, MempoolInductive
<1> QED BY <1>1, <1>2, MarketInvariant, PTL

-----------------------------------------------------------------------------
(* A chain that upgraded: what the migration leaves is as good as genesis. *)

\* Everything of MempoolInductive but the money: a wipe leaves reserves nobody backs.
UpgradeInductive ==
  /\ TypeOK /\ QueueInductive /\ NoEarlyFinalisation /\ RankingInductive /\ PayeesInductive
  /\ hooked => now > 0

LEMMA LegacyIsOrder ==
  ASSUME NEW who \in Proposers, NEW order \in LegacyOrder(who)
  PROVE  /\ order \in Order /\ order # None /\ order.status = "Opened"
         /\ order.created_at <= UpgradeBlock /\ order.terms \in LegacyTerms
         /\ order.solution_count = IF order.first_solution_at = None THEN 0 ELSE 1
<1>1. PICK t \in LegacyTerms, c \in 1..UpgradeBlock, f \in 1..UpgradeBlock \cup {None} :
        order = [proposer |-> who, terms |-> t, status |-> "Opened", created_at |-> c,
                 first_solution_at |-> f, solution_count |-> IF f = None THEN 0 ELSE 1]
  <2>1. order \in LegacyOrders(who)
    BY DEF LegacyOrder
  <2> QED BY ONLY <2>1 DEF LegacyOrders
<1>2. who \in Accounts /\ t \in Terms /\ c \in Nat /\ f \in Nat \cup {None}
  BY LegacyAssumption, BoundsAssumption
<1>3. order \in Order
  BY <1>1, <1>2 DEF Order, Statuses
<1> QED BY <1>1, <1>3, NoneAssumption, LegacyAssumption

\* A bucket of expiry_bucket is the order's expiry, or the next block.
LEMMA BucketBounds ==
  ASSUME TypeOK, NEW x \in Nat
  PROVE  /\ expiry_bucket(x) \in Nat /\ expiry_bucket(x) >= x /\ expiry_bucket(x) >= now + 1
         /\ x > now => expiry_bucket(x) = x
  BY DEF TypeOK, expiry_bucket

\* The migrated orders are those with the first ids.
LEMMA MigratedIds ==
  ASSUME NEW version \in {1, 2}, NEW who \in Proposers, NEW n \in OrderIds,
         NEW book \in [0..n -> LegacyOrder(who)]
  PROVE  LET kept == Kept(version, book) IN
         /\ DOMAIN kept \subseteq OrderIds
         /\ \A o \in DOMAIN kept : kept[o] \in LegacyOrder(who)
         /\ Cardinality(DOMAIN kept) \in Nat
         /\ \A o \in OrderIds : o \in DOMAIN kept <=> o < Cardinality(DOMAIN kept)
<1>1. CASE version = 1
  <2>1. Kept(version, book) = << >> /\ DOMAIN << >> = {} /\ Cardinality({}) = 0
    BY <1>1, FS_EmptySet DEF Kept
  <2> QED BY <2>1, OrderIdsAssumption
<1>2. CASE version = 2
  <2>1. Kept(version, book) = book /\ DOMAIN book = 0..n /\ n \in Nat
    BY <1>2, OrderIdsAssumption DEF Kept
  <2>2. Cardinality(0..n) = n + 1
    BY <2>1, FS_Interval
  <2>3. 0..n \subseteq OrderIds
    BY LegacyAssumption
  <2> QED BY <2>1, <2>2, <2>3, OrderIdsAssumption
<1> QED BY <1>1, <1>2

LEMMA UpgradeStarts ==
  ASSUME NEW version \in {1, 2}, NEW who \in Proposers, NEW solver \in Miners, NEW n \in OrderIds,
         NEW book \in [0..n -> LegacyOrder(who)],
         on_runtime_upgrade(version, book, who, solver)
  PROVE  TypeOK /\ QueueInductive /\ NoEarlyFinalisation /\ RankingInductive /\ PayeesInductive
<1>1. PICK kept, D : kept = Kept(version, book) /\ D = DOMAIN kept
  OBVIOUS
<1>2. /\ D \subseteq OrderIds /\ Cardinality(D) \in Nat
      /\ \A o \in D : kept[o] \in LegacyOrder(who)
      /\ \A o \in OrderIds : o \in D <=> o < Cardinality(D)
  BY <1>1, MigratedIds
<1>3. /\ now = UpgradeBlock /\ NextOrderId = Cardinality(D) /\ OpenOrders = D
      /\ JobOrders = [o \in OrderIds |-> IF o \in D THEN kept[o] ELSE None]
      /\ OrdersExpiringAt = {<<expiry_bucket(effective_expiry(kept[o])), o>> : o \in D}
      /\ NextExpiryBucket = now + 1
      /\ OrderPayeeRequirements = [o \in OrderIds |-> None]
      /\ OrderPayees = [o \in OrderIds |-> [s \in Accounts |-> None]]
  BY <1>1 DEF on_runtime_upgrade, index_open_orders_for_expiry
<1>4. \A o \in D : /\ JobOrders[o] = kept[o] /\ kept[o] \in Order /\ kept[o] # None
                   /\ kept[o].status = "Opened" /\ kept[o].created_at <= now
                   /\ kept[o].terms \in LegacyTerms
                   /\ kept[o].solution_count = IF kept[o].first_solution_at = None THEN 0 ELSE 1
  BY <1>2, <1>3, LegacyIsOrder
<1>5. \A o \in OrderIds \ D : JobOrders[o] = None
  BY <1>3
<1>6. now \in Nat /\ \A o \in D : effective_expiry(kept[o]) \in Nat /\ hard_deadline(kept[o]) \in Nat
  BY <1>3, <1>4, LegacyAssumption, ExpiryIsNat
<1>7. TypeOK
  <2>1. JobOrders \in [OrderIds -> Order \cup {None}]
    BY <1>3, <1>4
  <2>2. \A o \in D : expiry_bucket(effective_expiry(kept[o])) \in Nat
    BY <1>6 DEF expiry_bucket
  <2>3. OrdersExpiringAt \subseteq Nat \X OrderIds
    BY <1>2, <1>3, <2>2
  <2> QED BY <1>2, <1>3, <1>6, <2>1, <2>3 DEF TypeOK
<1>8. OpenOrders = {o \in OrderIds : IsOpen(o)}
  BY <1>2, <1>3, <1>4, <1>5 DEF IsOpen
<1>9. QueueInductive
  <2>1. IdsAllocated
    BY <1>2, <1>3, <1>4, <1>5 DEF IdsAllocated
  <2>2. \A o \in OrderIds : JobOrders[o] # None => JobOrders[o].created_at <= now
    BY <1>4, <1>5
  <2>3. \A e \in OrdersExpiringAt : Movable(e) => e[1] = hard_deadline(JobOrders[e[2]])
    <3> SUFFICES ASSUME NEW o \in D, kept[o].first_solution_at = None, now < hard_deadline(kept[o])
                 PROVE  expiry_bucket(effective_expiry(kept[o])) = hard_deadline(kept[o])
      BY <1>3, <1>4 DEF Movable
    <3>1. effective_expiry(kept[o]) = hard_deadline(kept[o])
      BY DEF effective_expiry
    <3> QED BY <1>6, <1>7, <3>1, BucketBounds
  <2>4. \A e \in OrdersExpiringAt : IsOpen(e[2])
    <3> TAKE e \in OrdersExpiringAt
    <3>1. PICK o \in D : e = <<expiry_bucket(effective_expiry(kept[o])), o>>
      BY <1>3
    <3>2. e[2] = o
      BY <3>1
    <3> QED BY <1>4, <3>2 DEF IsOpen
  <2>5. ASSUME NEW o \in OpenOrders PROVE Scheduled(o)
    <3>1. PICK e : e = <<expiry_bucket(effective_expiry(kept[o])), o>>
      OBVIOUS
    <3>2. o \in D /\ e \in OrdersExpiringAt /\ e[2] = o /\ e[1] = expiry_bucket(effective_expiry(kept[o]))
      BY <1>3, <3>1
    <3>3. \A d \in OrdersExpiringAt : d[2] = o => d = e
      BY <1>3, <3>1
    <3>4. /\ e[1] >= NextExpiryBucket /\ e[1] >= effective_expiry(JobOrders[o])
          /\ e[1] <= expiry_bucket(effective_expiry(JobOrders[o]))
      BY <1>3, <1>4, <1>6, <1>7, <3>2, BucketBounds
    <3> QED BY <3>2, <3>3, <3>4 DEF Scheduled
  <2>6. QueueHoldsOpenOrders
    BY <1>8, <2>4, <2>5 DEF QueueHoldsOpenOrders
  <2>7. NextExpiryBucket <= now + 1
    BY <1>3, <1>6
  <2> QED BY <2>1, <2>2, <2>3, <2>6, <2>7 DEF QueueInductive
<1>10. NoEarlyFinalisation
  BY <1>2, <1>4, <1>5 DEF NoEarlyFinalisation, IsOpen
<1>11. PayeesInductive
  BY <1>3 DEF PayeesInductive, PayeesMeetRequirement, Participants
<1>12. RankingInductive
  <2>1. PICK top : top = RankedSolver(solver, LegacyEnergy)
    OBVIOUS
  <2>2. /\ solver \in Accounts /\ top \in Ranked /\ top.solver = solver /\ top.energy = LegacyEnergy
        /\ LegacyEnergy \in Int /\ LegacyEnergy # None /\ top # None
    BY <2>1, BoundsAssumption, LegacyAssumption, NoneAssumption DEF RankedSolver, Ranked
  <2> DEFINE Solved(o) == o \in D /\ kept[o].first_solution_at # None
             SingleBest(o) == kept[o].terms.resolution.kind = "SingleBest"
  <2>3. /\ OrderSolutions = [o \in OrderIds |-> [s \in Accounts |->
             IF Solved(o) /\ s = solver THEN LegacyEnergy ELSE None]]
        /\ OrderFrontRunner = [o \in OrderIds |-> IF Solved(o) /\ SingleBest(o) THEN top ELSE None]
        /\ OrderTopSolvers = [o \in OrderIds |-> IF Solved(o) /\ ~SingleBest(o) THEN << top >> ELSE << >>]
        /\ arrival = [o \in OrderIds |-> {}]
    BY <1>1, <2>1 DEF on_runtime_upgrade
  <2>4. << top >> \in Seq(Ranked) /\ << >> \in Seq(Ranked)
    BY <2>2
  <2>5. RankTypes
    BY <2>2, <2>3, <2>4 DEF RankTypes
  <2>6. \A o \in OrderIds : Participants(o) = IF Solved(o) THEN {solver} ELSE {}
    BY <2>2, <2>3 DEF Participants
  <2>7. \A o \in OrderIds : JobOrders[o] = None => Untouched(o)
    BY <1>4, <2>3, <2>6 DEF Untouched
  <2>8. ASSUME NEW o \in OrderIds, JobOrders[o] # None PROVE RankedTruly(o)
    <3>1. o \in D /\ JobOrders[o] = kept[o] /\ kept[o].terms \in LegacyTerms
      BY <1>4, <1>5, <2>8
    <3>2. PICK m : m = RankLimit(JobOrders[o].terms)
      OBVIOUS
    <3>3. m \in Nat \ {0} /\ (m <= MAX_REWARD_WINNERS \/ SingleBest(o))
      BY <3>1, <3>2, LegacyAssumption, BoundsAssumption DEF RankLimit, ensure_valid_resolution
    <3>4. PICK R : R = IF Solved(o) THEN << top >> ELSE << >>
      OBVIOUS
    <3>5. StoredRanking(o) = R
      BY <2>2, <2>3, <3>1, <3>4 DEF StoredRanking
    <3>6. Scored(Participants(o), OrderSolutions[o], arrival[o])
      BY <2>3, <2>5 DEF Scored, Participants, RankTypes
    <3>7. JobOrders[o].solution_count = Cardinality(Participants(o))
      <4>1. Cardinality({}) = 0 /\ Cardinality({solver}) = 1
        BY FS_EmptySet, FS_Singleton
      <4>2. kept[o].solution_count = IF Solved(o) THEN 1 ELSE 0
        BY <1>4, <3>1
      <4> HIDE DEF Solved
      <4> QED BY <2>6, <3>1, <4>1, <4>2
    <3>8. TrueRanking(R, Participants(o), OrderSolutions[o], arrival[o], m)
      <4>1. CASE ~Solved(o)
        BY <2>4, <2>6, <3>3, <3>4, <4>1 DEF TrueRanking
      <4>2. CASE Solved(o)
        <5>1. R = << top >> /\ Len(R) = 1 /\ R[1] = top /\ Participants(o) = {solver}
              /\ OrderSolutions[o][solver] = LegacyEnergy
          BY <2>2, <2>3, <2>6, <3>4, <4>2
        <5> QED BY <2>2, <2>4, <3>3, <5>1 DEF TrueRanking
      <4> QED BY <4>1, <4>2
    <3> QED BY <3>1, <3>2, <3>3, <3>5, <3>6, <3>7, <3>8 DEF RankedTruly
  <2> QED BY <2>5, <2>7, <2>8 DEF RankingInductive
<1> QED BY <1>7, <1>9, <1>10, <1>11, <1>12

\* Every step after the upgrade is a step of the mempool.
LEMMA UpgradeSteps ==
  UpgradeInductive /\ [UpgradeNext]_upgradeVars => [Next]_vars /\ (hooked' => now' > 0)
<1> SUFFICES ASSUME UpgradeInductive, [UpgradeNext]_upgradeVars
             PROVE  [Next]_vars /\ (hooked' => now' > 0)
  OBVIOUS
<1>1. CASE Block
  BY <1>1 DEF Block, Next, on_initialize, UpgradeInductive, TypeOK
<1>2. CASE hooked /\ (Calls \/ External) /\ UNCHANGED hooked
  <2>1. Next /\ now > 0
    BY <1>2 DEF UpgradeInductive, Next
  <2>2. now' = now
    <3>1. CASE Calls
      BY <3>1 DEF Calls, register_solver, deregister_solver, register_job_spec, propose_job,
                  propose_job_with_payee_requirement, do_propose_job, submit_solution,
                  claim_reward, reclaim_order, purge_result
    <3> QED BY <1>2, <3>1 DEF External
  <2> QED BY <2>1, <2>2
<1>3. CASE UNCHANGED upgradeVars
  BY <1>3 DEF upgradeVars, vars, UpgradeInductive
<1> QED BY <1>1, <1>2, <1>3 DEF UpgradeNext

LEMMA UpgradeInvariant == UpgradeSpec => []UpgradeInductive
<1>1. UpgradeInit => UpgradeInductive
  <2>1. Init => MempoolInductive
    BY MempoolInit
  <2> QED BY <2>1, UpgradeStarts DEF UpgradeInit, UpgradeInductive, MempoolInductive
<1>2. UpgradeInductive /\ [UpgradeNext]_upgradeVars => UpgradeInductive'
  <2> SUFFICES ASSUME UpgradeInductive, [UpgradeNext]_upgradeVars PROVE UpgradeInductive'
    OBVIOUS
  <2>1. [Next]_vars /\ (hooked' => now' > 0)
    BY UpgradeSteps
  <2>2. TypeOK' /\ QueueInductive' /\ IdsAllocated
    BY <2>1, TypeOKInductive, QueueInductiveStep DEF UpgradeInductive, QueueInductive
  <2>3. NoEarlyFinalisation'
    BY <2>1, <2>2, NoEarlyStep DEF UpgradeInductive
  <2>4. RankingInductive' /\ PayeesInductive'
    BY <2>1, <2>2, RankingStep, PayeesStep DEF UpgradeInductive
  <2> QED BY <2>1, <2>2, <2>3, <2>4 DEF UpgradeInductive
<1> QED BY <1>1, <1>2, PTL DEF UpgradeSpec

(***************************************************************************)
(* On an upgraded chain, whatever orders the old runtime left open, from   *)
(* version 1 or 2: the queue that index_open_orders_for_expiry builds      *)
(* loses none of them, none is finalised early, and it stays exact under   *)
(* everything that follows.                                                *)
(***************************************************************************)
THEOREM UpgradeKeepsQueue == UpgradeSpec => []QueueSound
<1>1. UpgradeInductive => QueueSound
  BY DEF UpgradeInductive, QueueSound
<1> QED BY <1>1, UpgradeInvariant, PTL

(***************************************************************************)
(* Nor does the backlog of an upgraded chain decide anything: an expired   *)
(* order's outcome is frozen while it waits, and buckets are drained in    *)
(* order.                                                                  *)
(***************************************************************************)
THEOREM UpgradeBacklog == UpgradeSpec => BacklogIsHarmless
  BY BacklogStep, UpgradeSteps, UpgradeInvariant, PTL
  DEF UpgradeSpec, UpgradeInductive, BacklogIsHarmless, OutcomeFrozenAtExpiry, FinalisedInBucketOrder

(***************************************************************************)
(* The orders the old runtime left keep their rightful winners: the stored *)
(* ranking is the true one from the first block of the new runtime on, and *)
(* payee requirements are met.                                             *)
(***************************************************************************)
THEOREM UpgradeKeepsRanking == UpgradeSpec => [](RankingIsTrue /\ PayeesMeetRequirement)
<1>1. UpgradeInductive => RankingIsTrue /\ PayeesMeetRequirement
  BY RankingFollows DEF UpgradeInductive, PayeesInductive
<1> QED BY <1>1, UpgradeInvariant, PTL
=============================================================================
