------------------------ MODULE ComputeMempool_proofs ------------------------
(***************************************************************************)
(* ComputeMempool proved for every number of orders, accounts, solvers and *)
(* winners and every budget.  The expiry queue: TypeOK, the inductive      *)
(* QueueInductive, its corollary QueueHoldsOpenOrders, and                 *)
(* NoEarlyFinalisation.  From a submission to the payout: the ranking      *)
(* update_ranking maintains is the true one, the payouts of                *)
(* compute_payouts split the reward exactly, the escrow backs the          *)
(* unsettled orders, what is paid is what was announced, payees meet the   *)
(* requirement, and a backlog decides nothing.                             *)
(***************************************************************************)
EXTENDS ComputeMempool, FiniteSums, SequenceTheorems, TLAPS

\* A call that touches neither the orders nor the queue nor the clock.
QueueUntouched == UNCHANGED <<now, JobOrders, NextOrderId, queueVars>>

\* register_solver, deregister_solver, register_job_spec, purge_result and the
\* environment leave the order queue alone.
LEMMA OtherCallsLeaveQueue ==
  ASSUME \/ \E who \in Miners, ty \in MinerTypes : register_solver(who, ty)
         \/ \E who \in Miners : deregister_solver(who)
         \/ \E spec \in Specs : register_job_spec(spec)
         \/ \E o \in OrderIds : purge_result(o)
         \/ External
         \/ UNCHANGED vars
  PROVE  QueueUntouched
  BY DEF register_solver, deregister_solver, register_job_spec, purge_result,
         External, vars, orderVars, queueVars, QueueUntouched

\* Two propose calls, one body.
LEMMA ProposeForms ==
  ASSUME \/ \E who \in Proposers, t \in Terms : propose_job(who, t)
         \/ \E who \in Proposers, t \in Terms, c \in Chains :
              propose_job_with_payee_requirement(who, t, c)
  PROVE  \E who \in Proposers, t \in Terms : \E c : do_propose_job(who, t, c)
  BY DEF propose_job, propose_job_with_payee_requirement

\* The queue-relevant part of each kind of step.
LEMMA StepForms ==
  ASSUME [Next]_vars
  PROVE  \/ QueueUntouched
         \/ \E who \in Proposers, t \in Terms : \E c : do_propose_job(who, t, c)
         \/ \E who \in Miners, o \in OrderIds, s \in Submissions, p \in Payees \cup {None} :
              submit_solution(who, o, s, p)
         \/ \E o \in OrderIds : claim_reward(o)
         \/ \E who \in Proposers, o \in OrderIds : reclaim_order(who, o)
         \/ on_initialize
  BY OtherCallsLeaveQueue, ProposeForms DEF Next, Calls

-----------------------------------------------------------------------------
\* The bucket arithmetic of lifecycle.rs stays in the naturals.
LEMMA ExpiryIsNat ==
  ASSUME NEW order \in Order
  PROVE  /\ hard_deadline(order) \in Nat
         /\ effective_expiry(order) \in Nat
         /\ effective_expiry(order) <= hard_deadline(order)
  BY TermsAssumption, NoneAssumption DEF Order, hard_deadline, effective_expiry

\* do_propose_job stores a well-formed order under a fresh id.
LEMMA ProposeStores ==
  ASSUME TypeOK, NEW who \in Proposers, NEW t \in Terms, NEW c, do_propose_job(who, t, c)
  PROVE  LET new == [proposer |-> who, terms |-> t, status |-> "Opened", created_at |-> now,
                     first_solution_at |-> None, solution_count |-> 0]
         IN /\ new \in Order
            /\ NextOrderId \in OrderIds
            /\ JobOrders' = [JobOrders EXCEPT ![NextOrderId] = new]
            /\ OpenOrders' = OpenOrders \cup {NextOrderId}
            /\ OrdersExpiringAt' = OrdersExpiringAt
                 \cup {<<expiry_bucket(now + t.deadline_blocks), NextOrderId>>}
            /\ expiry_bucket(now + t.deadline_blocks) \in Nat
            /\ NextOrderId' = NextOrderId + 1
            /\ now' = now /\ NextExpiryBucket' = NextExpiryBucket
  BY TermsAssumption, BoundsAssumption
  DEF TypeOK, do_propose_job, Order, Statuses, expiry_bucket

\* Updating the two fields submit_solution_inner touches keeps an order an order.
LEMMA OrderUpdate ==
  ASSUME NEW order \in Order, NEW c \in Nat, NEW f \in Nat \cup {None}
  PROVE  LET after == [order EXCEPT !.solution_count = c, !.first_solution_at = f]
         IN /\ after \in Order
            /\ after.terms = order.terms /\ after.created_at = order.created_at
            /\ after.status = order.status /\ after.first_solution_at = f
  BY DEF Order

\* submit_solution only updates the order it is for, and keeps it open.
LEMMA SubmitStores ==
  ASSUME TypeOK, NEW who \in Miners, NEW o \in OrderIds, NEW s, NEW p,
         submit_solution(who, o, s, p)
  PROVE  \E after \in Order :
            /\ JobOrders[o] \in Order /\ JobOrders[o] # None /\ IsOpen(o)
            /\ ~is_expired(now, JobOrders[o])
            /\ JobOrders' = [JobOrders EXCEPT ![o] = after]
            /\ after.terms = JobOrders[o].terms
            /\ after.created_at = JobOrders[o].created_at
            /\ after.status = "Opened"
            /\ after.first_solution_at =
                 IF JobOrders[o].first_solution_at = None THEN now
                                                          ELSE JobOrders[o].first_solution_at
            /\ MoveExpiry(o, JobOrders[o], after)
            /\ now' = now /\ NextExpiryBucket' = NextExpiryBucket
            /\ OpenOrders' = OpenOrders /\ NextOrderId' = NextOrderId
  <1> DEFINE order == JobOrders[o]
             after == [order EXCEPT
                  !.solution_count = IF OrderSolutions[o][who] = None THEN @ + 1 ELSE @,
                  !.first_solution_at = IF @ = None THEN now ELSE @]
  <1>1. order \in Order /\ order # None /\ IsOpen(o) /\ ~is_expired(now, order)
    BY DEF submit_solution, AcceptsSolutions, TypeOK, IsOpen
  <1>2. after \in Order /\ after.terms = order.terms /\ after.created_at = order.created_at
        /\ after.status = "Opened"
        /\ after.first_solution_at = IF order.first_solution_at = None THEN now
                                                                       ELSE order.first_solution_at
    <2> DEFINE count == IF OrderSolutions[o][who] = None THEN order.solution_count + 1
                                                         ELSE order.solution_count
               first == IF order.first_solution_at = None THEN now ELSE order.first_solution_at
    <2>1. count \in Nat /\ first \in Nat \cup {None} /\ order.status = "Opened"
      BY <1>1 DEF Order, TypeOK, IsOpen
    <2>2. after = [order EXCEPT !.solution_count = count, !.first_solution_at = first]
      OBVIOUS
    <2> HIDE DEF count, first, after, order
    <2>3. after \in Order /\ after.terms = order.terms /\ after.created_at = order.created_at
          /\ after.status = "Opened" /\ after.first_solution_at = first
      <3> DEFINE upd == [order EXCEPT !.solution_count = count, !.first_solution_at = first]
      <3>1. /\ upd \in Order
            /\ upd.terms = order.terms /\ upd.created_at = order.created_at
            /\ upd.status = order.status /\ upd.first_solution_at = first
        BY <1>1, <2>1, OrderUpdate
      <3> HIDE DEF upd
      <3> QED BY <2>1, <2>2, <3>1 DEF upd
    <2> QED BY <2>3 DEF first
  <1>3. JobOrders' = [JobOrders EXCEPT ![o] = after] /\ MoveExpiry(o, order, after)
    BY DEF submit_solution, AcceptSubmission
  <1>4. now' = now /\ NextExpiryBucket' = NextExpiryBucket
        /\ OpenOrders' = OpenOrders /\ NextOrderId' = NextOrderId
    BY DEF submit_solution
  <1> HIDE DEF after
  <1> QED BY <1>1, <1>2, <1>3, <1>4

\* Both settlement calls close one expired order.
LEMMA SettleStores ==
  ASSUME TypeOK,
         \/ \E o \in OrderIds : claim_reward(o)
         \/ \E who \in Proposers, o \in OrderIds : reclaim_order(who, o)
  PROVE  \E o \in OrderIds :
            /\ JobOrders[o] \in Order /\ JobOrders[o] # None
            /\ JobOrders[o].status = "Expired"
            /\ JobOrders' = [JobOrders EXCEPT ![o].status = "Closed"]
            /\ OpenOrders' = OpenOrders \ {o}
            /\ UNCHANGED <<now, NextOrderId, OrdersExpiringAt, NextExpiryBucket>>
  BY DEF TypeOK, claim_reward, ClaimAccepted, Claimable, reclaim_order, ReclaimAccepted,
         CloseOrder

(***************************************************************************)
(* A block drains some entries with bucket in NextExpiryBucket..now+1,     *)
(* among them every entry before the new cursor.                           *)
(***************************************************************************)
LEMMA BlockDrains ==
  ASSUME TypeOK, on_initialize
  PROVE  \E next \in Nat, drained \in SUBSET OrdersExpiringAt :
            /\ now' = now + 1 /\ NextOrderId' = NextOrderId
            /\ NextExpiryBucket' = next /\ next >= NextExpiryBucket
            /\ next <= now + 2 \/ next = NextExpiryBucket
            /\ OrdersExpiringAt' = OrdersExpiringAt \ drained
            /\ \A e \in drained : e[1] <= now + 1 /\ e[1] <= next
            /\ \A e \in OrdersExpiringAt :
                 e[1] >= NextExpiryBucket /\ e[1] < next => e \in drained
            /\ JobOrders' = [o \in OrderIds |->
                 IF o \in Finalised(drained) THEN [JobOrders[o] EXCEPT !.status = "Expired"]
                                             ELSE JobOrders[o]]
            /\ OpenOrders' = OpenOrders \ Finalised(drained)
  <1>1. PICK next \in NextExpiryBucket..(IF NextExpiryBucket > now + 1
                                          THEN NextExpiryBucket ELSE now + 1 + 1) :
        \E drained \in SUBSET EntriesIn(NextExpiryBucket, next) :
          /\ DrainTo(now + 1, next, drained)
          /\ OrdersExpiringAt' = OrdersExpiringAt \ drained
          /\ NextExpiryBucket' = next
          /\ FinaliseOrders(Finalised(drained))
    BY DEF on_initialize, finalise_expired_orders
  <1>2. PICK drained \in SUBSET EntriesIn(NextExpiryBucket, next) :
          /\ DrainTo(now + 1, next, drained)
          /\ OrdersExpiringAt' = OrdersExpiringAt \ drained
          /\ NextExpiryBucket' = next
          /\ FinaliseOrders(Finalised(drained))
    BY <1>1
  <1>3. next \in Nat /\ next >= NextExpiryBucket /\ (next <= now + 2 \/ next = NextExpiryBucket)
    BY <1>1 DEF TypeOK
  <1>4. drained \subseteq OrdersExpiringAt
    BY <1>2 DEF EntriesIn
  <1>5. EntriesIn(NextExpiryBucket, next - 1) \subseteq drained
    BY <1>2 DEF DrainTo
  <1>6. \A e \in OrdersExpiringAt :
           e[1] >= NextExpiryBucket /\ e[1] < next => e \in drained
    BY <1>3, <1>5 DEF EntriesIn, TypeOK
  <1>7. \A e \in drained : e[1] <= now + 1
    <2>1. CASE drained = EntriesIn(NextExpiryBucket, next - 1)
      BY <2>1, <1>3 DEF EntriesIn, TypeOK
    <2>2. CASE next <= now + 1
      BY <2>2, <1>2, <1>3 DEF EntriesIn, TypeOK
    <2>3. QED BY <2>1, <2>2, <1>2 DEF DrainTo
  <1>8. /\ JobOrders' = [o \in OrderIds |->
                 IF o \in Finalised(drained) THEN [JobOrders[o] EXCEPT !.status = "Expired"]
                                             ELSE JobOrders[o]]
        /\ OpenOrders' = OpenOrders \ Finalised(drained)
    BY <1>2 DEF FinaliseOrders
  <1>9. now' = now + 1 /\ NextOrderId' = NextOrderId
    BY DEF on_initialize
  <1>10. \A e \in drained : e[1] <= next
    BY <1>2 DEF EntriesIn
  <1> QED BY <1>2, <1>3, <1>4, <1>6, <1>7, <1>8, <1>9, <1>10

-----------------------------------------------------------------------------
LEMMA TypeOKInductive == TypeOK /\ [Next]_vars => TypeOK'
  <1> SUFFICES ASSUME TypeOK, [Next]_vars PROVE TypeOK'
    OBVIOUS
  <1>1. CASE QueueUntouched
    BY <1>1 DEF QueueUntouched, queueVars, TypeOK
  <1>2. CASE \E who \in Proposers, t \in Terms : \E c : do_propose_job(who, t, c)
    <2>0. PICK who \in Proposers, t \in Terms : \E c : do_propose_job(who, t, c)
      BY <1>2
    <2>1. PICK c : do_propose_job(who, t, c)
      BY <2>0
    <2>2. /\ now' = now /\ NextOrderId' = NextOrderId + 1
          /\ NextExpiryBucket' = NextExpiryBucket
          /\ OpenOrders' = OpenOrders \cup {NextOrderId} /\ NextOrderId \in OrderIds
          /\ \E b \in Nat : OrdersExpiringAt' = OrdersExpiringAt \cup {<<b, NextOrderId>>}
          /\ \E new \in Order : JobOrders' = [JobOrders EXCEPT ![NextOrderId] = new]
      BY <2>1, ProposeStores
    <2> QED BY <2>2 DEF TypeOK
  <1>3. CASE \E who \in Miners, o \in OrderIds, s \in Submissions, p \in Payees \cup {None} :
               submit_solution(who, o, s, p)
    <2>1. PICK who \in Miners, o \in OrderIds, s \in Submissions, p \in Payees \cup {None} :
             submit_solution(who, o, s, p)
      BY <1>3
    <2>2. PICK after \in Order :
             /\ JobOrders' = [JobOrders EXCEPT ![o] = after]
             /\ MoveExpiry(o, JobOrders[o], after)
             /\ now' = now /\ NextExpiryBucket' = NextExpiryBucket
             /\ OpenOrders' = OpenOrders /\ NextOrderId' = NextOrderId
      BY <2>1, SubmitStores
    <2>3. expiry_bucket(effective_expiry(after)) \in Nat
      BY ExpiryIsNat DEF expiry_bucket, TypeOK
    <2>4. OrdersExpiringAt' \subseteq Nat \X OrderIds
      BY <2>2, <2>3 DEF MoveExpiry, TypeOK
    <2> QED BY <2>2, <2>4 DEF TypeOK
  <1>4. CASE \/ \E o \in OrderIds : claim_reward(o)
             \/ \E who \in Proposers, o \in OrderIds : reclaim_order(who, o)
    <2>1. PICK o \in OrderIds :
            /\ JobOrders[o] \in Order
            /\ JobOrders' = [JobOrders EXCEPT ![o].status = "Closed"]
            /\ OpenOrders' = OpenOrders \ {o}
            /\ UNCHANGED <<now, NextOrderId, OrdersExpiringAt, NextExpiryBucket>>
      BY <1>4, SettleStores
    <2>2. [JobOrders[o] EXCEPT !.status = "Closed"] \in Order
      BY <2>1 DEF Order, Statuses
    <2>3. JobOrders' \in [OrderIds -> Order \cup {None}]
      BY <2>1, <2>2 DEF TypeOK
    <2> QED BY <2>1, <2>3 DEF TypeOK
  <1>5. CASE on_initialize
    <2>1. PICK next \in Nat, drained \in SUBSET OrdersExpiringAt :
            /\ now' = now + 1 /\ NextOrderId' = NextOrderId
            /\ NextExpiryBucket' = next
            /\ OrdersExpiringAt' = OrdersExpiringAt \ drained
            /\ JobOrders' = [o \in OrderIds |->
                 IF o \in Finalised(drained) THEN [JobOrders[o] EXCEPT !.status = "Expired"]
                                             ELSE JobOrders[o]]
            /\ OpenOrders' = OpenOrders \ Finalised(drained)
      BY <1>5, BlockDrains
    <2>2. \A o \in OrderIds : o \in Finalised(drained) =>
             [JobOrders[o] EXCEPT !.status = "Expired"] \in Order
      BY DEF Finalised, IsOpen, TypeOK, Order, Statuses
    <2>3. JobOrders' \in [OrderIds -> Order \cup {None}]
      BY <2>1, <2>2 DEF TypeOK
    <2> QED BY <2>1, <2>3 DEF TypeOK
  <1> QED BY <1>1, <1>2, <1>3, <1>4, <1>5, StepForms

\* Every storage item keeps its type under every call, block and external step.
THEOREM TypeCorrect == Spec => []TypeOK
  <1>1. Init => TypeOK
    BY DEF Init, TypeOK
  <1> QED BY <1>1, TypeOKInductive, PTL DEF Spec

-----------------------------------------------------------------------------
LEMMA ProposeKeepsQueue ==
  ASSUME TypeOK, QueueInductive,
         NEW who \in Proposers, NEW t \in Terms, NEW c, do_propose_job(who, t, c)
  PROVE  QueueInductive'
  <1> DEFINE n == NextOrderId
             new == [proposer |-> who, terms |-> t, status |-> "Opened", created_at |-> now,
                     first_solution_at |-> None, solution_count |-> 0]
             b == expiry_bucket(now + t.deadline_blocks)
  <1>1. /\ new \in Order /\ n \in OrderIds /\ b \in Nat
        /\ JobOrders' = [JobOrders EXCEPT ![n] = new]
        /\ OpenOrders' = OpenOrders \cup {n}
        /\ OrdersExpiringAt' = OrdersExpiringAt \cup {<<b, n>>}
        /\ NextOrderId' = n + 1 /\ now' = now /\ NextExpiryBucket' = NextExpiryBucket
    BY ProposeStores
  <1>2. /\ hard_deadline(new) = now + t.deadline_blocks
        /\ effective_expiry(new) = now + t.deadline_blocks
        /\ b >= now + 1 /\ b >= effective_expiry(new)
        /\ b = IF effective_expiry(new) > now + 1 THEN effective_expiry(new) ELSE now + 1
        /\ now < hard_deadline(new) => b = hard_deadline(new)
    BY TermsAssumption
    DEF hard_deadline, effective_expiry, expiry_bucket, TypeOK
  <1>3. /\ new.created_at = now /\ new.first_solution_at = None /\ new.status = "Opened"
        /\ new # None
    BY <1>1, NoneAssumption
  <1>4. JobOrders[n] = None /\ \A e \in OrdersExpiringAt : e[2] # n
    BY <1>1, OrderIdsAssumption DEF QueueInductive, IdsAllocated, QueueHoldsOpenOrders, IsOpen, TypeOK
  <1> HIDE DEF new, b
  <1>5. \A o \in OrderIds : /\ o # n => JobOrders'[o] = JobOrders[o]
                            /\ JobOrders'[n] = new
    BY <1>1 DEF TypeOK
  <1>6. IdsAllocated'
    BY <1>1, <1>3, <1>5, OrderIdsAssumption DEF QueueInductive, IdsAllocated, TypeOK
  <1>7. \A o \in OrderIds : JobOrders'[o] # None => JobOrders'[o].created_at <= now'
    BY <1>1, <1>3, <1>5 DEF QueueInductive, TypeOK
  <1>8. \A e \in OrdersExpiringAt' :
           /\ Movable(e)' => e[1] = hard_deadline(JobOrders'[e[2]])
           /\ IsOpen(e[2])'
    BY <1>1, <1>2, <1>3, <1>4, <1>5
    DEF QueueInductive, QueueHoldsOpenOrders, IsOpen, Movable, TypeOK
  <1>9. OpenOrders' = {o \in OrderIds : IsOpen(o)'}
    BY <1>1, <1>3, <1>5 DEF QueueInductive, QueueHoldsOpenOrders, IsOpen, TypeOK
  <1>10. ASSUME NEW o \in OpenOrders' PROVE Scheduled(o)'
    <2>1. CASE o = n
      <3>1. <<b, n>> \in OrdersExpiringAt' /\ \A d \in OrdersExpiringAt' : d[2] = n => d = <<b, n>>
        BY <1>1, <1>4
      <3>2. b >= NextExpiryBucket'
        BY <1>1, <1>2 DEF QueueInductive, TypeOK
      <3> DEFINE bucket == IF effective_expiry(JobOrders'[o]) > now' + 1
                             THEN effective_expiry(JobOrders'[o]) ELSE now' + 1
      <3>3. b <= bucket /\ b >= effective_expiry(JobOrders'[o])
        BY <1>1, <1>2, <1>5, <2>1
      <3> HIDE DEF bucket
      <3>4. expiry_bucket(effective_expiry(JobOrders[o]))' = bucket
        BY DEF expiry_bucket, effective_expiry, hard_deadline, bucket
      <3> QED BY <2>1, <3>1, <3>2, <3>3, <3>4 DEF Scheduled
    <2>2. CASE o # n
      <3>1. o \in OpenOrders /\ o \in OrderIds
        BY <1>1, <1>10, <2>2 DEF TypeOK
      <3>2. PICK e \in OrdersExpiringAt :
              /\ e[2] = o /\ (\A d \in OrdersExpiringAt : d[2] = o => d = e)
              /\ e[1] >= NextExpiryBucket /\ e[1] >= effective_expiry(JobOrders[o])
              /\ e[1] <= expiry_bucket(effective_expiry(JobOrders[o]))
        BY <3>1 DEF QueueInductive, QueueHoldsOpenOrders, Scheduled
      <3>3. \A d \in OrdersExpiringAt' : d[2] = o => d = e
        BY <1>1, <2>2, <3>2
      <3> QED BY <1>1, <1>5, <2>2, <3>1, <3>2, <3>3 DEF Scheduled, expiry_bucket
    <2> QED BY <2>1, <2>2
  <1> QED BY <1>1, <1>6, <1>7, <1>8, <1>9, <1>10 DEF QueueInductive, QueueHoldsOpenOrders

LEMMA SubmitKeepsQueue ==
  ASSUME TypeOK, QueueInductive, NEW who \in Miners, NEW o \in OrderIds, NEW s, NEW p,
         submit_solution(who, o, s, p)
  PROVE  QueueInductive'
  <1> DEFINE order == JobOrders[o]
  <1>1. PICK after \in Order :
            /\ order \in Order /\ order # None /\ IsOpen(o)
            /\ ~is_expired(now, order)
            /\ JobOrders' = [JobOrders EXCEPT ![o] = after]
            /\ after.terms = order.terms /\ after.created_at = order.created_at
            /\ after.status = "Opened"
            /\ after.first_solution_at = IF order.first_solution_at = None
                                           THEN now ELSE order.first_solution_at
            /\ MoveExpiry(o, order, after)
            /\ now' = now /\ NextExpiryBucket' = NextExpiryBucket
            /\ OpenOrders' = OpenOrders /\ NextOrderId' = NextOrderId
    BY SubmitStores
  <1>2. after # None /\ after.first_solution_at # None /\ after.first_solution_at \in Nat
    BY <1>1, NoneAssumption DEF Order, TypeOK
  <1>3. /\ hard_deadline(after) = hard_deadline(order) /\ hard_deadline(order) \in Nat
        /\ effective_expiry(after) \in Nat /\ effective_expiry(order) \in Nat
    BY <1>1, ExpiryIsNat DEF hard_deadline
  <1>4. PICK e \in OrdersExpiringAt :
           /\ e[2] = o /\ (\A d \in OrdersExpiringAt : d[2] = o => d = e)
           /\ e[1] >= NextExpiryBucket /\ e[1] >= effective_expiry(order)
           /\ e[1] <= expiry_bucket(effective_expiry(order))
    BY <1>1 DEF QueueInductive, QueueHoldsOpenOrders, Scheduled
  <1>5. \A q \in OrderIds : /\ q # o => JobOrders'[q] = JobOrders[q]
                            /\ JobOrders'[o] = after
    BY <1>1 DEF TypeOK
  <1>6. \A q \in OrderIds : IsOpen(q)' <=> IsOpen(q)
    BY <1>1, <1>2, <1>5 DEF IsOpen
  <1>7. \E f \in OrdersExpiringAt' :
           /\ OrdersExpiringAt' = (OrdersExpiringAt \ {e}) \cup {f}
           /\ f[2] = o /\ f[1] >= NextExpiryBucket /\ f[1] >= effective_expiry(after)
           /\ f[1] <= expiry_bucket(effective_expiry(after))
    <2>1. CASE order.first_solution_at = None /\ effective_expiry(after) < hard_deadline(after)
      <3>1. now < hard_deadline(order) /\ order.created_at <= now
        BY <1>1, <1>3, <2>1 DEF is_expired, effective_expiry, QueueInductive, TypeOK
      <3>2. e[1] = hard_deadline(order)
        BY <1>4, <2>1, <3>1 DEF QueueInductive, Movable
      <3>3. e = <<hard_deadline(order), o>>
        BY <1>4, <3>2 DEF TypeOK
      <3> DEFINE f == <<expiry_bucket(effective_expiry(after)), o>>
      <3>4. OrdersExpiringAt' = (OrdersExpiringAt \ {e}) \cup {f}
        BY <1>1, <1>3, <2>1, <3>3 DEF MoveExpiry
      <3>5. /\ f[1] >= now + 1 /\ f[1] >= effective_expiry(after) /\ f[1] \in Nat
            /\ f[1] <= expiry_bucket(effective_expiry(after))
        BY <1>3 DEF expiry_bucket, TypeOK
      <3>6. f[1] >= NextExpiryBucket
        BY <3>5 DEF QueueInductive, TypeOK
      <3> QED BY <3>4, <3>5, <3>6
    <2>2. CASE ~(order.first_solution_at = None /\ effective_expiry(after) < hard_deadline(after))
      <3>1. OrdersExpiringAt' = OrdersExpiringAt
        BY <1>1, <2>2 DEF MoveExpiry
      <3>2. effective_expiry(after) = effective_expiry(order)
        <4>1. CASE order.first_solution_at = None
          <5>1. effective_expiry(order) = hard_deadline(order)
            BY <4>1 DEF effective_expiry
          <5>2. effective_expiry(after) <= hard_deadline(after)
            BY ExpiryIsNat
          <5> QED BY <1>3, <2>2, <4>1, <5>1, <5>2
        <4>2. CASE order.first_solution_at # None
          BY <1>1, <4>2 DEF effective_expiry, hard_deadline
        <4> QED BY <4>1, <4>2
      <3> QED BY <1>4, <3>1, <3>2
    <2> QED BY <2>1, <2>2
  <1>8. PICK f \in OrdersExpiringAt' :
           /\ OrdersExpiringAt' = (OrdersExpiringAt \ {e}) \cup {f}
           /\ f[2] = o /\ f[1] >= NextExpiryBucket /\ f[1] >= effective_expiry(after)
           /\ f[1] <= expiry_bucket(effective_expiry(after))
    BY <1>7
  <1>9. IdsAllocated'
    BY <1>1, <1>2, <1>5 DEF QueueInductive, IdsAllocated
  <1>10. \A q \in OrderIds : JobOrders'[q] # None => JobOrders'[q].created_at <= now'
    BY <1>1, <1>5 DEF QueueInductive
  <1>11. \A d \in OrdersExpiringAt' :
           /\ Movable(d)' => d[1] = hard_deadline(JobOrders'[d[2]])
           /\ IsOpen(d[2])'
    BY <1>1, <1>2, <1>4, <1>5, <1>6, <1>8 DEF QueueInductive, QueueHoldsOpenOrders, Movable, TypeOK
  <1>12. OpenOrders' = {q \in OrderIds : IsOpen(q)'}
    BY <1>1, <1>6 DEF QueueInductive, QueueHoldsOpenOrders
  <1>13. ASSUME NEW q \in OpenOrders' PROVE Scheduled(q)'
    <2>1. CASE q = o
      BY <1>1, <1>4, <1>5, <1>8, <2>1 DEF Scheduled, expiry_bucket
    <2>2. CASE q # o
      <3>1. q \in OpenOrders /\ q \in OrderIds
        BY <1>1, <1>13 DEF TypeOK
      <3>2. PICK g \in OrdersExpiringAt :
              /\ g[2] = q /\ (\A d \in OrdersExpiringAt : d[2] = q => d = g)
              /\ g[1] >= NextExpiryBucket /\ g[1] >= effective_expiry(JobOrders[q])
              /\ g[1] <= expiry_bucket(effective_expiry(JobOrders[q]))
        BY <3>1 DEF QueueInductive, QueueHoldsOpenOrders, Scheduled
      <3>3. g \in OrdersExpiringAt' /\ \A d \in OrdersExpiringAt' : d[2] = q => d = g
        BY <1>4, <1>8, <2>2, <3>2
      <3> QED BY <1>1, <1>5, <2>2, <3>1, <3>2, <3>3 DEF Scheduled, expiry_bucket
    <2> QED BY <2>1, <2>2
  <1> QED BY <1>1, <1>9, <1>10, <1>11, <1>12, <1>13 DEF QueueInductive, QueueHoldsOpenOrders

LEMMA SettleKeepsQueue ==
  ASSUME TypeOK, QueueInductive,
         \/ \E o \in OrderIds : claim_reward(o)
         \/ \E who \in Proposers, o \in OrderIds : reclaim_order(who, o)
  PROVE  QueueInductive'
  <1>1. PICK o \in OrderIds :
            /\ JobOrders[o] \in Order /\ JobOrders[o] # None
            /\ JobOrders[o].status = "Expired"
            /\ JobOrders' = [JobOrders EXCEPT ![o].status = "Closed"]
            /\ OpenOrders' = OpenOrders \ {o}
            /\ UNCHANGED <<now, NextOrderId, OrdersExpiringAt, NextExpiryBucket>>
    BY SettleStores
  <1>2. [JobOrders[o] EXCEPT !.status = "Closed"] \in Order
    BY <1>1 DEF Order, Statuses
  <1>3. /\ \A q \in OrderIds : q # o => JobOrders'[q] = JobOrders[q]
        /\ JobOrders'[o] = [JobOrders[o] EXCEPT !.status = "Closed"]
    BY <1>1 DEF TypeOK
  <1>4. /\ JobOrders'[o].created_at = JobOrders[o].created_at
        /\ JobOrders'[o].status = "Closed" /\ JobOrders'[o] # None
    BY <1>1, <1>2, <1>3, NoneAssumption DEF Order
  <1>5. o \notin OpenOrders /\ \A e \in OrdersExpiringAt : e[2] # o
    BY <1>1 DEF QueueInductive, QueueHoldsOpenOrders, IsOpen
  <1>6. \A q \in OrderIds : IsOpen(q)' <=> IsOpen(q)
    BY <1>1, <1>3, <1>4 DEF IsOpen
  <1>7. IdsAllocated'
    BY <1>1, <1>3, <1>4 DEF QueueInductive, IdsAllocated
  <1>8. \A q \in OrderIds : JobOrders'[q] # None => JobOrders'[q].created_at <= now'
    BY <1>1, <1>3, <1>4 DEF QueueInductive
  <1>9. \A e \in OrdersExpiringAt' :
           /\ Movable(e)' => e[1] = hard_deadline(JobOrders'[e[2]])
           /\ IsOpen(e[2])'
    BY <1>1, <1>3, <1>5, <1>6 DEF QueueInductive, QueueHoldsOpenOrders, Movable, TypeOK
  <1>10. OpenOrders' = {q \in OrderIds : IsOpen(q)'} /\ OpenOrders' = OpenOrders
    BY <1>1, <1>5, <1>6 DEF QueueInductive, QueueHoldsOpenOrders
  <1>11. \A q \in OpenOrders' : Scheduled(q)'
    BY <1>1, <1>3, <1>5, <1>10
    DEF QueueInductive, QueueHoldsOpenOrders, Scheduled, expiry_bucket, TypeOK
  <1> QED BY <1>1, <1>7, <1>8, <1>9, <1>10, <1>11 DEF QueueInductive, QueueHoldsOpenOrders

\* Expiring an order touches its status alone.
LEMMA StatusUpdate ==
  ASSUME NEW order \in Order, NEW st \in Statuses
  PROVE  LET after == [order EXCEPT !.status = st]
         IN /\ after \in Order /\ after # None /\ after.status = st
            /\ after.created_at = order.created_at
            /\ after.first_solution_at = order.first_solution_at
            /\ effective_expiry(after) = effective_expiry(order)
  BY NoneAssumption DEF Order, effective_expiry, hard_deadline

LEMMA BlockKeepsQueue ==
  ASSUME TypeOK, QueueInductive, on_initialize
  PROVE  QueueInductive'
  <1>1. PICK next \in Nat, drained \in SUBSET OrdersExpiringAt :
            /\ now' = now + 1 /\ NextOrderId' = NextOrderId
            /\ NextExpiryBucket' = next /\ next >= NextExpiryBucket
            /\ next <= now + 2 \/ next = NextExpiryBucket
            /\ OrdersExpiringAt' = OrdersExpiringAt \ drained
            /\ \A e \in OrdersExpiringAt :
                 e[1] >= NextExpiryBucket /\ e[1] < next => e \in drained
            /\ JobOrders' = [o \in OrderIds |->
                 IF o \in Finalised(drained) THEN [JobOrders[o] EXCEPT !.status = "Expired"]
                                             ELSE JobOrders[o]]
            /\ OpenOrders' = OpenOrders \ Finalised(drained)
    BY BlockDrains
  <1> DEFINE F == Finalised(drained)
  <1>2. F = {e[2] : e \in drained} /\ F \subseteq OrderIds /\ \A o \in F : IsOpen(o)
    BY DEF Finalised, QueueInductive, QueueHoldsOpenOrders, TypeOK
  <1>3. \A o \in OrderIds :
          /\ o \notin F => JobOrders'[o] = JobOrders[o]
          /\ o \in F => /\ JobOrders'[o] # None /\ ~IsOpen(o)'
                        /\ JobOrders[o] # None
                        /\ JobOrders'[o].created_at = JobOrders[o].created_at
    <2> SUFFICES ASSUME NEW o \in OrderIds, o \in F
                 PROVE  /\ JobOrders'[o] # None /\ ~IsOpen(o)'
                        /\ JobOrders[o] # None
                        /\ JobOrders'[o].created_at = JobOrders[o].created_at
      BY <1>1
    <2>1. JobOrders[o] \in Order /\ JobOrders[o] # None
      BY <1>2 DEF IsOpen, TypeOK
    <2> DEFINE after == [JobOrders[o] EXCEPT !.status = "Expired"]
    <2>2. after # None /\ after.status = "Expired" /\ after.created_at = JobOrders[o].created_at
      BY <2>1, StatusUpdate DEF Statuses
    <2>3. JobOrders'[o] = after
      BY <1>1
    <2> HIDE DEF after
    <2> QED BY <2>1, <2>2, <2>3 DEF IsOpen
  <1> HIDE DEF F
  <1>4. \A e \in OrdersExpiringAt' : e[2] \in OrderIds /\ e[2] \notin F /\ IsOpen(e[2])
    <2> SUFFICES ASSUME NEW e \in OrdersExpiringAt, e \notin drained
                 PROVE  e[2] \in OrderIds /\ e[2] \notin F /\ IsOpen(e[2])
      BY <1>1
    <2>1. e[2] \in OrderIds /\ IsOpen(e[2]) /\ e[2] \in OpenOrders
      BY DEF QueueInductive, QueueHoldsOpenOrders, TypeOK
    <2>2. \A d \in OrdersExpiringAt : d[2] = e[2] => d = e
      BY <2>1 DEF QueueInductive, QueueHoldsOpenOrders, Scheduled
    <2> QED BY <1>2, <2>1, <2>2
  <1>5. IdsAllocated'
    BY <1>1, <1>3 DEF QueueInductive, IdsAllocated
  <1>6. NextExpiryBucket' <= now' + 1
    BY <1>1 DEF QueueInductive, TypeOK
  <1>7. \A o \in OrderIds : JobOrders'[o] # None => JobOrders'[o].created_at <= now'
    <2> SUFFICES ASSUME NEW o \in OrderIds, JobOrders'[o] # None
                 PROVE  JobOrders'[o].created_at <= now'
      OBVIOUS
    <2>1. JobOrders[o] # None /\ JobOrders'[o].created_at = JobOrders[o].created_at
      BY <1>3
    <2>2. JobOrders[o].created_at <= now /\ JobOrders[o].created_at \in Nat
      BY <2>1 DEF QueueInductive, TypeOK, Order
    <2> QED BY <1>1, <2>1, <2>2 DEF TypeOK
  <1>8. \A e \in OrdersExpiringAt' :
           /\ Movable(e)' => e[1] = hard_deadline(JobOrders'[e[2]])
           /\ IsOpen(e[2])'
    <2> SUFFICES ASSUME NEW e \in OrdersExpiringAt'
                 PROVE  /\ Movable(e)' => e[1] = hard_deadline(JobOrders'[e[2]])
                        /\ IsOpen(e[2])'
      OBVIOUS
    <2>1. JobOrders'[e[2]] = JobOrders[e[2]] /\ IsOpen(e[2]) /\ e \in OrdersExpiringAt
      BY <1>1, <1>3, <1>4
    <2>2. hard_deadline(JobOrders[e[2]]) \in Nat
      BY <1>4, <2>1, ExpiryIsNat DEF IsOpen, TypeOK
    <2>3. Movable(e)' => Movable(e)
      BY <1>1, <2>1, <2>2 DEF Movable, TypeOK
    <2> QED BY <2>1, <2>3 DEF QueueInductive, IsOpen
  <1>9. OpenOrders' = {o \in OrderIds : IsOpen(o)'}
    BY <1>1, <1>2, <1>3 DEF QueueInductive, QueueHoldsOpenOrders, IsOpen, F
  <1>10. ASSUME NEW o \in OpenOrders' PROVE Scheduled(o)'
    <2>1. o \in OpenOrders /\ o \in OrderIds /\ o \notin F
      BY <1>1, <1>10 DEF TypeOK, F
    <2>2. PICK e \in OrdersExpiringAt :
            /\ e[2] = o /\ (\A d \in OrdersExpiringAt : d[2] = o => d = e)
            /\ e[1] >= NextExpiryBucket /\ e[1] >= effective_expiry(JobOrders[o])
            /\ e[1] <= expiry_bucket(effective_expiry(JobOrders[o]))
      BY <2>1 DEF QueueInductive, QueueHoldsOpenOrders, Scheduled
    <2>3. e \notin drained
      BY <1>2, <2>1, <2>2
    <2>4. e \in OrdersExpiringAt' /\ e[1] >= next
      BY <1>1, <2>2, <2>3 DEF TypeOK
    <2>5. effective_expiry(JobOrders[o]) \in Nat
      BY <2>1, ExpiryIsNat DEF QueueInductive, QueueHoldsOpenOrders, IsOpen, TypeOK
    <2>6. e[1] <= expiry_bucket(effective_expiry(JobOrders[o]))'
      BY <1>1, <1>3, <2>1, <2>2, <2>5 DEF expiry_bucket, TypeOK
    <2> QED BY <1>1, <1>3, <2>1, <2>2, <2>4, <2>6 DEF Scheduled
  <1> QED BY <1>5, <1>6, <1>7, <1>8, <1>9, <1>10 DEF QueueInductive, QueueHoldsOpenOrders

LEMMA QueueInductiveStep == TypeOK /\ QueueInductive /\ [Next]_vars => QueueInductive'
  <1> SUFFICES ASSUME TypeOK, QueueInductive, [Next]_vars PROVE QueueInductive'
    OBVIOUS
  <1>1. CASE QueueUntouched
    BY <1>1 DEF QueueUntouched, queueVars, QueueInductive, QueueHoldsOpenOrders, IdsAllocated,
                IsOpen, Scheduled, Movable, expiry_bucket
  <1> QED BY <1>1, StepForms, ProposeKeepsQueue, SubmitKeepsQueue, SettleKeepsQueue,
             BlockKeepsQueue

(***************************************************************************)
(* The expiry queue is exact in every reachable state, whatever the number *)
(* of orders and the per-block budget: finalise_expired_orders loses no    *)
(* order and never meets a stale entry.                                    *)
(***************************************************************************)
THEOREM QueueCorrect == Spec => [](QueueInductive /\ QueueHoldsOpenOrders)
  <1>1. Init => QueueInductive
    BY OrderIdsAssumption
    DEF Init, QueueInductive, QueueHoldsOpenOrders, IdsAllocated, IsOpen
  <1>2. QueueInductive => QueueHoldsOpenOrders
    BY DEF QueueInductive
  <1> QED BY <1>1, <1>2, QueueInductiveStep, TypeCorrect, PTL DEF Spec

-----------------------------------------------------------------------------
\* Once past its closing time an order stays past it.
LEMMA ExpiredStays ==
  ASSUME TypeOK, NEW order \in Order, is_expired(now, order), now' \in Nat, now' >= now
  PROVE  is_expired(now', order)
  BY ExpiryIsNat DEF is_expired, TypeOK

LEMMA NoEarlyStep ==
  TypeOK /\ TypeOK' /\ QueueInductive /\ NoEarlyFinalisation /\ [Next]_vars => NoEarlyFinalisation'
  <1> SUFFICES ASSUME TypeOK, TypeOK', QueueInductive, NoEarlyFinalisation, [Next]_vars,
                      NEW o \in OrderIds, JobOrders'[o] # None, ~IsOpen(o)'
               PROVE  is_expired(now', JobOrders'[o])
    BY DEF NoEarlyFinalisation
  <1>1. CASE QueueUntouched
    BY <1>1 DEF QueueUntouched, NoEarlyFinalisation, IsOpen
  <1>2. CASE \E who \in Proposers, t \in Terms : \E c : do_propose_job(who, t, c)
    <2>1. PICK new \in Order : /\ new.status = "Opened" /\ NextOrderId \in OrderIds
                               /\ JobOrders' = [JobOrders EXCEPT ![NextOrderId] = new]
                               /\ now' = now
      BY <1>2, ProposeStores
    <2>2. o # NextOrderId /\ JobOrders'[o] = JobOrders[o]
      BY <2>1 DEF IsOpen, TypeOK
    <2> QED BY <2>1, <2>2 DEF NoEarlyFinalisation, IsOpen
  <1>3. CASE \E who \in Miners, q \in OrderIds, s \in Submissions, p \in Payees \cup {None} :
               submit_solution(who, q, s, p)
    <2>1. PICK q \in OrderIds, after \in Order :
             /\ JobOrders' = [JobOrders EXCEPT ![q] = after]
             /\ after.status = "Opened" /\ now' = now
      BY <1>3, SubmitStores
    <2>2. o # q /\ JobOrders'[o] = JobOrders[o]
      BY <2>1 DEF IsOpen, TypeOK
    <2> QED BY <2>1, <2>2 DEF NoEarlyFinalisation, IsOpen
  <1>4. CASE \/ \E q \in OrderIds : claim_reward(q)
             \/ \E who \in Proposers, q \in OrderIds : reclaim_order(who, q)
    <2>1. PICK q \in OrderIds :
            /\ JobOrders[q] \in Order /\ JobOrders[q] # None
            /\ JobOrders[q].status = "Expired"
            /\ JobOrders' = [JobOrders EXCEPT ![q].status = "Closed"]
            /\ now' = now
      BY <1>4, SettleStores
    <2>2. CASE o # q
      BY <2>1, <2>2 DEF NoEarlyFinalisation, IsOpen, TypeOK
    <2>3. CASE o = q
      <3> DEFINE after == [JobOrders[q] EXCEPT !.status = "Closed"]
      <3>1. effective_expiry(after) = effective_expiry(JobOrders[q])
        BY <2>1, StatusUpdate DEF Statuses
      <3>2. JobOrders'[o] = after
        BY <2>1, <2>3 DEF TypeOK
      <3> HIDE DEF after
      <3> QED BY <2>1, <2>3, <3>1, <3>2 DEF NoEarlyFinalisation, IsOpen, is_expired
    <2> QED BY <2>2, <2>3
  <1>5. CASE on_initialize
    <2>1. PICK drained \in SUBSET OrdersExpiringAt :
            /\ now' = now + 1
            /\ \A e \in drained : e[1] <= now + 1
            /\ JobOrders' = [q \in OrderIds |->
                 IF q \in Finalised(drained) THEN [JobOrders[q] EXCEPT !.status = "Expired"]
                                             ELSE JobOrders[q]]
      BY <1>5, BlockDrains
    <2>2. CASE o \in Finalised(drained)
      <3>1. IsOpen(o) /\ JobOrders[o] \in Order /\ o \in OpenOrders
        BY <2>2 DEF Finalised, IsOpen, TypeOK, QueueInductive, QueueHoldsOpenOrders
      <3>2. PICK d \in drained : d[2] = o
        BY <2>2 DEF Finalised
      <3>3. d \in OrdersExpiringAt /\ d[1] \in Nat /\ d[1] <= now + 1
        BY <2>1, <3>2 DEF TypeOK
      <3>4. d[1] >= effective_expiry(JobOrders[o])
        BY <3>1, <3>2, <3>3 DEF QueueInductive, QueueHoldsOpenOrders, Scheduled
      <3> DEFINE after == [JobOrders[o] EXCEPT !.status = "Expired"]
      <3>5. effective_expiry(after) = effective_expiry(JobOrders[o])
        BY <3>1, StatusUpdate DEF Statuses
      <3>6. JobOrders'[o] = after
        BY <2>1, <2>2
      <3>7. effective_expiry(JobOrders[o]) \in Nat
        BY <3>1, ExpiryIsNat
      <3> HIDE DEF after
      <3> QED BY <2>1, <3>3, <3>4, <3>5, <3>6, <3>7 DEF is_expired, TypeOK
    <2>3. CASE o \notin Finalised(drained)
      <3>1. JobOrders'[o] = JobOrders[o]
        BY <2>1, <2>3
      <3>2. JobOrders[o] \in Order /\ is_expired(now, JobOrders[o])
        BY <3>1 DEF NoEarlyFinalisation, IsOpen, TypeOK
      <3> QED BY <2>1, <3>1, <3>2, ExpiredStays DEF TypeOK
    <2> QED BY <2>2, <2>3
  <1> QED BY <1>1, <1>2, <1>3, <1>4, <1>5, StepForms

(***************************************************************************)
(* No order leaves the Opened status before its effective expiry: the      *)
(* bucket an entry sits in is never earlier than the promised block, also  *)
(* after submit_solution moved it.                                         *)
(***************************************************************************)
THEOREM NeverEarly == Spec => []NoEarlyFinalisation
  <1>1. Init => NoEarlyFinalisation
    BY DEF Init, NoEarlyFinalisation
  <1> QED BY <1>1, NoEarlyStep, TypeCorrect, QueueCorrect, PTL DEF Spec

(***************************************************************************)
(* The queue of on_initialize keeps its whole contract (QueueSound): types *)
(* hold, every open order waits in one bucket the cursor has not passed,   *)
(* and nothing is finalised early.                                         *)
(***************************************************************************)
THEOREM QueueStaysSound == Spec => []QueueSound
  <1>1. TypeOK /\ QueueInductive /\ NoEarlyFinalisation => QueueSound
    BY DEF QueueSound
  <1> QED BY <1>1, TypeCorrect, QueueCorrect, NeverEarly, PTL

-----------------------------------------------------------------------------
(* The stable sort of update_ranked_solvers. *)

Ranked == [solver : Accounts, energy : Int]

\* Entry i of s comes before entry j in the stable order.
Precedes(s, i, j) ==
  s[i].energy < s[j].energy \/ (s[i].energy = s[j].energy /\ i < j)

\* StablePosition is the rank in that order.
LEMMA StableRanks ==
  ASSUME NEW s \in Seq(Ranked)
  PROVE  /\ \A i \in 1..Len(s) : StablePosition(s, i) \in 1..Len(s)
         /\ \A i, j \in 1..Len(s) :
              Precedes(s, i, j) <=> StablePosition(s, i) < StablePosition(s, j)
<1> DEFINE D == 1..Len(s)
           Upto(i) == {j \in DOMAIN s : \/ s[j].energy < s[i].energy
                                        \/ s[j].energy = s[i].energy /\ j <= i}
<1>1. DOMAIN s = D /\ Len(s) \in Nat /\ \A i \in D : s[i].energy \in Int
  <2>1. DOMAIN s = D /\ Len(s) \in Nat /\ \A i \in D : s[i] \in Ranked
    OBVIOUS
  <2> QED BY <2>1 DEF Ranked
<1>2. IsFiniteSet(D) /\ Cardinality(D) = Len(s)
  BY <1>1, FS_Interval
<1>3. \A i \in D : /\ Upto(i) \subseteq D /\ i \in Upto(i)
                   /\ IsFiniteSet(Upto(i)) /\ Cardinality(Upto(i)) \in D
  <2> SUFFICES ASSUME NEW i \in D
               PROVE  /\ Upto(i) \subseteq D /\ i \in Upto(i)
                      /\ IsFiniteSet(Upto(i)) /\ Cardinality(Upto(i)) \in D
    OBVIOUS
  <2>1. Upto(i) \subseteq D /\ i \in Upto(i)
    BY <1>1
  <2> HIDE DEF Upto
  <2>2. IsFiniteSet(Upto(i)) /\ Cardinality(Upto(i)) <= Len(s)
    BY <1>2, <2>1, FS_Subset
  <2>3. Cardinality(Upto(i)) \in Nat /\ Cardinality(Upto(i)) # 0
    BY <2>1, <2>2, FS_CardinalityType, FS_EmptySet
  <2> QED BY <1>1, <2>1, <2>2, <2>3
<1>4. \A i, j \in D : Precedes(s, i, j) => Cardinality(Upto(i)) < Cardinality(Upto(j))
  <2> SUFFICES ASSUME NEW i \in D, NEW j \in D, Precedes(s, i, j)
               PROVE  Cardinality(Upto(i)) < Cardinality(Upto(j))
    OBVIOUS
  <2>1. Upto(i) \subseteq Upto(j) /\ j \notin Upto(i) /\ j \in Upto(j)
    BY <1>1 DEF Precedes
  <2> HIDE DEF Upto
  <2>2. Upto(i) # Upto(j)
    BY <2>1
  <2>3. /\ Cardinality(Upto(i)) <= Cardinality(Upto(j))
        /\ Cardinality(Upto(i)) = Cardinality(Upto(j)) => Upto(i) = Upto(j)
    BY <1>3, <2>1, FS_Subset
  <2> QED BY <1>3, <2>2, <2>3
<1>5. \A i, j \in D : Precedes(s, i, j) \/ i = j \/ Precedes(s, j, i)
  BY <1>1 DEF Precedes
<1>6. \A i \in D : StablePosition(s, i) = Cardinality(Upto(i))
  BY DEF StablePosition
<1> HIDE DEF Upto
<1>7. \A i \in D : StablePosition(s, i) \in D
  BY <1>3, <1>6
<1>8. \A i, j \in D : Precedes(s, i, j) => StablePosition(s, i) < StablePosition(s, j)
  BY <1>4, <1>6
<1>9. \A i, j \in D : StablePosition(s, i) < StablePosition(s, j) => Precedes(s, i, j)
  BY <1>1, <1>5, <1>7, <1>8
<1> QED BY <1>7, <1>8, <1>9

\* N is what sorting s and truncating it keeps: the first `limit` entries in the stable
\* order, where entry i of s goes to pos[i].
SortedPrefix(N, s, pos, limit) ==
  /\ N \in Seq(Ranked) /\ Len(N) \in Nat
  /\ Len(N) = IF Len(s) < limit THEN Len(s) ELSE limit
  /\ \A i \in 1..Len(s) : pos[i] \in 1..Len(s)
  /\ \A i, j \in 1..Len(s) : Precedes(s, i, j) <=> pos[i] < pos[j]
  /\ \A k \in 1..Len(N) : \E i \in 1..Len(s) : pos[i] = k /\ N[k] = s[i]
  /\ \A i \in 1..Len(s) : pos[i] <= Len(N) => N[pos[i]] = s[i]
  /\ \A k \in 1..Len(s) : \E i \in 1..Len(s) : pos[i] = k

LEMMA SortedAndCut ==
  ASSUME NEW s \in Seq(Ranked), NEW limit \in Nat
  PROVE  \E pos : SortedPrefix(Truncate(SortByEnergy(s), limit), s, pos, limit)
<1> DEFINE D == 1..Len(s)
           pos == [i \in D |-> StablePosition(s, i)]
           sorted == SortByEnergy(s)
           N == Truncate(sorted, limit)
<1>0. DOMAIN s = D /\ Len(s) \in Nat /\ \A i \in D : s[i] \in Ranked
  OBVIOUS
<1>1. pos \in [D -> D] /\ \A i, j \in D : Precedes(s, i, j) <=> pos[i] < pos[j]
  BY StableRanks
<1>2. \A i, j \in D : pos[i] = pos[j] => i = j
  <2>1. \A i \in D : s[i].energy \in Int
    BY <1>0 DEF Ranked
  <2>2. \A i, j \in D : Precedes(s, i, j) \/ i = j \/ Precedes(s, j, i)
    BY <2>1 DEF Precedes
  <2>3. \A i \in D : pos[i] \in D
    BY <1>1
  <2> HIDE DEF pos
  <2> QED BY <1>0, <1>1, <2>2, <2>3
<1>3. \A k \in D : \E i \in D : pos[i] = k
  <2>1. IsFiniteSet(D)
    BY <1>0, FS_Interval
  <2>2. pos \in Injection(D, D)
    BY <1>1, <1>2 DEF Injection, IsInjective
  <2>3. pos \in Surjection(D, D)
    BY <2>1, <2>2, FS_Injection
  <2> QED BY <2>3 DEF Surjection
<1>4. DOMAIN sorted = D /\ \A k \in D : \E i \in D : pos[i] = k /\ sorted[k] = s[i]
  <2>1. DOMAIN sorted = D
    BY <1>0 DEF SortByEnergy
  <2>2. SUFFICES ASSUME NEW k \in D PROVE \E i \in D : pos[i] = k /\ sorted[k] = s[i]
    BY <2>1
  <2>3. PICK j \in DOMAIN s : StablePosition(s, j) = k
    BY <1>0, <1>3
  <2> DEFINE c == CHOOSE i \in DOMAIN s : StablePosition(s, i) = k
  <2>4. c \in DOMAIN s /\ StablePosition(s, c) = k
    BY <2>3
  <2>5. sorted[k] = s[c]
    BY <1>0 DEF SortByEnergy
  <2> HIDE DEF c, sorted
  <2> QED BY <1>0, <2>4, <2>5
<1>5. \A i \in D : sorted[pos[i]] = s[i]
  <2> TAKE i \in D
  <2>1. pos[i] \in D
    BY <1>1
  <2> HIDE DEF pos, sorted
  <2> QED BY <1>2, <1>4, <2>1
<1>6. \A k \in D : sorted[k] \in Ranked
  <2> TAKE k \in D
  <2>1. PICK i \in D : pos[i] = k
    BY <1>3
  <2>2. s[i] \in Ranked
    BY <1>0
  <2> HIDE DEF sorted, pos
  <2> QED BY <1>5, <2>1, <2>2
<1>7. sorted \in Seq(Ranked) /\ Len(sorted) = Len(s)
  <2>1. DOMAIN sorted = D
    BY <1>4
  <2>2. sorted \in [D -> Ranked]
    <3>1. sorted = [k \in DOMAIN sorted |-> sorted[k]]
      BY DEF SortByEnergy
    <3> HIDE DEF sorted
    <3> QED BY <1>6, <2>1, <3>1
  <2> HIDE DEF sorted
  <2> QED BY <1>0, <2>2
<1> HIDE DEF sorted, pos
<1> DEFINE cut == IF Len(s) < limit THEN Len(s) ELSE limit
<1>8. cut \in 0..Len(s)
  BY <1>0
<1>9. N = SubSeq(sorted, 1, cut)
  BY <1>7 DEF Truncate
<1> HIDE DEF cut, N
<1>10. N \in Seq(Ranked) /\ Len(N) = cut /\ \A k \in 1..cut : N[k] = sorted[k]
  BY <1>0, <1>7, <1>8, <1>9, SubSeqProperties
<1>11. \A k \in 1..Len(N) : \E i \in D : pos[i] = k /\ N[k] = s[i]
  <2> TAKE k \in 1..Len(N)
  <2>1. k \in D /\ N[k] = sorted[k]
    BY <1>0, <1>8, <1>10
  <2>2. PICK i \in D : pos[i] = k
    BY <1>3, <2>1
  <2> QED BY <1>5, <2>1, <2>2
<1>12. \A i \in D : pos[i] <= Len(N) => N[pos[i]] = s[i]
  BY <1>0, <1>1, <1>5, <1>8, <1>10
<1>13. SortedPrefix(N, s, pos, limit)
  <2>1. Len(N) \in Nat /\ \A i \in D : pos[i] \in D
    BY <1>0, <1>1, <1>8, <1>10
  <2> QED BY <1>1, <1>3, <1>10, <1>11, <1>12, <2>1 DEF SortedPrefix, cut
<1> QED BY <1>13 DEF N, sorted

-----------------------------------------------------------------------------
(***************************************************************************)
(* What a ranking has to be, apart from the storage it lives in: R lists   *)
(* the best n of the participants P with their scores, in order; `before`  *)
(* breaks ties.  update_ranked_solvers keeps it so, although it has        *)
(* forgotten everybody who was ever cut off.                               *)
(***************************************************************************)
Beats(score, before, s, r) ==
  score[s] < score[r] \/ (score[s] = score[r] /\ <<s, r>> \in before)

TrueRanking(R, P, score, before, n) ==
  /\ R \in Seq(Ranked) /\ Len(R) <= n
  /\ \A i \in 1..Len(R) : R[i].solver \in P /\ R[i].energy = score[R[i].solver]
  /\ \A i, j \in 1..Len(R) : i < j => Beats(score, before, R[i].solver, R[j].solver)
  /\ \A p \in P : \/ \E i \in 1..Len(R) : R[i].solver = p
                  \/ Len(R) = n /\ \A i \in 1..Len(R) : Beats(score, before, R[i].solver, p)

\* Scores of exactly the participants, and a tie-break that never goes both ways.
Scored(P, score, before) ==
  /\ P = {s \in Accounts : score[s] # None}
  /\ score \in [Accounts -> Int \cup {None}]
  /\ \A s, r \in P : <<s, r>> \in before => <<r, s>> \notin before

\* The scores and the tie-break after c improved to e.
NewScore(score, c, e) == [score EXCEPT ![c] = e]
NewBefore(P, before, c) == {d \in before : c \notin {d[1], d[2]}} \cup ((P \ {c}) \X {c})

\* An accepted submission changes nothing among the others and puts c behind its equals.
Improved(P, score, before, c, e, score2, before2) ==
  /\ Scored(P \cup {c}, score2, before2)
  /\ score2[c] = e
  /\ \A s \in P \ {c} : score2[s] = score[s] /\ score[s] \in Int
  /\ \A s, r \in P \ {c} : Beats(score2, before2, s, r) <=> Beats(score, before, s, r)
  /\ \A s \in P \ {c} : score[s] <= e => Beats(score2, before2, s, c)
  /\ \A s \in P \ {c} : e < score[s] => Beats(score2, before2, c, s)

LEMMA BeatsAfter ==
  ASSUME NEW P, NEW score, NEW before, NEW c \in Accounts, NEW e \in Int,
         Scored(P, score, before),
         NEW score2, score2 = NewScore(score, c, e),
         NEW before2, before2 = NewBefore(P, before, c)
  PROVE  Improved(P, score, before, c, e, score2, before2)
<1>1. P = {s \in Accounts : score[s] # None} /\ score \in [Accounts -> Int \cup {None}]
  BY DEF Scored
<1>2. /\ score2 \in [Accounts -> Int \cup {None}] /\ score2[c] = e
      /\ \A s \in Accounts \ {c} : score2[s] = score[s]
      /\ \A s \in P \ {c} : score2[s] = score[s] /\ score[s] \in Int
  BY <1>1 DEF NewScore
<1>3. /\ \A s, r \in P \ {c} : <<s, r>> \in before2 <=> <<s, r>> \in before
      /\ \A s \in P \ {c} : <<s, c>> \in before2
      /\ \A s \in P \cup {c} : <<c, s>> \notin before2
  BY DEF NewBefore
<1>4. P \cup {c} = {s \in Accounts : score2[s] # None}
  BY <1>1, <1>2, NoneAssumption
<1>5. \A s, r \in P \cup {c} : <<s, r>> \in before2 => <<r, s>> \notin before2
  BY <1>3 DEF Scored
<1> QED BY <1>2, <1>3, <1>4, <1>5 DEF Scored, Beats, Improved

\* Among participants beating is asymmetric.
LEMMA BeatsAsym ==
  ASSUME NEW P, NEW score, NEW before, Scored(P, score, before), NEW s \in P, NEW r \in P,
         Beats(score, before, s, r)
  PROVE  ~Beats(score, before, r, s) /\ s # r
  BY NoneAssumption DEF Scored, Beats

\* The list before it is sorted.
Unsorted(R, cand) ==
  LET mine == {i \in DOMAIN R : R[i].solver = cand.solver}
  IN  IF mine = {} THEN Append(R, cand)
      ELSE [i \in DOMAIN R |->
              IF i \in mine /\ cand.energy < R[i].energy THEN cand ELSE R[i]]

LEMMA UpdateIsSort ==
  ASSUME NEW R, NEW cand, NEW n
  PROVE  update_ranked_solvers(R, cand, n) = Truncate(SortByEnergy(Unsorted(R, cand)), n)
  BY DEF update_ranked_solvers, Unsorted

\* `next` is R with the candidate at k: in place of its old entry, or at the end.
Inserted(R, next, k, cand) ==
  /\ next \in Seq(Ranked) /\ k \in 1..Len(next) /\ next[k] = cand
  /\ \A i \in 1..Len(next) : i # k =>
       i \in 1..Len(R) /\ next[i] = R[i] /\ R[i].solver # cand.solver
  /\ \A i \in 1..Len(R) : i # k => i \in 1..Len(next)
  /\ \A i \in 1..Len(next) : k < i => cand.energy < next[i].energy
  /\ \/ k \in 1..Len(R) /\ R[k].solver = cand.solver /\ Len(next) = Len(R)
     \/ k = Len(R) + 1 /\ Len(next) = k

LEMMA UnsortedIs ==
  ASSUME NEW R, NEW P, NEW score, NEW before, NEW n \in Nat,
         TrueRanking(R, P, score, before, n), Scored(P, score, before),
         NEW c \in Accounts, NEW e \in Int, c \in P => e < score[c]
  PROVE  \E k : Inserted(R, Unsorted(R, RankedSolver(c, e)), k, RankedSolver(c, e))
<1> DEFINE cand == RankedSolver(c, e)
           mine == {i \in DOMAIN R : R[i].solver = cand.solver}
           repl == [i \in DOMAIN R |->
                      IF i \in mine /\ cand.energy < R[i].energy THEN cand ELSE R[i]]
<1>1. cand \in Ranked /\ cand.solver = c /\ cand.energy = e
  BY DEF RankedSolver, Ranked
<1>2. /\ R \in Seq(Ranked) /\ DOMAIN R = 1..Len(R) /\ Len(R) \in Nat
      /\ \A i \in 1..Len(R) : R[i] \in Ranked
  BY DEF TrueRanking
<1>3. CASE mine = {}
  <2> DEFINE next == Append(R, cand)
             k == Len(R) + 1
  <2>1. next \in Seq(Ranked) /\ Len(next) = k /\ next[k] = cand
        /\ \A i \in 1..Len(R) : next[i] = R[i]
    BY <1>1, <1>2
  <2>2. \A i \in 1..Len(R) : R[i].solver # c
    BY <1>1, <1>2, <1>3
  <2>3. Unsorted(R, cand) = next
    BY <1>3 DEF Unsorted
  <2> HIDE DEF next, cand
  <2>4. Inserted(R, next, k, cand)
    BY <1>1, <1>2, <2>1, <2>2 DEF Inserted
  <2> QED BY <2>3, <2>4 DEF cand
<1>4. CASE mine # {}
  <2>1. PICK k \in 1..Len(R) : R[k].solver = c
    BY <1>1, <1>2, <1>4
  <2>2. \A i \in 1..Len(R) : i # k => R[i].solver # c
    <3> SUFFICES ASSUME NEW i \in 1..Len(R), i # k, R[i].solver = c PROVE FALSE
      OBVIOUS
    <3>1. i < k \/ k < i
      BY <1>2
    <3>2. c \in P /\ Beats(score, before, c, c)
      BY <2>1, <3>1 DEF TrueRanking
    <3> QED BY <3>2, BeatsAsym
  <2>3. c \in P /\ R[k].energy = score[c] /\ e < score[c]
    BY <2>1 DEF TrueRanking
  <2>4. /\ DOMAIN repl = 1..Len(R) /\ repl[k] = cand
        /\ \A i \in 1..Len(R) : i # k => repl[i] = R[i]
    BY <1>1, <1>2, <2>1, <2>2, <2>3
  <2>5. repl \in [1..Len(R) -> Ranked]
    <3>1. repl = [i \in 1..Len(R) |-> repl[i]]
      BY <1>2
    <3>2. \A i \in 1..Len(R) : repl[i] \in Ranked
      <4> HIDE DEF repl
      <4> QED BY <1>1, <1>2, <2>4
    <3> HIDE DEF repl
    <3> QED BY <3>1, <3>2
  <2>6. \A i \in 1..Len(R) : k < i => e < repl[i].energy
    <3> SUFFICES ASSUME NEW i \in 1..Len(R), k < i PROVE e < R[i].energy
      BY <1>2, <2>4
    <3>1. R[i].energy = score[R[i].solver] /\ Beats(score, before, c, R[i].solver)
      BY <2>1 DEF TrueRanking
    <3>2. R[i].energy \in Int /\ score[c] \in Int
      BY <1>2, <2>1, <2>3 DEF Ranked
    <3> QED BY <2>3, <3>1, <3>2 DEF Beats
  <2> HIDE DEF repl, cand
  <2>7. repl \in Seq(Ranked) /\ Len(repl) = Len(R)
    BY <1>2, <2>5
  <2>8. Unsorted(R, cand) = repl
    BY <1>4 DEF Unsorted, repl
  <2>9. Inserted(R, repl, k, cand)
    BY <1>1, <1>2, <2>1, <2>2, <2>4, <2>6, <2>7 DEF Inserted
  <2> QED BY <2>8, <2>9 DEF cand
<1> QED BY <1>3, <1>4

\* update_ranked_solvers keeps a true ranking true.
LEMMA RankedUpdate ==
  ASSUME NEW R, NEW P, NEW score, NEW before, NEW n \in Nat,
         TrueRanking(R, P, score, before, n), Scored(P, score, before),
         NEW c \in Accounts, NEW e \in Int, c \in P => e < score[c]
  PROVE  TrueRanking(update_ranked_solvers(R, RankedSolver(c, e), n), P \cup {c},
                     NewScore(score, c, e), NewBefore(P, before, c), n)
<1> SUFFICES ASSUME NEW score2, score2 = NewScore(score, c, e),
                    NEW before2, before2 = NewBefore(P, before, c)
             PROVE  TrueRanking(update_ranked_solvers(R, RankedSolver(c, e), n), P \cup {c},
                                score2, before2, n)
  OBVIOUS
<1> DEFINE cand == RankedSolver(c, e)
           next == Unsorted(R, cand)
           N == update_ranked_solvers(R, cand, n)
           B(s, r) == Beats(score, before, s, r)
           B2(s, r) == Beats(score2, before2, s, r)
<1>1. PICK k : Inserted(R, next, k, cand)
  BY UnsortedIs
<1>2. cand.solver = c /\ cand.energy = e
  BY DEF RankedSolver
<1>3. /\ next \in Seq(Ranked) /\ Len(next) \in Nat /\ Len(R) \in Nat
      /\ \A i \in 1..Len(next) : next[i] \in Ranked /\ next[i].energy \in Int
  <2>1. next \in Seq(Ranked) /\ R \in Seq(Ranked)
    BY <1>1 DEF Inserted, TrueRanking
  <2> HIDE DEF next
  <2>2. Len(next) \in Nat /\ Len(R) \in Nat /\ \A i \in 1..Len(next) : next[i] \in Ranked
    BY <2>1
  <2> QED BY <2>1, <2>2 DEF Ranked
<1>4. PICK pos : SortedPrefix(N, next, pos, n)
  <2>1. N = Truncate(SortByEnergy(next), n)
    BY UpdateIsSort
  <2> HIDE DEF next, N
  <2> QED BY <1>3, <2>1, SortedAndCut
<1>a. N \in Seq(Ranked) /\ Len(N) \in Nat /\ Len(N) = IF Len(next) < n THEN Len(next) ELSE n
  BY <1>4 DEF SortedPrefix
<1>b. \A i \in 1..Len(next) : pos[i] \in 1..Len(next)
  BY <1>4 DEF SortedPrefix
<1>c. \A i, j \in 1..Len(next) : Precedes(next, i, j) <=> pos[i] < pos[j]
  BY <1>4 DEF SortedPrefix
<1>d. \A m \in 1..Len(N) : \E i \in 1..Len(next) : pos[i] = m /\ N[m] = next[i]
  BY <1>4 DEF SortedPrefix
<1>e. \A i \in 1..Len(next) : pos[i] <= Len(N) => N[pos[i]] = next[i]
  BY <1>4 DEF SortedPrefix
<1>f. \A m \in 1..Len(next) : \E i \in 1..Len(next) : pos[i] = m
  BY <1>4 DEF SortedPrefix
<1>5. /\ score2[c] = e /\ \A s \in P \ {c} : score2[s] = score[s] /\ score[s] \in Int
      /\ \A s, r \in P \ {c} : B2(s, r) <=> B(s, r)
      /\ \A s \in P \ {c} : score[s] <= e => B2(s, c)
      /\ \A s \in P \ {c} : e < score[s] => B2(c, s)
  <2> HIDE DEF cand, next, N
  <2>1. Improved(P, score, before, c, e, score2, before2)
    BY BeatsAfter
  <2> QED BY <2>1 DEF Improved
<1> HIDE DEF cand, next, N, B, B2
\* The entries before the sort: their scores, and the order the sort gives them.
<1>6. \A i \in 1..Len(next) : i # k =>
        /\ i \in 1..Len(R) /\ next[i] = R[i] /\ next[i].solver \in P \ {c}
        /\ next[i].energy = score[next[i].solver]
  BY <1>1, <1>2 DEF Inserted, TrueRanking
<1>7. k \in 1..Len(next) /\ next[k].solver = c /\ next[k].energy = e
  BY <1>1, <1>2 DEF Inserted
<1>8. \A i \in 1..Len(next) :
        next[i].solver \in P \cup {c} /\ next[i].energy = score2[next[i].solver]
  BY <1>5, <1>6, <1>7
<1>9. \A i, j \in 1..Len(next) : Precedes(next, i, j) => B2(next[i].solver, next[j].solver)
  <2> SUFFICES ASSUME NEW i \in 1..Len(next), NEW j \in 1..Len(next), Precedes(next, i, j)
               PROVE  B2(next[i].solver, next[j].solver)
    OBVIOUS
  <2>0. i # j
    BY <1>3 DEF Precedes
  <2>1. CASE i # k /\ j # k
    <3>1. B(next[i].solver, next[j].solver)
      <4>1. CASE next[i].energy < next[j].energy
        BY <1>6, <2>1, <4>1 DEF B, Beats
      <4>2. CASE i < j
        BY <1>6, <2>1, <4>2 DEF TrueRanking, B
      <4> QED BY <4>1, <4>2 DEF Precedes
    <3> QED BY <1>5, <1>6, <2>1, <3>1
  <2>2. CASE i # k /\ j = k
    <3>1. next[i].energy <= e
      BY <1>3, <1>7, <2>2 DEF Precedes
    <3> QED BY <1>5, <1>6, <1>7, <2>2, <3>1
  <2>3. CASE i = k
    <3>1. e < next[j].energy
      BY <1>1, <1>2, <1>3, <1>7, <2>3 DEF Precedes, Inserted
    <3> QED BY <1>5, <1>6, <1>7, <2>0, <2>3, <3>1
  <2> QED BY <2>1, <2>2, <2>3
<1>10. \A m \in 1..Len(N) :
         N[m].solver \in P \cup {c} /\ N[m].energy = score2[N[m].solver]
  <2> TAKE m \in 1..Len(N)
  <2>1. PICK i \in 1..Len(next) : N[m] = next[i]
    BY <1>d
  <2> QED BY <1>8, <2>1
<1>11. \A l, m \in 1..Len(N) : l < m => B2(N[l].solver, N[m].solver)
  BY <1>9, <1>c, <1>d
<1>12. \A i \in 1..Len(next) : \/ \E m \in 1..Len(N) : N[m].solver = next[i].solver
                               \/ /\ Len(N) = n
                                  /\ \A m \in 1..Len(N) : B2(N[m].solver, next[i].solver)
  <2> SUFFICES ASSUME NEW i \in 1..Len(next), ~(pos[i] <= Len(N))
               PROVE  Len(N) = n /\ \A m \in 1..Len(N) : B2(N[m].solver, next[i].solver)
    <3>1. ASSUME NEW i \in 1..Len(next), pos[i] <= Len(N)
          PROVE  \E m \in 1..Len(N) : N[m].solver = next[i].solver
      BY <1>3, <1>a, <1>b, <1>e, <3>1
    <3> QED BY <3>1
  <2>1. pos[i] \in 1..Len(next) /\ Len(N) = n
    BY <1>3, <1>a, <1>b
  <2>2. ASSUME NEW m \in 1..Len(N) PROVE B2(N[m].solver, next[i].solver)
    <3>1. PICK h \in 1..Len(next) : pos[h] = m /\ N[m] = next[h]
      BY <1>d
    <3>2. pos[h] < pos[i]
      BY <1>3, <2>1, <3>1
    <3>3. Precedes(next, h, i)
      BY <1>c, <3>2
    <3> QED BY <1>9, <3>1, <3>3
  <2> QED BY <2>1, <2>2
\* A participant that the old list had already cut off.
<1>13. \A p \in P \cup {c} : (\A i \in 1..Len(next) : next[i].solver # p) =>
         Len(N) = n /\ \A m \in 1..Len(N) : B2(N[m].solver, p)
  <2> SUFFICES ASSUME NEW p \in P \cup {c}, \A i \in 1..Len(next) : next[i].solver # p
               PROVE  Len(N) = n /\ \A m \in 1..Len(N) : B2(N[m].solver, p)
    OBVIOUS
  <2>1. p \in P \ {c}
    BY <1>7
  <2>2. \A i \in 1..Len(R) : R[i].solver # p
    BY <1>1, <1>2, <1>6, <2>1 DEF Inserted
  <2>3. Len(R) = n /\ \A i \in 1..Len(R) : B(R[i].solver, p)
    BY <2>1, <2>2 DEF TrueRanking, B
  <2>4. Len(N) = n
    BY <1>1, <1>3, <1>a, <2>3 DEF Inserted
  <2>5. ASSUME NEW m \in 1..Len(N) PROVE B2(N[m].solver, p)
    <3>1. PICK i \in 1..Len(next) : pos[i] = m /\ N[m] = next[i]
      BY <1>d
    <3>2. CASE i # k
      <4>1. B(next[i].solver, p) /\ next[i].solver \in P \ {c}
        BY <1>6, <2>3, <3>2
      <4> QED BY <1>5, <2>1, <3>1, <4>1
    <3>3. CASE i = k
      <4>1. e < score[p]
        <5>1. CASE k \in 1..Len(R) /\ R[k].solver = cand.solver
          <6>1. c \in P /\ e < score[c] /\ B(c, p)
            BY <1>2, <2>3, <5>1 DEF TrueRanking
          <6>2. score[c] \in Int /\ score[p] \in Int
            BY <6>1, <1>5, <2>1 DEF Scored
          <6> QED BY <6>1, <6>2 DEF B, Beats
        <5>2. CASE k = Len(R) + 1 /\ Len(next) = k
          <6>1. PICK h \in 1..Len(next) : pos[h] = Len(next)
            <7>1. Len(next) \in 1..Len(next)
              BY <1>3, <1>7
            <7> QED BY <1>f, <7>1
          <6>2. pos[k] < pos[h]
            BY <1>3, <1>a, <1>b, <2>3, <2>4, <3>1, <3>3, <5>2, <6>1
          <6>3. h # k /\ Precedes(next, k, h)
            BY <1>3, <1>7, <1>b, <1>c, <6>2
          <6>4. e < next[h].energy
            BY <1>3, <1>7, <5>2, <6>3 DEF Precedes
          <6>5. next[h].energy = score[next[h].solver] /\ B(next[h].solver, p)
            BY <1>6, <2>3, <6>3
          <6> QED BY <1>3, <1>5, <2>1, <6>4, <6>5 DEF B, Beats
        <5> QED BY <1>1, <5>1, <5>2 DEF Inserted
      <4> QED BY <1>5, <1>7, <2>1, <3>1, <3>3, <4>1
    <3> QED BY <3>2, <3>3
  <2> QED BY <2>4, <2>5
<1>14. \A p \in P \cup {c} : \/ \E m \in 1..Len(N) : N[m].solver = p
                             \/ Len(N) = n /\ \A m \in 1..Len(N) : B2(N[m].solver, p)
  BY <1>12, <1>13
<1>15. Len(N) <= n
  BY <1>3, <1>a
<1>16. TrueRanking(N, P \cup {c}, score2, before2, n)
  BY <1>4, <1>10, <1>11, <1>14, <1>15 DEF SortedPrefix, TrueRanking, B2
<1> QED BY <1>16 DEF N, cand

\* The front runner of a SingleBest order is a ranking of length at most one.
LEMMA FrontUpdate ==
  ASSUME NEW R, NEW P, NEW score, NEW before,
         TrueRanking(R, P, score, before, 1), Scored(P, score, before),
         NEW c \in Accounts, NEW e \in Int, c \in P => e < score[c],
         NEW score2, score2 = NewScore(score, c, e),
         NEW before2, before2 = NewBefore(P, before, c)
  PROVE  /\ R = << >> \/ e < R[1].energy =>
              TrueRanking(<< RankedSolver(c, e) >>, P \cup {c}, score2, before2, 1)
         /\ ~(R = << >> \/ e < R[1].energy) =>
              TrueRanking(R, P \cup {c}, score2, before2, 1)
<1>1. Improved(P, score, before, c, e, score2, before2)
  BY BeatsAfter
<1>2. R \in Seq(Ranked) /\ Len(R) \in 0..1 /\ (Len(R) = 0 <=> R = << >>)
  BY DEF TrueRanking
<1>3. Len(R) = 1 => /\ R[1].solver \in P /\ R[1].energy = score[R[1].solver]
                    /\ R[1].energy \in Int
                    /\ \A p \in P : p # R[1].solver => Beats(score, before, R[1].solver, p)
  <2> SUFFICES ASSUME Len(R) = 1
               PROVE  /\ R[1].solver \in P /\ R[1].energy = score[R[1].solver]
                      /\ R[1].energy \in Int
                      /\ \A p \in P : p # R[1].solver => Beats(score, before, R[1].solver, p)
    OBVIOUS
  <2>1. 1..Len(R) = {1} /\ R[1] \in Ranked
    BY <1>2
  <2> QED BY <2>1 DEF TrueRanking, Ranked
<1>4. \A p \in P : score[p] \in Int
  BY DEF Scored
<1>5. ASSUME R = << >> \/ e < R[1].energy
      PROVE  TrueRanking(<< RankedSolver(c, e) >>, P \cup {c}, score2, before2, 1)
  <2> DEFINE N == << RankedSolver(c, e) >>
  <2>1. N \in Seq(Ranked) /\ Len(N) = 1 /\ N[1].solver = c /\ N[1].energy = e
    BY DEF RankedSolver, Ranked
  <2>2. \A p \in P \ {c} : Len(R) = 1 /\ e < score[p]
    <3> SUFFICES ASSUME NEW p \in P \ {c} PROVE Len(R) = 1 /\ e < score[p]
      OBVIOUS
    <3>1. Len(R) = 1
      BY <1>2 DEF TrueRanking
    <3>2. e < R[1].energy
      BY <1>2, <1>5, <3>1
    <3>3. score[p] \in Int /\ R[1].energy \in Int /\ R[1].energy = score[R[1].solver]
      BY <1>3, <1>4, <3>1
    <3>4. p = R[1].solver \/ Beats(score, before, R[1].solver, p)
      BY <1>3, <3>1
    <3> QED BY <3>1, <3>2, <3>3, <3>4 DEF Beats
  <2>3. \A p \in P \ {c} : Beats(score2, before2, c, p)
    BY <1>1, <2>2 DEF Improved
  <2> HIDE DEF N
  <2>4. 1..Len(N) = {1}
    BY <2>1
  <2>5. TrueRanking(N, P \cup {c}, score2, before2, 1)
    BY <1>1, <2>1, <2>3, <2>4 DEF TrueRanking, Improved
  <2> QED BY <2>5 DEF N
<1>6. ASSUME ~(R = << >> \/ e < R[1].energy)
      PROVE  TrueRanking(R, P \cup {c}, score2, before2, 1)
  <2>0. Len(R) = 1 /\ 1..Len(R) = {1}
    <3>1. Len(R) # 0 /\ Len(R) \in 0..1
      BY <1>2, <1>6
    <3> QED BY <3>1
  <2>1. Len(R) = 1 /\ 1..Len(R) = {1} /\ R[1].energy <= e
    BY <1>3, <1>6, <2>0
  <2>2. R[1].solver \in P \ {c}
    BY <1>3, <1>4, <2>1
  <2>3. Beats(score2, before2, R[1].solver, c)
    BY <1>1, <1>3, <2>1, <2>2 DEF Improved
  <2>4. \A p \in P \ {c} : p # R[1].solver => Beats(score2, before2, R[1].solver, p)
    BY <1>1, <1>3, <2>1, <2>2 DEF Improved
  <2>5. R[1].energy = score2[R[1].solver]
    BY <1>1, <1>3, <2>1, <2>2 DEF Improved
  <2> QED BY <1>2, <2>1, <2>2, <2>3, <2>4, <2>5 DEF TrueRanking
<1> QED BY <1>5, <1>6

\* The energy a submission is ranked by exists and is one of those submitted.
LEMMA BestEnergyIsInt ==
  ASSUME NEW t, NEW s \in Submissions, ValidSolutions(t, s) # {}
  PROVE  BestEnergy(t, s) \in Int
<1> DEFINE V == ValidSolutions(t, s)
           scores == {s.energies[i] : i \in V}
<1>1. s.energies \in Seq(Int) /\ V \subseteq 1..Len(s.energies) /\ Len(s.energies) \in Nat
  BY SubmissionsAssumption DEF ValidSolutions
<1>2. scores \subseteq Int /\ scores # {}
  BY <1>1
<1>3. IsFiniteSet(V)
  <2>1. IsFiniteSet(1..Len(s.energies))
    BY <1>1, FS_Interval
  <2> HIDE DEF V
  <2> QED BY <1>1, <2>1, FS_Subset
<1>4. IsFiniteSet(scores)
  <2> DEFINE f == [i \in V |-> s.energies[i]]
  <2>1. f \in Surjection(V, scores)
    BY DEF Surjection
  <2> QED BY <1>3, <2>1, FS_Surjection
<1> HIDE DEF scores, V
<1> DEFINE F == {T \in SUBSET scores : T # {} /\ ~\E x \in T : \A y \in T : x <= y}
<1>5. F = {}
  <2> SUFFICES ASSUME F # {} PROVE FALSE
    OBVIOUS
  <2>1. PICK T \in F : \A U \in F : U \subseteq T => U = T
    <3>1. F \subseteq SUBSET scores
      OBVIOUS
    <3> HIDE DEF F
    <3>2. IsFiniteSet(scores) /\ F # {}
      BY <1>4
    <3> QED BY ONLY <3>1, <3>2, MinimalSubset
  <2>2. PICK x : x \in T
    OBVIOUS
  <2>3. T \ {x} \notin F
    BY <2>1, <2>2
  <2>4. CASE T \ {x} = {}
    BY <1>2, <2>2, <2>4
  <2>5. CASE T \ {x} # {}
    <3>1. PICK m \in T \ {x} : \A y \in T \ {x} : m <= y
      BY <2>3, <2>5
    <3>2. \/ \A y \in T : x <= y
          \/ \A y \in T : m <= y
      BY <1>2, <2>2, <3>1
    <3> QED BY <2>2, <3>1, <3>2
  <2> QED BY <2>4, <2>5
<1>6. \E x \in scores : \A y \in scores : x <= y
  BY <1>2, <1>5
<1> QED BY <1>2, <1>6 DEF BestEnergy, scores, V

-----------------------------------------------------------------------------
(***************************************************************************)
(* The stored ranking of every order is a true one.  An order that does    *)
(* not exist yet has left no trace in the ranking storage.                 *)
(***************************************************************************)
RankTypes ==
  /\ OrderSolutions \in [OrderIds -> [Accounts -> Int \cup {None}]]
  /\ OrderFrontRunner \in [OrderIds -> Ranked \cup {None}]
  /\ OrderTopSolvers \in [OrderIds -> Seq(Ranked)]
  /\ arrival \in [OrderIds -> SUBSET (Accounts \X Accounts)]

Untouched(o) ==
  Participants(o) = {} /\ OrderFrontRunner[o] = None /\ OrderTopSolvers[o] = << >>

RankedTruly(o) ==
  /\ RankLimit(JobOrders[o].terms) \in Nat \ {0}
  /\ RankLimit(JobOrders[o].terms) <= MAX_REWARD_WINNERS
       \/ JobOrders[o].terms.resolution.kind = "SingleBest"
  /\ TrueRanking(StoredRanking(o), Participants(o), OrderSolutions[o], arrival[o],
                 RankLimit(JobOrders[o].terms))
  /\ Scored(Participants(o), OrderSolutions[o], arrival[o])
  /\ JobOrders[o].solution_count = Cardinality(Participants(o))

RankingInductive ==
  /\ RankTypes
  /\ \A o \in OrderIds : JobOrders[o] = None => Untouched(o)
  /\ \A o \in OrderIds : JobOrders[o] # None => RankedTruly(o)

\* Steps that leave the ranking storage, and of an order all but its status, alone.
LEMMA RankingKept ==
  ASSUME RankingInductive, UNCHANGED rankVars,
         \A o \in OrderIds : JobOrders[o] = None <=> JobOrders'[o] = None,
         \A o \in OrderIds : JobOrders[o] # None =>
            /\ JobOrders'[o].terms = JobOrders[o].terms
            /\ JobOrders'[o].solution_count = JobOrders[o].solution_count
  PROVE  RankingInductive'
<1>1. RankTypes'
  BY DEF RankingInductive, RankTypes, rankVars
<1>2. \A o \in OrderIds : JobOrders'[o] = None => Untouched(o)'
  BY DEF RankingInductive, Untouched, Participants, rankVars
<1>3. ASSUME NEW o \in OrderIds, JobOrders'[o] # None PROVE RankedTruly(o)'
  <2>1. RankedTruly(o) /\ JobOrders'[o].terms = JobOrders[o].terms
        /\ JobOrders'[o].solution_count = JobOrders[o].solution_count
    BY <1>3 DEF RankingInductive
  <2>2. StoredRanking(o)' = StoredRanking(o) /\ Participants(o)' = Participants(o)
        /\ OrderSolutions'[o] = OrderSolutions[o] /\ arrival'[o] = arrival[o]
    BY <2>1 DEF StoredRanking, Participants, rankVars
  <2> QED BY <2>1, <2>2 DEF RankedTruly
<1> QED BY <1>1, <1>2, <1>3 DEF RankingInductive

LEMMA ProposeRanks ==
  ASSUME TypeOK, IdsAllocated, RankingInductive, NEW who \in Proposers, NEW t \in Terms, NEW c,
         do_propose_job(who, t, c)
  PROVE  RankingInductive'
<1>0. PICK id : id = NextOrderId
  OBVIOUS
<1>1. /\ id \in OrderIds /\ JobOrders[id] = None
      /\ \A o \in OrderIds \ {id} : JobOrders'[o] = JobOrders[o]
      /\ JobOrders'[id].terms = t /\ JobOrders'[id].solution_count = 0
      /\ JobOrders'[id] # None /\ UNCHANGED rankVars
  <2>1. id \in OrderIds /\ JobOrders[id] = None
    BY <1>0, OrderIdsAssumption DEF do_propose_job, IdsAllocated, TypeOK
  <2> DEFINE new == [proposer |-> who, terms |-> t, status |-> "Opened", created_at |-> now,
                     first_solution_at |-> None, solution_count |-> 0]
  <2>2. new \in Order /\ JobOrders' = [JobOrders EXCEPT ![id] = new]
    BY <1>0, ProposeStores
  <2>3. new.terms = t /\ new.solution_count = 0
    OBVIOUS
  <2> HIDE DEF new
  <2> QED BY <2>1, <2>2, <2>3, NoneAssumption DEF do_propose_job, TypeOK
<1>2. UNCHANGED <<OrderSolutions, OrderFrontRunner, OrderTopSolvers, arrival>>
  BY <1>1 DEF rankVars
<1>3. RankTypes'
  BY <1>2 DEF RankingInductive, RankTypes
<1>4. \A o \in OrderIds : JobOrders'[o] = None => Untouched(o)'
  BY <1>1, <1>2 DEF RankingInductive, Untouched, Participants
<1>5. ASSUME NEW o \in OrderIds \ {id}, JobOrders'[o] # None PROVE RankedTruly(o)'
  <2>1. RankedTruly(o) /\ JobOrders'[o] = JobOrders[o]
    BY <1>1, <1>5 DEF RankingInductive
  <2>2. StoredRanking(o)' = StoredRanking(o) /\ Participants(o)' = Participants(o)
        /\ OrderSolutions'[o] = OrderSolutions[o] /\ arrival'[o] = arrival[o]
    BY <1>2, <2>1 DEF StoredRanking, Participants
  <2> QED BY <2>1, <2>2 DEF RankedTruly
<1>6. RankedTruly(id)'
  <2>1. /\ Participants(id)' = {} /\ OrderFrontRunner'[id] = None
        /\ OrderTopSolvers'[id] = << >>
    BY <1>1, <1>4, <1>2 DEF RankingInductive, Untouched, Participants
  <2>2. StoredRanking(id)' = << >>
    BY <2>1 DEF StoredRanking
  <2>3. /\ RankLimit(t) \in Nat \ {0}
        /\ RankLimit(t) <= MAX_REWARD_WINNERS \/ t.resolution.kind = "SingleBest"
    BY TermsAssumption DEF RankLimit, do_propose_job, AcceptableTerms, ensure_valid_resolution
  <2>4. TrueRanking(StoredRanking(id)', Participants(id)', OrderSolutions'[id], arrival'[id],
                    RankLimit(t))
    BY <2>1, <2>2, <2>3 DEF TrueRanking
  <2>5. Scored(Participants(id)', OrderSolutions'[id], arrival'[id])
    BY <1>1, <1>3, <2>1 DEF Scored, Participants, RankTypes
  <2>6. Cardinality(Participants(id)') = 0
    BY <2>1, FS_EmptySet
  <2> QED BY <1>1, <2>3, <2>4, <2>5, <2>6 DEF RankedTruly
<1> QED BY <1>3, <1>4, <1>5, <1>6 DEF RankingInductive

\* What submit_solution_inner does to the orders: it counts a first solution.
LEMMA SubmitCounts ==
  ASSUME TypeOK, NEW who \in Miners, NEW o \in OrderIds, NEW s, NEW p,
         submit_solution(who, o, s, p)
  PROVE  /\ IsOpen(o) /\ JobOrders[o] \in Order /\ JobOrders'[o] # None
         /\ \A q \in OrderIds \ {o} : JobOrders'[q] = JobOrders[q]
         /\ JobOrders'[o].terms = JobOrders[o].terms
         /\ JobOrders'[o].proposer = JobOrders[o].proposer
         /\ JobOrders'[o].status = JobOrders[o].status
         /\ JobOrders'[o].solution_count = IF OrderSolutions[o][who] = None
              THEN JobOrders[o].solution_count + 1 ELSE JobOrders[o].solution_count
<1> DEFINE order == JobOrders[o]
           count == IF OrderSolutions[o][who] = None THEN order.solution_count + 1
                                                     ELSE order.solution_count
           first == IF order.first_solution_at = None THEN now ELSE order.first_solution_at
           after == [order EXCEPT !.solution_count = count, !.first_solution_at = first]
<1>1. order \in Order /\ IsOpen(o)
  BY DEF submit_solution, AcceptsSolutions, TypeOK, IsOpen
<1>2. JobOrders' = [JobOrders EXCEPT ![o] = after]
  BY DEF submit_solution, AcceptSubmission
<1>3. count \in Nat /\ first \in Nat \cup {None}
  BY <1>1 DEF Order, TypeOK
<1> HIDE DEF count, first, order
<1>4. /\ after \in Order /\ after.terms = order.terms /\ after.proposer = order.proposer
      /\ after.status = order.status /\ after.solution_count = count
  BY <1>1, <1>3 DEF Order
<1> HIDE DEF after
<1> QED BY <1>1, <1>2, <1>4, NoneAssumption DEF TypeOK, order, count

LEMMA SubmitRanks ==
  ASSUME TypeOK, RankingInductive, NEW who \in Miners, NEW o \in OrderIds, NEW s \in Submissions,
         NEW p, submit_solution(who, o, s, p)
  PROVE  RankingInductive'
<1> DEFINE t == JobOrders[o].terms
           P == Participants(o)
<1>0. PICK e : e = BestEnergy(t, s)
  OBVIOUS
<1>1. who \in Accounts /\ e \in Int
  BY <1>0, BestEnergyIsInt, BoundsAssumption DEF submit_solution
<1>2. /\ IsOpen(o) /\ JobOrders[o] \in Order /\ JobOrders'[o] # None
      /\ \A q \in OrderIds \ {o} : JobOrders'[q] = JobOrders[q]
      /\ JobOrders'[o].terms = t
      /\ JobOrders'[o].solution_count = IF OrderSolutions[o][who] = None
           THEN JobOrders[o].solution_count + 1 ELSE JobOrders[o].solution_count
  BY SubmitCounts
<1>3. /\ OrderSolutions' = [OrderSolutions EXCEPT ![o][who] = e]
      /\ arrival' = [arrival EXCEPT ![o] = NewBefore(P, arrival[o], who)]
      /\ update_ranking(o, who, e)
      /\ OrderSolutions[o][who] # None => e < OrderSolutions[o][who]
  BY <1>0 DEF submit_solution, AcceptSubmission, ImprovesOwn, RankingInductive, RankTypes, NewBefore
<1>4. RankedTruly(o) /\ RankTypes
  BY <1>2 DEF RankingInductive, IsOpen
<1>5. /\ OrderSolutions'[o] = NewScore(OrderSolutions[o], who, e)
      /\ arrival'[o] = NewBefore(P, arrival[o], who)
  BY <1>3, <1>4 DEF RankTypes, NewScore
<1>6. Improved(P, OrderSolutions[o], arrival[o], who, e, OrderSolutions'[o], arrival'[o])
  <2>1. Scored(P, OrderSolutions[o], arrival[o])
    BY <1>4 DEF RankedTruly
  <2> HIDE DEF P
  <2> QED BY <1>1, <1>5, <2>1, BeatsAfter
<1>7. Scored(P \cup {who}, OrderSolutions'[o], arrival'[o]) /\ Participants(o)' = P \cup {who}
  BY <1>6 DEF Improved, Scored, Participants
\* Other orders.
<1>8. \A q \in OrderIds \ {o} :
        /\ OrderSolutions'[q] = OrderSolutions[q] /\ arrival'[q] = arrival[q]
        /\ OrderFrontRunner'[q] = OrderFrontRunner[q] /\ OrderTopSolvers'[q] = OrderTopSolvers[q]
  BY <1>3, <1>4 DEF RankTypes, update_ranking
<1>9. ASSUME NEW q \in OrderIds \ {o}, JobOrders'[q] # None PROVE RankedTruly(q)'
  <2>1. RankedTruly(q) /\ JobOrders'[q] = JobOrders[q]
    BY <1>2, <1>9 DEF RankingInductive
  <2>2. StoredRanking(q)' = StoredRanking(q) /\ Participants(q)' = Participants(q)
    BY <1>8, <2>1 DEF StoredRanking, Participants
  <2> QED BY <1>8, <2>1, <2>2 DEF RankedTruly
<1>10. \A q \in OrderIds : JobOrders'[q] = None => Untouched(q)'
  BY <1>2, <1>8 DEF RankingInductive, Untouched, Participants
\* The ranking of this order.
<1>11. \A a \in Accounts : a \in P <=> OrderSolutions[o][a] # None
  BY DEF Participants
<1>12. TrueRanking(StoredRanking(o)', P \cup {who}, OrderSolutions'[o], arrival'[o], RankLimit(t))
  <2>0. /\ TrueRanking(StoredRanking(o), P, OrderSolutions[o], arrival[o], RankLimit(t))
        /\ Scored(P, OrderSolutions[o], arrival[o]) /\ RankLimit(t) \in Nat
    BY <1>4 DEF RankedTruly
  <2>a. who \in P => e < OrderSolutions[o][who]
    BY <1>1, <1>3, <1>11
  <2>1. CASE t.resolution.kind = "SingleBest"
    <3> DEFINE R == StoredRanking(o)
               lower == R = << >> \/ e < R[1].energy
    <3>1. RankLimit(t) = 1
      BY <2>1 DEF RankLimit
    <3>2. /\ lower => TrueRanking(<< RankedSolver(who, e) >>, P \cup {who},
                                  OrderSolutions'[o], arrival'[o], 1)
          /\ ~lower => TrueRanking(R, P \cup {who}, OrderSolutions'[o], arrival'[o], 1)
      <4> HIDE DEF R, P
      <4> QED BY <1>1, <1>5, <2>0, <2>a, <3>1, FrontUpdate DEF R
    <3>3. StoredRanking(o)' = IF lower THEN << RankedSolver(who, e) >> ELSE R
      <4>1. RankedSolver(who, e) \in Ranked
        BY <1>1 DEF RankedSolver, Ranked
      <4>2. RankedSolver(who, e) # None
        BY <4>1, NoneAssumption DEF Ranked
      <4>3. lower <=> OrderFrontRunner[o] = None \/ e < OrderFrontRunner[o].energy
        BY <2>1 DEF StoredRanking
      <4>4. OrderFrontRunner'[o] = IF lower THEN RankedSolver(who, e) ELSE OrderFrontRunner[o]
        BY <1>3, <1>4, <2>1, <4>3 DEF update_ranking, RankTypes
      <4> QED BY <1>2, <2>1, <4>2, <4>3, <4>4 DEF StoredRanking
    <3> HIDE DEF lower, R
    <3> QED BY <3>1, <3>2, <3>3
  <2>2. CASE t.resolution.kind # "SingleBest"
    <3>1. StoredRanking(o)' = update_ranked_solvers(StoredRanking(o), RankedSolver(who, e), RankLimit(t))
      BY <1>2, <1>3, <1>4, <2>2 DEF StoredRanking, update_ranking, RankLimit, RankTypes
    <3> HIDE DEF P, t
    <3> QED BY <1>1, <1>5, <2>0, <2>a, <3>1, RankedUpdate
  <2> QED BY <2>1, <2>2
<1>13. JobOrders'[o].solution_count = Cardinality(P \cup {who})
  <2>1. IsFiniteSet(P) /\ JobOrders[o].solution_count = Cardinality(P)
    BY <1>4, LedgerAssumption, FS_Subset DEF Participants, RankedTruly
  <2>2. who \in P => P \cup {who} = P
    OBVIOUS
  <2>3. who \notin P => Cardinality(P \cup {who}) = Cardinality(P) + 1
    BY <2>1, FS_AddElement
  <2> HIDE DEF P
  <2> QED BY <1>1, <1>2, <1>11, <2>1, <2>2, <2>3
<1>14. RankedTruly(o)'
  <2>1. JobOrders'[o].terms = t
    BY <1>2
  <2> QED BY <1>4, <1>7, <1>12, <1>13, <2>1 DEF RankedTruly
<1>15. RankTypes'
  <2>1. OrderSolutions' \in [OrderIds -> [Accounts -> Int \cup {None}]]
    BY <1>1, <1>3, <1>4 DEF RankTypes
  <2>2. arrival' \in [OrderIds -> SUBSET (Accounts \X Accounts)]
    <3>1. NewBefore(P, arrival[o], who) \subseteq Accounts \X Accounts
      BY <1>1, <1>4 DEF NewBefore, RankTypes, Participants
    <3> HIDE DEF P
    <3> QED BY <1>3, <1>4, <3>1 DEF RankTypes
  <2>3. RankedSolver(who, e) \in Ranked
    BY <1>1 DEF RankedSolver, Ranked
  <2>4. CASE t.resolution.kind = "SingleBest"
    BY <1>3, <1>4, <2>1, <2>2, <2>3, <2>4 DEF update_ranking, RankTypes
  <2>5. CASE t.resolution.kind # "SingleBest"
    <3>1. OrderTopSolvers'[o] \in Seq(Ranked)
      BY <1>2, <1>12, <2>5 DEF StoredRanking, TrueRanking
    <3>2. \E l : OrderTopSolvers' = [OrderTopSolvers EXCEPT ![o] = l]
      BY <1>3, <2>5 DEF update_ranking
    <3>3. OrderTopSolvers' \in [OrderIds -> Seq(Ranked)]
      BY <1>4, <3>1, <3>2 DEF RankTypes
    <3>4. OrderFrontRunner' = OrderFrontRunner
      BY <1>3, <2>5 DEF update_ranking
    <3> QED BY <1>4, <2>1, <2>2, <3>3, <3>4 DEF RankTypes
  <2> QED BY <2>4, <2>5
<1> QED BY <1>9, <1>10, <1>14, <1>15 DEF RankingInductive

\* A step that touches neither the orders nor their ranking nor money.
BookUntouched == UNCHANGED <<JobOrders, rankVars, moneyVars>>

\* The steps, by what they do to the order book.
LEMMA BookSteps ==
  ASSUME [Next]_vars
  PROVE  \/ BookUntouched
         \/ \E who \in Proposers, t \in Terms : \E c : do_propose_job(who, t, c)
         \/ \E who \in Miners, o \in OrderIds, s \in Submissions, p \in Payees \cup {None} :
              submit_solution(who, o, s, p)
         \/ \E o \in OrderIds : claim_reward(o)
         \/ \E who \in Proposers, o \in OrderIds : reclaim_order(who, o)
         \/ on_initialize
<1>1. ASSUME \/ \E who \in Miners, ty \in MinerTypes : register_solver(who, ty)
             \/ \E who \in Miners : deregister_solver(who)
             \/ \E spec \in Specs : register_job_spec(spec)
             \/ \E o \in OrderIds : purge_result(o)
             \/ External
             \/ UNCHANGED vars
      PROVE  BookUntouched
  BY <1>1 DEF register_solver, deregister_solver, register_job_spec, purge_result, External, vars,
         orderVars, BookUntouched
<1> QED BY <1>1, ProposeForms DEF Next, Calls

\* A settlement closes one expired order and leaves the rest of the book alone.
LEMMA SettleKeeps ==
  ASSUME TypeOK, NEW o \in OrderIds,
         claim_reward(o) \/ \E who \in Proposers : reclaim_order(who, o)
  PROVE  /\ JobOrders[o] \in Order /\ JobOrders[o].status = "Expired" /\ JobOrders'[o] # None
         /\ \A q \in OrderIds \ {o} : JobOrders'[q] = JobOrders[q]
         /\ JobOrders'[o] = [JobOrders[o] EXCEPT !.status = "Closed"]
         /\ JobOrders'[o].terms = JobOrders[o].terms
         /\ JobOrders'[o].proposer = JobOrders[o].proposer
         /\ JobOrders'[o].status = "Closed"
         /\ JobOrders'[o].solution_count = JobOrders[o].solution_count
         /\ UNCHANGED <<rankVars, resultVars>>
<1>1. /\ JobOrders[o] \in Order /\ JobOrders[o].status = "Expired"
      /\ JobOrders' = [JobOrders EXCEPT ![o].status = "Closed"]
      /\ UNCHANGED <<rankVars, resultVars>>
  BY DEF claim_reward, ClaimAccepted, reclaim_order, ReclaimAccepted, Claimable, CloseOrder, TypeOK
<1> DEFINE closed == [JobOrders[o] EXCEPT !.status = "Closed"]
<1>2. /\ closed \in Order /\ closed.terms = JobOrders[o].terms
      /\ closed.proposer = JobOrders[o].proposer /\ closed.status = "Closed"
      /\ closed.solution_count = JobOrders[o].solution_count
  BY <1>1 DEF Order, Statuses
<1>3. JobOrders' = [JobOrders EXCEPT ![o] = closed]
  BY <1>1
<1> HIDE DEF closed
<1> QED BY <1>1, <1>2, <1>3, NoneAssumption DEF TypeOK, closed

\* A block changes an order's status at most, from Opened to Expired.
LEMMA BlockKeeps ==
  ASSUME TypeOK, on_initialize
  PROVE  /\ UNCHANGED <<rankVars, moneyVars>>
         /\ \A o \in OrderIds : JobOrders[o] = None <=> JobOrders'[o] = None
         /\ \A o \in OrderIds : JobOrders[o] # None =>
              /\ JobOrders'[o].terms = JobOrders[o].terms
              /\ JobOrders'[o].proposer = JobOrders[o].proposer
              /\ JobOrders'[o].solution_count = JobOrders[o].solution_count
              /\ \/ JobOrders'[o] = JobOrders[o]
                 \/ IsOpen(o) /\ JobOrders'[o].status = "Expired"
<1>1. PICK drained \in SUBSET OrdersExpiringAt :
         JobOrders' = [o \in OrderIds |->
           IF o \in Finalised(drained) THEN [JobOrders[o] EXCEPT !.status = "Expired"]
                                       ELSE JobOrders[o]]
  BY BlockDrains
<1>2. UNCHANGED <<rankVars, moneyVars>>
  BY DEF on_initialize
<1>3. ASSUME NEW o \in OrderIds, o \in Finalised(drained)
      PROVE  /\ JobOrders'[o] # None /\ JobOrders[o] # None
             /\ JobOrders'[o].terms = JobOrders[o].terms
             /\ JobOrders'[o].proposer = JobOrders[o].proposer
             /\ JobOrders'[o].solution_count = JobOrders[o].solution_count
             /\ IsOpen(o) /\ JobOrders'[o].status = "Expired"
  <2>1. IsOpen(o) /\ JobOrders[o] \in Order
    BY <1>3 DEF Finalised, IsOpen, TypeOK
  <2> DEFINE done == [JobOrders[o] EXCEPT !.status = "Expired"]
  <2>2. /\ done \in Order /\ done.terms = JobOrders[o].terms
        /\ done.proposer = JobOrders[o].proposer /\ done.status = "Expired"
        /\ done.solution_count = JobOrders[o].solution_count
    BY <2>1 DEF Order, Statuses
  <2>3. JobOrders'[o] = done
    BY <1>1, <1>3
  <2> HIDE DEF done
  <2> QED BY <2>1, <2>2, <2>3, NoneAssumption DEF IsOpen
<1>4. \A o \in OrderIds : o \notin Finalised(drained) => JobOrders'[o] = JobOrders[o]
  BY <1>1
<1> QED BY <1>2, <1>3, <1>4

LEMMA RankingStep ==
  TypeOK /\ IdsAllocated /\ RankingInductive /\ [Next]_vars => RankingInductive'
<1> SUFFICES ASSUME TypeOK, IdsAllocated, RankingInductive, [Next]_vars
             PROVE  RankingInductive'
  OBVIOUS
<1>1. CASE BookUntouched
  BY <1>1, RankingKept DEF BookUntouched, moneyVars
<1>2. CASE \E who \in Proposers, t \in Terms : \E c : do_propose_job(who, t, c)
  BY <1>2, ProposeRanks
<1>3. CASE \E who \in Miners, o \in OrderIds, s \in Submissions, p \in Payees \cup {None} :
             submit_solution(who, o, s, p)
  BY <1>3, SubmitRanks
<1>4. CASE \/ \E o \in OrderIds : claim_reward(o)
           \/ \E who \in Proposers, o \in OrderIds : reclaim_order(who, o)
  <2>1. PICK o \in OrderIds : claim_reward(o) \/ \E who \in Proposers : reclaim_order(who, o)
    BY <1>4
  <2>2. /\ JobOrders[o] \in Order /\ JobOrders'[o] # None
        /\ \A q \in OrderIds \ {o} : JobOrders'[q] = JobOrders[q]
        /\ JobOrders'[o].terms = JobOrders[o].terms
        /\ JobOrders'[o].solution_count = JobOrders[o].solution_count
        /\ UNCHANGED rankVars
    BY <2>1, SettleKeeps
  <2>3. \A q \in OrderIds : JobOrders[q] = None <=> JobOrders'[q] = None
    BY <2>2, NoneAssumption
  <2>4. \A q \in OrderIds : JobOrders[q] # None =>
            /\ JobOrders'[q].terms = JobOrders[q].terms
            /\ JobOrders'[q].solution_count = JobOrders[q].solution_count
    BY <2>2
  <2> QED BY <2>2, <2>3, <2>4, RankingKept
<1>5. CASE on_initialize
  BY <1>5, BlockKeeps, RankingKept
<1> QED BY <1>1, <1>2, <1>3, <1>4, <1>5, BookSteps

LEMMA RankingInit == Init => RankingInductive
<1> SUFFICES ASSUME Init PROVE RankingInductive
  OBVIOUS
<1>1. RankTypes
  <2>1. << >> \in Seq(Ranked)
    OBVIOUS
  <2> QED BY <2>1 DEF Init, RankTypes
<1>2. \A o \in OrderIds : JobOrders[o] = None /\ Untouched(o)
  BY DEF Init, Untouched, Participants
<1> QED BY <1>1, <1>2 DEF RankingInductive

\* The first m entries of a true ranking are m different solvers.
LEMMA PrefixCount ==
  ASSUME NEW R, NEW P, NEW score, NEW before, NEW n \in Nat,
         TrueRanking(R, P, score, before, n), Scored(P, score, before),
         NEW m \in 0..Len(R)
  PROVE  Cardinality({R[i].solver : i \in 1..m}) = m
<1> DEFINE W == {R[i].solver : i \in 1..m}
           f == [i \in 1..m |-> R[i].solver]
<1>1. Len(R) \in Nat /\ m \in Nat /\ 1..m \subseteq 1..Len(R)
  <2>1. Len(R) \in Nat
    BY DEF TrueRanking
  <2> QED BY <2>1
<1>2. \A i, j \in 1..m : i < j => R[i].solver # R[j].solver
  <2> SUFFICES ASSUME NEW i \in 1..m, NEW j \in 1..m, i < j PROVE R[i].solver # R[j].solver
    OBVIOUS
  <2>1. /\ Beats(score, before, R[i].solver, R[j].solver)
        /\ R[i].solver \in P /\ R[j].solver \in P
    BY <1>1 DEF TrueRanking
  <2> QED BY <2>1, BeatsAsym
<1>3. \A i, j \in 1..m : f[i] = f[j] => i = j
  <2> SUFFICES ASSUME NEW i \in 1..m, NEW j \in 1..m, i # j PROVE R[i].solver # R[j].solver
    OBVIOUS
  <2>1. i < j \/ j < i
    BY <1>1
  <2> QED BY <1>2, <2>1
<1>4. f \in Bijection(1..m, W)
  <2>1. f \in Injection(1..m, W)
    BY <1>3 DEF Injection, IsInjective
  <2>2. f \in Surjection(1..m, W)
    BY DEF Surjection
  <2> QED BY <2>1, <2>2 DEF Bijection
<1>5. IsFiniteSet(1..m) /\ Cardinality(1..m) = m
  BY <1>1, FS_Interval
<1> HIDE DEF W, f
<1>6. ExistsBijection(1..m, W)
  BY <1>4 DEF ExistsBijection
<1> QED BY <1>5, <1>6, FS_Bijection DEF W

\* Who is ranked, counted: the best n, each behind exactly those that outrank it.
LEMMA TrueRankingCounts ==
  ASSUME NEW R, NEW P, NEW score, NEW before, NEW n \in Nat, IsFiniteSet(P),
         TrueRanking(R, P, score, before, n), Scored(P, score, before)
  PROVE  /\ Len(R) = IF Cardinality(P) < n THEN Cardinality(P) ELSE n
         /\ \A i \in 1..Len(R) :
              Cardinality({s \in P : Beats(score, before, s, R[i].solver)}) = i - 1
<1>1. /\ Len(R) \in Nat /\ Len(R) <= n
      /\ \A i \in 1..Len(R) : R[i].solver \in P
      /\ \A i, j \in 1..Len(R) : i < j => Beats(score, before, R[i].solver, R[j].solver)
      /\ \A p \in P : \/ \E i \in 1..Len(R) : R[i].solver = p
                      \/ Len(R) = n /\ \A i \in 1..Len(R) : Beats(score, before, R[i].solver, p)
  BY DEF TrueRanking
<1> DEFINE W == {R[i].solver : i \in 1..Len(R)}
<1>2. W \subseteq P /\ Cardinality(W) = Len(R)
  BY <1>1, PrefixCount
<1>3. Cardinality(P) \in Nat /\ Cardinality(W) <= Cardinality(P)
  <2> HIDE DEF W
  <2> QED BY <1>2, FS_Subset, FS_CardinalityType
<1>4. W = P \/ Len(R) = n
  BY <1>1, <1>2
<1>5. Len(R) = IF Cardinality(P) < n THEN Cardinality(P) ELSE n
  <2> HIDE DEF W
  <2> QED BY <1>1, <1>2, <1>3, <1>4
<1>6. ASSUME NEW i \in 1..Len(R)
      PROVE  Cardinality({s \in P : Beats(score, before, s, R[i].solver)}) = i - 1
  <2> DEFINE ahead == {s \in P : Beats(score, before, s, R[i].solver)}
             first == {R[j].solver : j \in 1..(i - 1)}
  <2>1. i - 1 \in 0..Len(R) /\ \A j \in 1..(i - 1) : j \in 1..Len(R) /\ j < i
    BY <1>1
  <2>2. first \subseteq ahead
    BY <1>1, <2>1
  <2>3. ASSUME NEW s \in ahead PROVE s \in first
    <3>1. s \in P /\ ~Beats(score, before, R[i].solver, s) /\ s # R[i].solver
      BY <1>1, BeatsAsym
    <3>2. PICK j \in 1..Len(R) : R[j].solver = s
      BY <1>1, <3>1
    <3>3. ~(i < j) /\ i # j
      BY <1>1, <3>1, <3>2
    <3>4. j \in 1..(i - 1)
      BY <1>1, <3>3
    <3> QED BY <3>2, <3>4
  <2>4. ahead = first
    BY <2>2, <2>3
  <2> HIDE DEF ahead, first
  <2>5. Cardinality(first) = i - 1
    BY <2>1, PrefixCount DEF first
  <2>6. Cardinality(ahead) = i - 1
    BY <2>4, <2>5
  <2> QED BY <2>6 DEF ahead
<1> QED BY <1>5, <1>6

\* RankingInductive says what RankingIsTrue says.
LEMMA RankingFollows == RankingInductive => RankingIsTrue
<1> SUFFICES ASSUME RankingInductive, NEW o \in OrderIds, JobOrders[o] # None
             PROVE  LET ranking == StoredRanking(o)
                        P == Participants(o)
                        n == RankLimit(JobOrders[o].terms)
                    IN /\ JobOrders[o].solution_count = Cardinality(P)
                       /\ Len(ranking) = IF Cardinality(P) < n THEN Cardinality(P) ELSE n
                       /\ \A i \in DOMAIN ranking :
                            /\ ranking[i].solver \in P
                            /\ ranking[i].energy = OrderSolutions[o][ranking[i].solver]
                            /\ Cardinality({s \in P : Outranks(o, s, ranking[i].solver)}) = i - 1
  BY DEF RankingIsTrue
<1> DEFINE R == StoredRanking(o)
           P == Participants(o)
           n == RankLimit(JobOrders[o].terms)
<1>1. RankedTruly(o)
  BY DEF RankingInductive
<1>2. /\ n \in Nat /\ TrueRanking(R, P, OrderSolutions[o], arrival[o], n)
      /\ Scored(P, OrderSolutions[o], arrival[o])
      /\ JobOrders[o].solution_count = Cardinality(P)
  BY <1>1 DEF RankedTruly
<1>3. IsFiniteSet(P)
  BY LedgerAssumption, FS_Subset DEF Participants
<1> HIDE DEF R, P, n
<1>4. /\ Len(R) = IF Cardinality(P) < n THEN Cardinality(P) ELSE n
      /\ \A i \in 1..Len(R) :
           Cardinality({s \in P : Beats(OrderSolutions[o], arrival[o], s, R[i].solver)}) = i - 1
  BY <1>2, <1>3, TrueRankingCounts
<1>5. /\ DOMAIN R = 1..Len(R)
      /\ \A i \in 1..Len(R) : /\ R[i].solver \in P
                              /\ R[i].energy = OrderSolutions[o][R[i].solver]
  BY <1>2 DEF TrueRanking
<1>6. \A i \in 1..Len(R) :
         {s \in P : Beats(OrderSolutions[o], arrival[o], s, R[i].solver)}
           = {s \in P : Outranks(o, s, R[i].solver)}
  BY DEF Beats, Outranks
<1>7. \A i \in 1..Len(R) : Cardinality({s \in P : Outranks(o, s, R[i].solver)}) = i - 1
  BY <1>4, <1>6
<1> QED BY <1>2, <1>4, <1>5, <1>7 DEF R, P, n

LEMMA RankingInvariant == Spec => []RankingInductive
<1>1. QueueInductive => IdsAllocated
  BY DEF QueueInductive
<1> QED BY <1>1, RankingInit, RankingStep, TypeCorrect, QueueCorrect, PTL DEF Spec

(***************************************************************************)
(* The ranking update_ranking maintains step by step, in bounded storage   *)
(* and without the solvers it has truncated, is at every moment the true   *)
(* ranking of all submissions, for any number of solvers and winners.      *)
(***************************************************************************)
THEOREM RankingCorrect == Spec => []RankingIsTrue
  BY RankingInvariant, RankingFollows, PTL

-----------------------------------------------------------------------------
(* The three ways of splitting a reward. *)

LEMMA DivMod ==
  ASSUME NEW a \in Nat, NEW b \in Nat \ {0}
  PROVE  \E q, m \in Nat : /\ q = a \div b /\ m = a % b
                           /\ a = b * q + m /\ b * q <= a /\ m < b
<1>1. a - b * (a \div b) = a % b /\ a % b \in 0..(b - 1) /\ a \div b \in Nat
  OBVIOUS
<1> DEFINE q == a \div b
           m == a % b
<1>2. a - b * q = m /\ m \in 0..(b - 1) /\ q \in Nat
  BY <1>1
<1> HIDE DEF q, m
<1>3. b * q \in Int
  BY <1>2
<1>4. a = b * q + m /\ b * q <= a /\ m < b /\ m \in Nat
  BY <1>2, <1>3
<1>5. q = a \div b /\ m = a % b
  BY DEF q, m
<1> QED BY <1>2, <1>4, <1>5

LEMMA MulMono ==
  ASSUME NEW a \in Nat, NEW b \in Nat, NEW c \in Nat, a <= b
  PROVE  c * a <= c * b /\ c * a \in Nat /\ c * b \in Nat
  OBVIOUS

\* Division is monotone.
LEMMA DivBounds ==
  ASSUME NEW a \in Nat, NEW b \in Nat \ {0}, NEW c \in Nat
  PROVE  /\ b * c <= a => c <= a \div b
         /\ a <= c => a \div b <= c \div b
<1>1. ASSUME NEW x \in Nat, NEW y \in Nat, b * y <= x PROVE y <= x \div b
  <2>1. PICK q, m \in Nat : q = x \div b /\ x = b * q + m /\ m < b
    BY DivMod
  <2>2. b * (q + 1) = b * q + b
    BY <2>1
  <2>3. ~(q + 1 <= y)
    <3> SUFFICES ASSUME q + 1 <= y PROVE FALSE
      OBVIOUS
    <3>1. b * (q + 1) <= b * y
      BY <2>1, MulMono
    <3> QED BY <1>1, <2>1, <2>2, <3>1
  <2> QED BY <2>1, <2>3
<1>2. b * (a \div b) <= a /\ a \div b \in Nat
  BY DivMod
<1> QED BY <1>1, <1>2

(***************************************************************************)
(* What every split owes the ranking R: the ranked solvers and nobody else *)
(* are paid, the whole reward and no more, the better ranked no less, and  *)
(* nobody less than `least`.                                               *)
(***************************************************************************)
Splits(pay, R, reward, least) ==
  /\ DOMAIN pay = 1..Len(R) /\ pay = [i \in 1..Len(R) |-> pay[i]]
  /\ \A i \in 1..Len(R) : pay[i].solver = R[i].solver
  /\ \A i \in 1..Len(R) : pay[i].amount \in Nat /\ pay[i].amount >= least
  /\ \A i, j \in 1..Len(R) : i < j => pay[i].amount >= pay[j].amount
  /\ PayoutTotal(pay) = reward

\* A base share each, and what is left over for the first.
LEMMA BaseAndRest ==
  ASSUME NEW R \in Seq(Ranked), Len(R) > 0, NEW base \in [1..Len(R) -> Nat],
         NEW rest \in Nat, NEW least \in Nat, \A i \in 1..Len(R) : base[i] >= least,
         \A i, j \in 1..Len(R) : i < j => base[i] >= base[j],
         NEW pay, pay = [i \in 1..Len(R) |->
                          Payout(R[i], base[i] + (IF i = 1 THEN rest ELSE 0))]
  PROVE  Splits(pay, R, SumFunctionOnSet(base, 1..Len(R)) + rest, least)
<1> DEFINE D == 1..Len(R)
           amount == [i \in D |-> pay[i].amount]
<1>1. Len(R) \in Nat /\ 1 \in D /\ IsFiniteSet(D)
  BY FS_Interval
<1>2. DOMAIN pay = D /\ \A i \in D : /\ pay[i].solver = R[i].solver
                                     /\ pay[i].amount = base[i] + (IF i = 1 THEN rest ELSE 0)
  BY DEF Payout
<1>3. \A i \in D : base[i] \in Nat
  OBVIOUS
<1>4. \A i \in D : pay[i].amount \in Nat /\ pay[i].amount >= least
  <2> TAKE i \in D
  <2>1. /\ pay[i].amount = base[i] \/ pay[i].amount = base[i] + rest
        /\ base[i] \in Nat /\ base[i] >= least
    BY <1>2, <1>3
  <2> QED BY ONLY <2>1, rest \in Nat, least \in Nat
<1>5. \A i, j \in D : i < j => pay[i].amount >= pay[j].amount
  <2> TAKE i, j \in D
  <2> HAVE i < j
  <2>1. j # 1 /\ base[i] >= base[j]
    BY <1>1
  <2> QED BY <1>2, <1>3, <2>1
<1>6. SumFunctionOnSet(amount, D) = SumFunctionOnSet(base, D) + rest
  <2>1. \A i \in D : base[i] \in Int /\ amount[i] \in Int
    BY <1>3, <1>4
  <2>2. \A i \in D \ {1} : base[i] = amount[i]
    BY <1>2, <1>3
  <2>3. amount[1] = base[1] + rest /\ base[1] \in Nat
    BY <1>1, <1>2, <1>3
  <2> HIDE DEF amount, D
  <2>4. SumFunctionOnSet(amount, D) = SumFunctionOnSet(base, D) + amount[1] - base[1]
    BY ONLY <1>1, <2>1, <2>2, SumChange, Z3T(30)
  <2>5. SumFunctionOnSet(base, D) \in Int
    BY <1>1, <2>1, SumInt
  <2> QED BY <2>3, <2>4, <2>5
<1>7. PayoutTotal(pay) = SumFunctionOnSet(amount, D)
  BY <1>2 DEF PayoutTotal, SumFunction
<1>8. pay = [i \in 1..Len(R) |-> pay[i]]
  OBVIOUS
<1> QED BY <1>2, <1>4, <1>5, <1>6, <1>7, <1>8 DEF Splits

LEMMA EqualSplit ==
  ASSUME NEW R \in Seq(Ranked), Len(R) > 0, NEW reward \in Nat
  PROVE  Splits(top_n_equal_payouts(R, reward), R, reward, reward \div Len(R))
<1>1. Len(R) \in Nat \ {0}
  OBVIOUS
<1>2. PICK q, m \in Nat : q = reward \div Len(R) /\ m = reward % Len(R)
                          /\ reward = Len(R) * q + m
  <2>1. \E q, m \in Nat : /\ q = reward \div Len(R) /\ m = reward % Len(R)
                          /\ reward = Len(R) * q + m /\ Len(R) * q <= reward /\ m < Len(R)
    BY <1>1, DivMod, Zenon
  <2> QED BY <2>1, Zenon
<1> DEFINE base == [i \in 1..Len(R) |-> q]
           pay == top_n_equal_payouts(R, reward)
<1>3. SumFunctionOnSet(base, 1..Len(R)) = q * Len(R)
  <2>1. IsFiniteSet(1..Len(R)) /\ Cardinality(1..Len(R)) = Len(R)
    BY <1>1, FS_Interval
  <2>2. \A i \in 1..Len(R) : base[i] = q
    OBVIOUS
  <2> HIDE DEF base
  <2>3. SumFunctionOnSet(base, 1..Len(R)) = q * Cardinality(1..Len(R))
    BY <2>1, <2>2, SumConstant
  <2> QED BY <2>1, <2>3
<1>4. pay = [i \in 1..Len(R) |-> Payout(R[i], base[i] + (IF i = 1 THEN m ELSE 0))]
  BY <1>2 DEF top_n_equal_payouts
<1>5. /\ base \in [1..Len(R) -> Nat] /\ \A i \in 1..Len(R) : base[i] >= q
      /\ \A i, j \in 1..Len(R) : i < j => base[i] >= base[j]
  BY <1>2
<1> HIDE DEF base, pay
<1>6. Splits(pay, R, SumFunctionOnSet(base, 1..Len(R)) + m, q)
  BY <1>2, <1>4, <1>5, BaseAndRest
<1>7. SumFunctionOnSet(base, 1..Len(R)) + m = reward
  BY <1>1, <1>2, <1>3
<1>8. Splits(pay, R, reward, q)
  BY <1>6, <1>7
<1> QED BY <1>2, <1>8 DEF pay

\* floor(reward * weight / total), as rewards.rs computes it without overflow.
LEMMA ShareIs ==
  ASSUME NEW reward \in Nat, NEW total \in Nat \ {0}, NEW w \in Nat
  PROVE  /\ Share(reward, total, w) \in Nat
         /\ total * Share(reward, total, w) <= reward * w
         /\ w >= 1 => Share(reward, total, w) >= reward \div total
         /\ \A v \in Nat : v <= w => Share(reward, total, v) <= Share(reward, total, w)
<1>1. PICK q, m \in Nat : /\ q = reward \div total /\ m = reward % total
                          /\ reward = total * q + m /\ total * q <= reward /\ m < total
  BY DivMod, Zenon
<1>2. \A v \in Nat : m * v \in Nat
  BY <1>1
<1>3. \A v \in Nat : \E d \in Nat : d = (m * v) \div total /\ total * d <= m * v
  <2> TAKE v \in Nat
  <2> DEFINE x == m * v
  <2>1. x \in Nat
    BY <1>2
  <2> HIDE DEF x
  <2>2. \E d, l \in Nat : /\ d = x \div total /\ l = x % total
                          /\ x = total * d + l /\ total * d <= x /\ l < total
    BY <2>1, DivMod, Zenon
  <2>3. \E d \in Nat : d = x \div total /\ total * d <= x
    BY <2>2, Zenon
  <2> QED BY <2>3 DEF x
<1>4. \A v \in Nat : Share(reward, total, v) = q * v + (m * v) \div total
  BY <1>1 DEF Share
<1>5. PICK d \in Nat : d = (m * w) \div total /\ total * d <= m * w
  BY <1>3, Zenon
<1>6. Share(reward, total, w) = q * w + d
  BY <1>4, <1>5
<1>7. q * w \in Nat
  BY <1>1
<1>8. total * (q * w + d) <= reward * w
  <2>1. total * (q * w + d) = (total * q) * w + total * d
    BY <1>1, <1>5
  <2>2. reward * w = (total * q) * w + m * w
    BY <1>1
  <2>3. (total * q) * w \in Int /\ total * d \in Int /\ m * w \in Int
    BY <1>1, <1>5
  <2> QED BY <1>5, <2>1, <2>2, <2>3
<1>9. w >= 1 => q * w >= q
  BY <1>1, MulMono
<1>10. ASSUME NEW v \in Nat, v <= w PROVE Share(reward, total, v) <= Share(reward, total, w)
  <2>1. PICK c \in Nat : c = (m * v) \div total
    BY <1>3, Zenon
  <2>2. q * v <= q * w /\ q * v \in Nat
    BY <1>1, <1>10, MulMono
  <2>3. c <= d
    <3> DEFINE x == m * v
               y == m * w
    <3>1. x \in Nat /\ y \in Nat /\ x <= y
      BY <1>1, <1>10, MulMono
    <3>2. c = x \div total /\ d = y \div total
      BY <1>5, <2>1
    <3> HIDE DEF x, y
    <3> QED BY <3>1, <3>2, DivBounds
  <2>4. Share(reward, total, v) = q * v + c
    BY <1>4, <2>1
  <2> QED BY <1>5, <1>6, <1>7, <2>1, <2>2, <2>3, <2>4
<1>11. Share(reward, total, w) \in Nat /\ total * Share(reward, total, w) <= reward * w
  BY <1>5, <1>6, <1>7, <1>8
<1>12. w >= 1 => Share(reward, total, w) >= q
  BY <1>1, <1>5, <1>6, <1>7, <1>9
<1> QED BY <1>1, <1>10, <1>11, <1>12

\* The weights k, k - 1, ..., 1 add up to the triangular number.
LEMMA WeightsSum ==
  ASSUME NEW k \in Nat, NEW w, w = [i \in 1..k |-> k - i + 1]
  PROVE  2 * SumFunctionOnSet(w, 1..k) = k * (k + 1)
<1> DEFINE Sum(j) == SumFunctionOnSet(w, 1..j)
           F == {1..j : j \in {j \in 0..k : 2 * Sum(j) # j * (2 * k - j + 1)}}
<1>1. IsFiniteSet(1..k)
  BY FS_Interval
<1>2. F = {}
  <2> SUFFICES ASSUME F # {} PROVE FALSE
    OBVIOUS
  <2>1. PICK T \in F : \A U \in F : U \subseteq T => U = T
    <3> DEFINE S == 1..k
    <3>1. F \subseteq SUBSET S
      OBVIOUS
    <3>2. IsFiniteSet(S)
      BY <1>1
    <3> HIDE DEF F, S
    <3>3. F # {}
      OBVIOUS
    <3> QED BY ONLY <3>1, <3>2, <3>3, MinimalSubset
  <2>2. PICK j \in 0..k : T = 1..j /\ 2 * Sum(j) # j * (2 * k - j + 1)
    BY <2>1
  <2>3. j # 0
    <3> SUFFICES ASSUME j = 0 PROVE FALSE
      OBVIOUS
    <3>1. 1..j = {}
      OBVIOUS
    <3>2. SumFunctionOnSet(w, {}) = 0
      BY SumEmpty
    <3>3. Sum(j) = 0
      BY <3>1, <3>2
    <3> HIDE DEF Sum
    <3> QED BY <2>2, <3>3
  <2>4. j - 1 \in 0..k /\ 1..(j - 1) \subseteq 1..j /\ 1..(j - 1) # 1..j
        /\ 1..(j - 1) = (1..j) \ {j} /\ j \in 1..j
    BY <2>3
  <2>5. 2 * Sum(j - 1) = (j - 1) * (2 * k - (j - 1) + 1)
    BY <2>1, <2>2, <2>4
  <2>6. Sum(j) = w[j] + Sum(j - 1)
    <3>1. j \in Nat \ {0}
      BY <2>3
    <3>2. \A y \in 1..j : w[y] \in Int
      OBVIOUS
    <3> QED BY ONLY <3>1, <3>2, SumUpTo
  <2>7. w[j] = k - j + 1 /\ Sum(j - 1) \in Int
    <3>1. w[j] = k - j + 1
      BY <2>4
    <3>2. IsFiniteSet(1..(j - 1)) /\ \A y \in 1..(j - 1) : w[y] \in Int
      BY <2>4, FS_Interval
    <3>3. SumFunctionOnSet(w, 1..(j - 1)) \in Int
      BY <3>2, SumInt
    <3> QED BY <3>1, <3>3
  <2> HIDE DEF Sum, F
  <2>8. 2 * Sum(j) = 2 * (k - j + 1) + (j - 1) * (2 * k - (j - 1) + 1)
    <3>1. PICK b : b = (j - 1) * (2 * k - (j - 1) + 1)
      OBVIOUS
    <3> QED BY ONLY <2>5, <2>6, <2>7, <3>1, k \in Nat, j \in Int
  <2>9. 2 * (k - j + 1) + (j - 1) * (2 * k - (j - 1) + 1) = j * (2 * k - j + 1)
    OBVIOUS
  <2> QED BY <2>2, <2>8, <2>9
<1>3. 2 * Sum(k) = k * (2 * k - k + 1)
  <2> SUFFICES ASSUME 2 * Sum(k) # k * (2 * k - k + 1) PROVE FALSE
    OBVIOUS
  <2>1. 1..k \in F
    OBVIOUS
  <2> HIDE DEF F
  <2> QED BY <1>2, <2>1
<1>4. 2 * k - k + 1 = k + 1
  OBVIOUS
<1> QED BY <1>3, <1>4
LEMMA WeightedSplit ==
  ASSUME NEW R \in Seq(Ranked), Len(R) > 0, NEW reward \in Nat
  PROVE  Splits(top_n_weighted_payouts(R, reward), R, reward,
                reward \div ((Len(R) * (Len(R) + 1)) \div 2))
<1>1. PICK k \in Nat \ {0} : k = Len(R)
  OBVIOUS
<1> DEFINE D == 1..k
           w == [i \in D |-> k - i + 1]
           total == (k * (k + 1)) \div 2
           shares == [i \in D |-> Share(reward, total, k - i + 1)]
           pay == top_n_weighted_payouts(R, reward)
<1>2. IsFiniteSet(D) /\ \A i \in D : w[i] \in Nat /\ w[i] >= 1 /\ w[i] = k - i + 1
  BY FS_Interval
<1>3. total \in Nat \ {0} /\ total = SumFunctionOnSet(w, D)
  <2>1. 2 * SumFunctionOnSet(w, D) = k * (k + 1)
    BY WeightsSum
  <2>2. SumFunctionOnSet(w, D) \in Nat
    <3>1. \A i \in D : w[i] \in Nat
      BY <1>2
    <3> HIDE DEF D, w
    <3> QED BY <1>2, <3>1, SumNat
  <2> DEFINE S == SumFunctionOnSet(w, D)
  <2>3. S \in Nat /\ 2 * S = k * (k + 1)
    BY <2>1, <2>2
  <2> HIDE DEF S
  <2>4. k * (k + 1) >= 1
    OBVIOUS
  <2>5. (2 * S) \div 2 = S /\ S # 0
    BY <2>3, <2>4
  <2> QED BY <2>3, <2>5 DEF S
<1> HIDE DEF total
<1>4. \A i \in D : /\ shares[i] \in Nat /\ total * shares[i] <= reward * w[i]
                   /\ shares[i] >= reward \div total
  <2> TAKE i \in D
  <2>1. w[i] \in Nat /\ w[i] >= 1 /\ shares[i] = Share(reward, total, w[i])
    BY <1>2
  <2> HIDE DEF shares, w
  <2> QED BY <1>3, <2>1, ShareIs
<1>5. \A i, j \in D : i < j => shares[i] >= shares[j]
  <2> TAKE i, j \in D
  <2> HAVE i < j
  <2>1. /\ w[i] \in Nat /\ w[j] \in Nat /\ w[j] <= w[i]
        /\ shares[i] = Share(reward, total, w[i]) /\ shares[j] = Share(reward, total, w[j])
    BY <1>2
  <2> HIDE DEF shares, w
  <2>2. Share(reward, total, w[j]) <= Share(reward, total, w[i])
    BY <1>3, <2>1, ShareIs
  <2>3. Share(reward, total, w[j]) \in Nat /\ Share(reward, total, w[i]) \in Nat
    BY <1>3, <2>1, ShareIs
  <2> QED BY <2>1, <2>2, <2>3
<1>6. shares \in [D -> Nat]
  BY <1>4
<1>7. PICK sum \in Nat : sum = SumFunctionOnSet(shares, D)
  <2> HIDE DEF D, shares
  <2> QED BY <1>2, <1>4, SumNat
<1>8. sum <= reward
  <2> DEFINE A == [i \in D |-> total * shares[i]]
             B == [i \in D |-> reward * w[i]]
  <2>1. \A i \in D : A[i] \in Int /\ B[i] \in Int /\ A[i] <= B[i]
    BY <1>2, <1>3, <1>4
  <2>2. \A i \in D : shares[i] \in Int /\ A[i] = total * shares[i]
    BY <1>4
  <2>3. \A i \in D : w[i] \in Int /\ B[i] = reward * w[i]
    BY <1>2
  <2>4. total \in Int /\ reward \in Int
    BY <1>3
  <2> HIDE DEF D, A, B, shares, w
  <2>5. SumFunctionOnSet(A, D) <= SumFunctionOnSet(B, D)
    BY <1>2, <2>1, SumMonotone
  <2>6. SumFunctionOnSet(A, D) = total * SumFunctionOnSet(shares, D)
    BY <1>2, <2>2, <2>4, SumScale
  <2>7. SumFunctionOnSet(B, D) = reward * SumFunctionOnSet(w, D)
    BY <1>2, <2>3, <2>4, SumScale
  <2>8. total * sum <= reward * total
    BY <1>3, <1>7, <2>5, <2>6, <2>7
  <2>9. ~(reward + 1 <= sum)
    <3> SUFFICES ASSUME reward + 1 <= sum PROVE FALSE
      OBVIOUS
    <3>1. total * (reward + 1) <= total * sum
      BY <1>3, MulMono
    <3>2. total * (reward + 1) = reward * total + total
      BY <1>3
    <3>3. reward * total \in Nat /\ total * sum \in Nat
      BY <1>3
    <3>4. PICK a, b \in Nat : a = reward * total /\ b = total * sum
      BY <3>3
    <3>5. b <= a /\ a + total <= b /\ total \in Nat /\ total > 0
      BY <1>3, <2>8, <3>1, <3>2, <3>4
    <3> QED BY ONLY <3>5, a \in Nat, b \in Nat
  <2> QED BY <2>9
<1> DEFINE rest == reward - sum
<1>9. pay = [i \in 1..Len(R) |-> Payout(R[i], shares[i] + (IF i = 1 THEN rest ELSE 0))]
  <2>1. SumFunction(shares) = sum
    BY <1>6, <1>7 DEF SumFunction
  <2>2. total = (Len(R) * (Len(R) + 1)) \div 2
    BY <1>1 DEF total
  <2>3. shares = [i \in 1..Len(R) |-> Share(reward, (Len(R) * (Len(R) + 1)) \div 2, Len(R) - i + 1)]
    BY <1>1, <2>2
  <2> HIDE DEF shares
  <2> QED BY <2>1, <2>2, <2>3, Zenon DEF top_n_weighted_payouts
<1>10. rest \in Nat /\ sum + rest = reward
  BY <1>8
<1>11. /\ shares \in [1..Len(R) -> Nat] /\ \A i \in 1..Len(R) : shares[i] >= reward \div total
       /\ \A i, j \in 1..Len(R) : i < j => shares[i] >= shares[j]
  BY <1>1, <1>4, <1>5, <1>6
<1>12. reward \div total \in Nat
  BY <1>3, DivMod
<1>13. sum = SumFunctionOnSet(shares, 1..Len(R))
  BY <1>1, <1>7
<1>15. total = (Len(R) * (Len(R) + 1)) \div 2
  BY <1>1 DEF total
<1> HIDE DEF shares, pay, rest
<1>14. Splits(pay, R, SumFunctionOnSet(shares, 1..Len(R)) + rest, reward \div total)
  BY <1>9, <1>10, <1>11, <1>12, BaseAndRest
<1> QED BY <1>10, <1>13, <1>14, <1>15 DEF pay

LEMMA SingleSplit ==
  ASSUME NEW front \in Ranked, NEW reward \in Nat
  PROVE  Splits(single_best_payouts(front, reward), <<front>>, reward, reward)
<1> DEFINE R == <<front>>
           base == [i \in 1..Len(R) |-> reward]
           rest == 0
           pay == single_best_payouts(front, reward)
<1>1. R \in Seq(Ranked) /\ Len(R) = 1 /\ R[1] = front
  OBVIOUS
<1>2. pay = [i \in 1..Len(R) |-> Payout(R[i], base[i] + (IF i = 1 THEN rest ELSE 0))]
  BY <1>1 DEF single_best_payouts
<1>3. /\ base \in [1..Len(R) -> Nat] /\ \A i \in 1..Len(R) : base[i] >= reward
      /\ \A i, j \in 1..Len(R) : i < j => base[i] >= base[j]
  BY <1>1
<1>4. SumFunctionOnSet(base, 1..Len(R)) = reward
  <2>1. IsFiniteSet(1..Len(R)) /\ Cardinality(1..Len(R)) = 1
    <3>1. 1..Len(R) = {1}
      BY <1>1
    <3> QED BY <3>1, FS_Singleton
  <2>2. \A i \in 1..Len(R) : base[i] = reward
    OBVIOUS
  <2> HIDE DEF base, R
  <2>3. SumFunctionOnSet(base, 1..Len(R)) = reward * Cardinality(1..Len(R))
    BY <2>1, <2>2, SumConstant
  <2> QED BY <2>1, <2>3
<1>5. rest \in Nat /\ reward + rest = reward /\ Len(R) > 0
  BY <1>1
<1> HIDE DEF base, pay, R, rest
<1>6. Splits(pay, R, SumFunctionOnSet(base, 1..Len(R)) + rest, reward)
  BY <1>1, <1>2, <1>3, <1>5, BaseAndRest
<1> QED BY <1>4, <1>5, <1>6 DEF pay, R

\* The sum of the weights of k winners, the divisor that makes the smallest share.
Triangle(k) == (k * (k + 1)) \div 2

LEMMA TriangleBounds ==
  ASSUME NEW k \in Nat \ {0}, NEW n \in Nat, k <= n
  PROVE  Triangle(k) \in Nat \ {0} /\ k <= Triangle(k) /\ Triangle(k) <= Triangle(n)
<1>1. PICK a, c \in Nat : a = k * (k + 1) /\ c = n * (n + 1)
  OBVIOUS
<1>2. 2 * k <= a
  <2>1. k * 2 <= k * (k + 1)
    BY MulMono
  <2> QED BY <1>1, <2>1
<1>3. a <= c
  <2>1. k * (k + 1) <= k * (n + 1)
    BY MulMono
  <2>2. (n + 1) * k <= (n + 1) * n
    BY MulMono
  <2>3. (n + 1) * k = k * (n + 1) /\ (n + 1) * n = n * (n + 1)
    OBVIOUS
  <2>4. k * (n + 1) \in Nat
    OBVIOUS
  <2> QED BY <1>1, <2>1, <2>2, <2>3, <2>4
<1>4. k <= a \div 2 /\ a \div 2 <= c \div 2
  BY <1>2, <1>3, DivBounds
<1>5. a \div 2 \in Nat
  OBVIOUS
<1> QED BY <1>1, <1>4, <1>5 DEF Triangle

\* The larger the divisor, the smaller the quotient.
LEMMA DivAnti ==
  ASSUME NEW r \in Nat, NEW k \in Nat \ {0}, NEW t \in Nat \ {0}, k <= t
  PROVE  r \div t <= r \div k /\ r \div t \in Nat /\ r \div k \in Nat
<1>1. PICK q, m \in Nat : /\ q = r \div t /\ m = r % t
                          /\ r = t * q + m /\ t * q <= r /\ m < t
  BY DivMod, Zenon
<1>2. q * k <= q * t
  BY MulMono
<1>3. k * q = q * k /\ t * q = q * t /\ k * q \in Nat /\ t * q \in Nat
  OBVIOUS
<1>4. k * q <= r
  BY <1>1, <1>2, <1>3
<1>5. q <= r \div k
  BY <1>4, DivBounds
<1> QED BY <1>1, <1>5

LEMMA SplitsLess ==
  ASSUME NEW pay, NEW R \in Seq(Ranked), NEW reward \in Nat, NEW l \in Nat, NEW m \in Nat, m <= l,
         Splits(pay, R, reward, l)
  PROVE  Splits(pay, R, reward, m)
  BY DEF Splits

\* What finalise_order announces and claim_reward pays splits the order's reward.
LEMMA PayoutsSplit ==
  ASSUME TypeOK, RankingInductive, NEW o \in OrderIds, JobOrders[o] # None, HasRanking(o)
  PROVE  /\ StoredRanking(o) \in Seq(Ranked) /\ Len(StoredRanking(o)) > 0
         /\ Splits(compute_payouts(o), StoredRanking(o), RewardOf(o),
                   RewardOf(o) \div Triangle(Len(StoredRanking(o))))
<1> DEFINE kind == JobOrders[o].terms.resolution.kind
           reward == RewardOf(o)
           R == StoredRanking(o)
<1>1. reward \in Nat /\ kind \in {"SingleBest", "TopNEqual", "TopNWeighted"}
  BY TermsAssumption DEF TypeOK, Order, RewardOf
<1>2. R \in Seq(Ranked)
  BY DEF RankingInductive, RankedTruly, TrueRanking
<1>3. CASE kind = "SingleBest"
  <2>1. PICK front : front = OrderFrontRunner[o]
    OBVIOUS
  <2>2. R = <<front>> /\ front # None /\ front \in Ranked
    BY <1>3, <2>1 DEF StoredRanking, HasRanking, RankingInductive, RankTypes
  <2>3. compute_payouts(o) = single_best_payouts(front, reward)
    BY <1>3, <2>1 DEF compute_payouts, RewardOf
  <2>4. Splits(single_best_payouts(front, reward), <<front>>, reward, reward)
    BY <1>1, <2>2, SingleSplit
  <2>5. Len(R) = 1
    BY <2>2
  <2>6. Triangle(Len(R)) = 1
    BY <2>5 DEF Triangle
  <2>7. reward \div Triangle(Len(R)) = reward
    <3> HIDE DEF reward, R
    <3> QED BY <1>1, <2>6
  <2> HIDE DEF R, reward
  <2> QED BY <1>2, <2>2, <2>3, <2>4, <2>5, <2>7 DEF R, reward
<1>4. CASE kind # "SingleBest"
  <2>1. R = OrderTopSolvers[o] /\ Len(R) > 0 /\ Len(R) \in Nat \ {0}
    <3>1. R = OrderTopSolvers[o] /\ R # << >>
      BY <1>4 DEF StoredRanking, HasRanking
    <3> QED BY <1>2, <3>1
  <2>2. CASE kind = "TopNEqual"
    <3>1. compute_payouts(o) = top_n_equal_payouts(R, reward)
      BY <2>1, <2>2 DEF compute_payouts, RewardOf
    <3>2. Splits(compute_payouts(o), R, reward, reward \div Len(R))
      <4> HIDE DEF R, reward
      <4> QED BY <1>1, <1>2, <2>1, <3>1, EqualSplit
    <3>3. PICK t : t = Triangle(Len(R))
      OBVIOUS
    <3>4. t \in Nat \ {0} /\ Len(R) <= t
      BY <2>1, <3>3, TriangleBounds
    <3>5. reward \div t <= reward \div Len(R) /\ reward \div t \in Nat /\ reward \div Len(R) \in Nat
      BY <1>1, <2>1, <3>4, DivAnti
    <3> HIDE DEF R, reward
    <3>6. Splits(compute_payouts(o), R, reward, reward \div t)
      BY <1>1, <1>2, <3>2, <3>5, SplitsLess
    <3> QED BY <1>2, <2>1, <3>3, <3>6 DEF R, reward
  <2>3. CASE kind = "TopNWeighted"
    <3>1. compute_payouts(o) = top_n_weighted_payouts(R, reward)
      BY <2>1, <2>3 DEF compute_payouts, RewardOf
    <3> HIDE DEF R, reward
    <3>2. Splits(compute_payouts(o), R, reward, reward \div ((Len(R) * (Len(R) + 1)) \div 2))
      BY <1>1, <1>2, <2>1, <3>1, WeightedSplit
    <3> QED BY <1>2, <2>1, <3>2 DEF R, reward, Triangle
  <2> QED BY <1>1, <1>4, <2>2, <2>3
<1> QED BY <1>3, <1>4

\* A solved order has a ranking: the branch finalise_order calls defensive is dead.
LEMMA SolvedIsRanked ==
  ASSUME TypeOK, RankingInductive, NEW o \in OrderIds, JobOrders[o] # None,
         JobOrders[o].solution_count > 0
  PROVE  HasRanking(o)
<1> DEFINE P == Participants(o)
           R == StoredRanking(o)
           n == RankLimit(JobOrders[o].terms)
<1>1. /\ n \in Nat \ {0} /\ TrueRanking(R, P, OrderSolutions[o], arrival[o], n)
      /\ JobOrders[o].solution_count = Cardinality(P)
  BY DEF RankingInductive, RankedTruly
<1>2. P # {}
  BY <1>1, FS_EmptySet
<1>3. R # << >>
  <2> HIDE DEF P, R, n
  <2>1. PICK p \in P : TRUE
    BY <1>2
  <2>2. (\E i \in 1..Len(R) : R[i].solver = p) \/ Len(R) = n
    BY <1>1, <2>1 DEF TrueRanking
  <2> QED BY <1>1, <2>2
<1> QED BY <1>3 DEF StoredRanking, HasRanking

-----------------------------------------------------------------------------
(* The money. *)

\* What the accounts receive when `pay` is paid out: nobody but the ranked solvers gets
\* anything, and all of it together is the reward.
Distributed(pay, R, reward) ==
  /\ \A a \in Accounts : AmountFor(pay, a) \in Nat /\ AmountFor(pay, a) <= reward
  /\ \A a \in Accounts : (\A i \in 1..Len(R) : R[i].solver # a) => AmountFor(pay, a) = 0
  /\ SumFunctionOnSet([a \in Accounts |-> AmountFor(pay, a)], Accounts) = reward

LEMMA SplitsDistribute ==
  ASSUME NEW pay, NEW R \in Seq(Ranked), NEW reward \in Nat, NEW least \in Nat,
         Splits(pay, R, reward, least)
  PROVE  Distributed(pay, R, reward)
<1>1. PICK D : D = 1..Len(R)
  OBVIOUS
<1>2. IsFiniteSet(D) /\ DOMAIN pay = D
  <2>1. DOMAIN pay = D
    BY <1>1 DEF Splits
  <2>2. IsFiniteSet(D)
    BY <1>1, FS_Interval
  <2> QED BY <2>1, <2>2
<1> DEFINE part == [a \in Accounts |->
                      [i \in D |-> IF pay[i].solver = a THEN pay[i].amount ELSE 0]]
           own == [i \in D |-> pay[i].solver]
           amt == [i \in D |-> pay[i].amount]
           got == [a \in Accounts |-> AmountFor(pay, a)]
<1>3. \A i \in D : pay[i].amount \in Nat /\ pay[i].solver = R[i].solver /\ R[i] \in Ranked
  BY <1>1 DEF Splits
<1>4. \A i \in D : own[i] \in Accounts
  BY <1>3 DEF Ranked
<1>5. \A i \in D : amt[i] \in Int
  BY <1>3
<1>6. \A a \in Accounts : \A i \in D : part[a][i] = IF own[i] = a THEN amt[i] ELSE 0
  OBVIOUS
<1>7. \A a \in Accounts : got[a] = SumFunctionOnSet(part[a], D)
  BY <1>2 DEF AmountFor, SumFunction
<1>8. \A a \in Accounts : \A i \in D : part[a][i] \in Nat
  BY <1>3
<1>9. SumFunctionOnSet(amt, D) = reward
  BY <1>2 DEF Splits, PayoutTotal, SumFunction
<1>10. IsFiniteSet(Accounts)
  BY LedgerAssumption
<1>11. ASSUME NEW a \in Accounts, \A i \in D : own[i] # a PROVE got[a] = 0
  <2>1. PICK h : h = part[a]
    OBVIOUS
  <2>2. \A i \in D : h[i] = 0
    BY <1>6, <1>11, <2>1
  <2> HIDE DEF part, got
  <2>3. SumFunctionOnSet(h, D) = 0 * Cardinality(D)
    BY <1>2, <2>2, SumConstant
  <2> QED BY <1>2, <1>7, <2>1, <2>3, FS_CardinalityType
<1>12. \A a \in Accounts : (\A i \in 1..Len(R) : R[i].solver # a) => AmountFor(pay, a) = 0
  BY <1>1, <1>3, <1>11
<1>13. \A a \in Accounts : got[a] = AmountFor(pay, a)
  OBVIOUS
<1>14. \A a \in Accounts : got[a] \in Nat
  <2> TAKE a \in Accounts
  <2>1. PICK h : h = part[a]
    OBVIOUS
  <2>2. \A i \in D : h[i] \in Nat
    BY <1>8, <2>1
  <2>3. SumFunctionOnSet(h, D) \in Nat
    BY <1>2, <2>2, SumNat
  <2> HIDE DEF part, got
  <2> QED BY <1>7, <2>1, <2>3
<1> HIDE DEF part, own, amt, got
<1>15. SumFunctionOnSet(got, Accounts) = reward
  <2>1. SumFunctionOnSet(got, Accounts) = SumFunctionOnSet(amt, D)
    BY ONLY <1>2, <1>4, <1>5, <1>6, <1>7, <1>10, SumByOwner, Z3T(30)
  <2> QED BY <1>9, <2>1
<1>16. \A a \in Accounts : got[a] <= reward
  <2> TAKE a \in Accounts
  <2>1. got[a] <= SumFunctionOnSet(got, Accounts)
    BY <1>10, <1>14, SumMember
  <2> QED BY <1>15, <2>1
<1>17. SumFunctionOnSet([a \in Accounts |-> AmountFor(pay, a)], Accounts) = reward
  BY <1>15 DEF got
<1> QED BY <1>12, <1>13, <1>14, <1>16, <1>17 DEF Distributed

-----------------------------------------------------------------------------
\* The orders an account's reserve stands for.
Held(p) == {o \in OrderIds : Unsettled(o) /\ JobOrders[o].proposer = p}

Backed(p) ==
  /\ ProposerOrders[p] = Held(p)
  /\ Cardinality(Held(p)) <= MaxOrdersPerProposer
  /\ reserved[p] = SumFunctionOnSet([o \in Held(p) |-> RewardOf(o)], Held(p))

\* What the accounts own together, deposits held by other pallets aside.
Funds == SumFunction([a \in Accounts |-> free[a] + reserved[a]])

(***************************************************************************)
(* The part of EscrowBacksOrders about orders, with the types it needs: in *)
(* particular no free balance ever becomes negative.  What a mempool step  *)
(* does to Funds is proved beside it.                                      *)
(***************************************************************************)
MoneyInductive ==
  /\ free \in [Accounts -> Nat] /\ reserved \in [Accounts -> Int]
  /\ ProposerOrders \in [Accounts -> SUBSET OrderIds]
  /\ \A o \in OrderIds : JobOrders[o] # None => RewardOf(o) >= MinReward
  /\ \A p \in Accounts : Backed(p)

LEMMA BacksFollows == MoneyInductive /\ Funds = SumFunction(InitialFree) => EscrowBacksOrders
  BY DEF MoneyInductive, EscrowBacksOrders, Backed, Held, Funds

LEMMA RewardIsNat ==
  ASSUME TypeOK
  PROVE  \A o \in OrderIds : JobOrders[o] # None => RewardOf(o) \in Nat
  BY TermsAssumption DEF TypeOK, Order, RewardOf

LEMMA HeldFinite ==
  ASSUME NEW p
  PROVE  IsFiniteSet(Held(p)) /\ Cardinality(Held(p)) \in Nat
<1>1. IsFiniteSet(Held(p))
  BY OrderIdsAssumption, FS_Subset DEF Held
<1> QED BY <1>1, FS_CardinalityType

\* An account whose orders and money a step leaves alone stays backed.
LEMMA BackedKept ==
  ASSUME NEW p, Backed(p), ProposerOrders'[p] = ProposerOrders[p], reserved'[p] = reserved[p],
         Held(p)' = Held(p), \A o \in Held(p) : RewardOf(o)' = RewardOf(o)
  PROVE  Backed(p)'
<1>1. [o \in Held(p) |-> RewardOf(o)'] = [o \in Held(p) |-> RewardOf(o)]
  OBVIOUS
<1>2. reserved'[p] = SumFunctionOnSet([o \in Held(p)' |-> RewardOf(o)'], Held(p)')
  BY <1>1 DEF Backed
<1> QED BY <1>2 DEF Backed

\* Steps that move no money, and of an order at most its status short of closing it.
LEMMA MoneyKept ==
  ASSUME MoneyInductive, UNCHANGED <<free, reserved, ProposerOrders>>,
         \A o \in OrderIds : JobOrders[o] = None <=> JobOrders'[o] = None,
         \A o \in OrderIds : JobOrders[o] # None =>
            /\ JobOrders'[o].terms = JobOrders[o].terms
            /\ JobOrders'[o].proposer = JobOrders[o].proposer
            /\ JobOrders'[o].status = "Closed" <=> JobOrders[o].status = "Closed"
  PROVE  MoneyInductive' /\ Funds' = Funds
<1>1. ASSUME NEW p \in Accounts PROVE Backed(p)'
  <2>1. Held(p)' = Held(p) /\ \A o \in Held(p) : RewardOf(o)' = RewardOf(o)
    BY DEF Held, Unsettled, RewardOf
  <2>2. Backed(p)
    BY DEF MoneyInductive
  <2> QED BY <2>1, <2>2, BackedKept
<1>2. \A o \in OrderIds : JobOrders'[o] # None => RewardOf(o)' >= MinReward
  BY DEF MoneyInductive, RewardOf
<1> QED BY <1>1, <1>2 DEF MoneyInductive, Funds

LEMMA ProposePays ==
  ASSUME TypeOK, IdsAllocated, MoneyInductive, NEW who \in Proposers, NEW t \in Terms, NEW c,
         do_propose_job(who, t, c)
  PROVE  MoneyInductive' /\ Funds' = Funds
<1>0. PICK id : id = NextOrderId
  OBVIOUS
<1>1. /\ id \in OrderIds /\ JobOrders[id] = None /\ JobOrders'[id] # None
      /\ \A o \in OrderIds \ {id} : JobOrders'[o] = JobOrders[o]
      /\ JobOrders'[id].terms = t /\ JobOrders'[id].proposer = who
      /\ JobOrders'[id].status = "Opened"
  <2>1. id \in OrderIds /\ JobOrders[id] = None
    BY <1>0, OrderIdsAssumption DEF do_propose_job, IdsAllocated, TypeOK
  <2> DEFINE new == [proposer |-> who, terms |-> t, status |-> "Opened", created_at |-> now,
                     first_solution_at |-> None, solution_count |-> 0]
  <2>2. new \in Order /\ JobOrders' = [JobOrders EXCEPT ![id] = new]
    BY <1>0, ProposeStores
  <2>3. new.terms = t /\ new.proposer = who /\ new.status = "Opened"
    OBVIOUS
  <2> HIDE DEF new
  <2> QED BY <2>1, <2>2, <2>3, NoneAssumption DEF TypeOK
<1>2. /\ who \in Accounts /\ t.reward \in Nat /\ t.reward >= MinReward
      /\ free[who] >= t.reward + ExistentialDeposit
      /\ Cardinality(ProposerOrders[who]) < MaxOrdersPerProposer
      /\ free' = [free EXCEPT ![who] = @ - t.reward]
      /\ reserved' = [reserved EXCEPT ![who] = @ + t.reward]
      /\ ProposerOrders' = [ProposerOrders EXCEPT ![who] = @ \cup {id}]
  BY <1>0, TermsAssumption, BoundsAssumption DEF do_propose_job, AcceptableTerms, CanReserve
<1>3. /\ free \in [Accounts -> Nat] /\ reserved \in [Accounts -> Int]
      /\ ProposerOrders \in [Accounts -> SUBSET OrderIds]
  BY DEF MoneyInductive
<1>4. /\ free' \in [Accounts -> Nat] /\ reserved' \in [Accounts -> Int]
      /\ ProposerOrders' \in [Accounts -> SUBSET OrderIds]
  <2>1. free[who] - t.reward \in Nat
    BY <1>2, <1>3, BoundsAssumption
  <2> QED BY <1>1, <1>2, <1>3, <2>1
<1>5. \A o \in OrderIds : JobOrders'[o] # None => RewardOf(o)' >= MinReward
  BY <1>1, <1>2 DEF MoneyInductive, RewardOf
<1>6. ASSUME NEW p \in Accounts \ {who} PROVE Backed(p)'
  <2>1. Held(p)' = Held(p) /\ \A o \in Held(p) : RewardOf(o)' = RewardOf(o)
    BY <1>1 DEF Held, Unsettled, RewardOf
  <2>2. Backed(p)
    BY DEF MoneyInductive
  <2>3. ProposerOrders'[p] = ProposerOrders[p] /\ reserved'[p] = reserved[p]
    BY <1>2, <1>3
  <2> QED BY <2>1, <2>2, <2>3, BackedKept
<1>7. Backed(who)'
  <2>1. Held(who)' = Held(who) \cup {id} /\ id \notin Held(who)
    BY <1>1 DEF Held, Unsettled
  <2>2. Backed(who) /\ IsFiniteSet(Held(who))
    BY <1>2, HeldFinite DEF MoneyInductive
  <2>3. Cardinality(Held(who)') <= MaxOrdersPerProposer
    <3>1. Cardinality(Held(who)) < MaxOrdersPerProposer
      BY <1>2, <2>2 DEF Backed
    <3>2. Cardinality(Held(who) \cup {id}) = Cardinality(Held(who)) + 1
      BY <2>1, <2>2, FS_AddElement
    <3> QED BY <2>1, <3>1, <3>2, HeldFinite, BoundsAssumption
  <2>4. reserved'[who] = SumFunctionOnSet([o \in Held(who)' |-> RewardOf(o)'], Held(who)')
    <3> DEFINE f == [o \in Held(who) |-> RewardOf(o)]
               g == [o \in Held(who)' |-> RewardOf(o)']
    <3>1. \A o \in Held(who) : f[o] \in Int
      BY RewardIsNat DEF Held, Unsettled
    <3>2. \A o \in Held(who) : g[o] = f[o]
      BY <1>1, <2>1 DEF Held, RewardOf
    <3>3. g[id] = t.reward /\ g[id] \in Int
      BY <1>1, <1>2, <2>1 DEF RewardOf
    <3>4. reserved[who] = SumFunctionOnSet(f, Held(who))
      BY <2>2 DEF Backed
    <3> HIDE DEF f, g
    <3>5. SumFunctionOnSet(g, Held(who) \cup {id}) = g[id] + SumFunctionOnSet(f, Held(who))
      BY <2>1, <2>2, <3>1, <3>2, <3>3, SumExtend
    <3>6. reserved'[who] = reserved[who] + t.reward /\ reserved[who] \in Int
      BY <1>2, <1>3
    <3>7. reserved'[who] = SumFunctionOnSet(g, Held(who)')
      BY <1>2, <2>1, <3>3, <3>4, <3>5, <3>6
    <3> QED BY <3>7 DEF g
  <2>5. ProposerOrders'[who] = Held(who)'
    BY <1>2, <1>3, <2>1, <2>2 DEF Backed
  <2> QED BY <2>3, <2>4, <2>5 DEF Backed
<1>8. Funds' = Funds
  <2>1. \A a \in Accounts : free'[a] + reserved'[a] = free[a] + reserved[a]
    BY <1>2, <1>3
  <2>2. [a \in Accounts |-> free'[a] + reserved'[a]] = [a \in Accounts |-> free[a] + reserved[a]]
    BY <2>1
  <2> QED BY <2>2 DEF Funds
<1> QED BY <1>4, <1>5, <1>6, <1>7, <1>8 DEF MoneyInductive

\* Closing order o of proposer p gives its slot and its part of the reserve back.
LEMMA CloseBacks ==
  ASSUME TypeOK, MoneyInductive, NEW o \in OrderIds, NEW p \in Accounts,
         JobOrders[o] # None, JobOrders[o].proposer = p, JobOrders[o].status = "Expired",
         claim_reward(o) \/ \E who \in Proposers : reclaim_order(who, o),
         reserved' = [reserved EXCEPT ![p] = @ - RewardOf(o)],
         ProposerOrders' = [ProposerOrders EXCEPT ![p] = @ \ {o}]
  PROVE  /\ reserved' \in [Accounts -> Int] /\ ProposerOrders' \in [Accounts -> SUBSET OrderIds]
         /\ \A q \in OrderIds : JobOrders'[q] # None => RewardOf(q)' >= MinReward
         /\ \A a \in Accounts : Backed(a)'
<1>1. /\ JobOrders'[o] # None /\ \A q \in OrderIds \ {o} : JobOrders'[q] = JobOrders[q]
      /\ JobOrders'[o].terms = JobOrders[o].terms /\ JobOrders'[o].status = "Closed"
  BY SettleKeeps
<1>2. /\ reserved \in [Accounts -> Int] /\ ProposerOrders \in [Accounts -> SUBSET OrderIds]
      /\ RewardOf(o) \in Nat
  BY RewardIsNat DEF MoneyInductive
<1>3. reserved' \in [Accounts -> Int] /\ ProposerOrders' \in [Accounts -> SUBSET OrderIds]
  BY <1>2
<1>4. \A q \in OrderIds : JobOrders'[q] # None => RewardOf(q)' >= MinReward
  BY <1>1 DEF MoneyInductive, RewardOf
<1>5. ASSUME NEW a \in Accounts \ {p} PROVE Backed(a)'
  <2>1. Held(a)' = Held(a) /\ \A q \in Held(a) : RewardOf(q)' = RewardOf(q)
    BY <1>1 DEF Held, Unsettled, RewardOf
  <2>2. Backed(a)
    BY DEF MoneyInductive
  <2>3. ProposerOrders'[a] = ProposerOrders[a] /\ reserved'[a] = reserved[a]
    BY <1>2
  <2> QED BY <2>1, <2>2, <2>3, BackedKept
<1>6. Backed(p)'
  <2>1. PICK H : H = Held(p) \ {o}
    OBVIOUS
  <2>2. Held(p)' = H /\ Held(p) = H \cup {o} /\ o \notin H
    BY <1>1, <2>1 DEF Held, Unsettled
  <2>3. Backed(p) /\ IsFiniteSet(Held(p)) /\ Cardinality(Held(p)) \in Nat
    BY HeldFinite DEF MoneyInductive
  <2>4. IsFiniteSet(H) /\ Cardinality(H) \in Nat /\ Cardinality(H) <= Cardinality(Held(p))
    BY <2>1, <2>3, FS_Subset, FS_CardinalityType
  <2>5. Cardinality(Held(p)') <= MaxOrdersPerProposer
    BY <2>2, <2>3, <2>4, BoundsAssumption DEF Backed
  <2>6. reserved'[p] = SumFunctionOnSet([q \in Held(p)' |-> RewardOf(q)'], Held(p)')
    <3> DEFINE f == [q \in Held(p)' |-> RewardOf(q)']
               g == [q \in Held(p) |-> RewardOf(q)]
    <3>1. \A q \in H : f[q] \in Int
      BY <1>1, <2>2, RewardIsNat DEF Held, Unsettled, RewardOf
    <3>2. \A q \in H : g[q] = f[q]
      BY <1>1, <2>2 DEF Held, RewardOf
    <3>3. g[o] = RewardOf(o)
      BY <2>2
    <3>4. reserved[p] = SumFunctionOnSet(g, Held(p))
      BY <2>3 DEF Backed
    <3> HIDE DEF f, g
    <3>5. SumFunctionOnSet(g, H \cup {o}) = g[o] + SumFunctionOnSet(f, H)
          /\ SumFunctionOnSet(f, H) \in Int
      BY <1>2, <2>2, <2>4, <3>1, <3>2, <3>3, SumExtend
    <3>6. reserved'[p] = reserved[p] - RewardOf(o) /\ reserved[p] \in Int
      BY <1>2
    <3>7. reserved'[p] = SumFunctionOnSet(f, Held(p)')
      BY <1>2, <2>2, <3>3, <3>4, <3>5, <3>6
    <3> QED BY <3>7 DEF f
  <2>7. ProposerOrders'[p] = Held(p)'
    BY <1>2, <2>1, <2>2, <2>3 DEF Backed
  <2> QED BY <2>5, <2>6, <2>7 DEF Backed
<1> QED BY <1>3, <1>4, <1>5, <1>6

LEMMA ReclaimPays ==
  ASSUME TypeOK, MoneyInductive, NEW who \in Proposers, NEW o \in OrderIds, reclaim_order(who, o)
  PROVE  MoneyInductive' /\ Funds' = Funds
<1>1. /\ JobOrders[o] # None /\ JobOrders[o].proposer = who /\ JobOrders[o].status = "Expired"
      /\ reserved' = [reserved EXCEPT ![who] = @ - RewardOf(o)]
      /\ free' = [free EXCEPT ![who] = @ + RewardOf(o)]
      /\ ProposerOrders' = [ProposerOrders EXCEPT ![who] = @ \ {o}]
      /\ who \in Accounts
  BY BoundsAssumption DEF reclaim_order, ReclaimAccepted, CloseOrder, RewardOf
<1>2. /\ reserved' \in [Accounts -> Int] /\ ProposerOrders' \in [Accounts -> SUBSET OrderIds]
      /\ \A q \in OrderIds : JobOrders'[q] # None => RewardOf(q)' >= MinReward
      /\ \A a \in Accounts : Backed(a)'
  BY <1>1, CloseBacks
<1>3. free \in [Accounts -> Nat] /\ reserved \in [Accounts -> Int] /\ RewardOf(o) \in Nat
  BY <1>1, RewardIsNat DEF MoneyInductive
<1>4. free' \in [Accounts -> Nat]
  BY <1>1, <1>3
<1>5. \A a \in Accounts : free'[a] + reserved'[a] = free[a] + reserved[a]
  BY <1>1, <1>3
<1>6. Funds' = Funds
  <2>1. [a \in Accounts |-> free'[a] + reserved'[a]] = [a \in Accounts |-> free[a] + reserved[a]]
    BY <1>5
  <2> QED BY <2>1 DEF Funds
<1> QED BY <1>2, <1>4, <1>6 DEF MoneyInductive

LEMMA PayoutsDistribute ==
  ASSUME TypeOK, RankingInductive, NEW o \in OrderIds, JobOrders[o] # None, HasRanking(o)
  PROVE  Distributed(compute_payouts(o), StoredRanking(o), RewardOf(o))
<1> DEFINE pay == compute_payouts(o)
           R == StoredRanking(o)
           r == RewardOf(o)
<1>1. R \in Seq(Ranked) /\ Len(R) > 0 /\ Splits(pay, R, r, r \div Triangle(Len(R)))
  BY PayoutsSplit
<1>2. r \in Nat
  BY RewardIsNat
<1> HIDE DEF pay, R, r
<1>3. r \div Triangle(Len(R)) \in Nat
  <2>1. Len(R) \in Nat \ {0}
    BY <1>1
  <2>2. PICK t : t = Triangle(Len(R))
    OBVIOUS
  <2>3. t \in Nat \ {0}
    BY <2>1, <2>2, TriangleBounds
  <2> QED BY <1>2, <2>2, <2>3, DivMod
<1>4. Distributed(pay, R, r)
  BY <1>1, <1>2, <1>3, SplitsDistribute
<1> QED BY <1>4 DEF pay, R, r

\* What claim_reward does to the balances, the payouts being a split of the reward.
LEMMA ClaimMoves ==
  ASSUME TypeOK, RankingInductive, MoneyInductive, NEW o \in OrderIds, claim_reward(o)
  PROVE  /\ JobOrders[o] \in Order /\ JobOrders[o].status = "Expired"
         /\ JobOrders[o].solution_count > 0 /\ HasRanking(o)
         /\ StoredRanking(o) \in Seq(Ranked) /\ Len(StoredRanking(o)) > 0
         /\ Distributed(compute_payouts(o), StoredRanking(o), RewardOf(o))
         /\ \A a \in Accounts : free'[a] = free[a] + AmountFor(compute_payouts(o), a)
         /\ free' \in [Accounts -> Nat]
<1> DEFINE pay == compute_payouts(o)
           R == StoredRanking(o)
           p == JobOrders[o].proposer
           r == RewardOf(o)
<1>1. /\ JobOrders[o] \in Order /\ JobOrders[o] # None /\ JobOrders[o].status = "Expired"
      /\ JobOrders[o].solution_count > 0 /\ HasRanking(o)
  BY DEF claim_reward, ClaimAccepted, Claimable, TypeOK
<1>2. r \in Nat /\ p \in Accounts
  BY <1>1, RewardIsNat DEF Order
<1>3. R \in Seq(Ranked) /\ Len(R) > 0 /\ Splits(pay, R, r, r \div Triangle(Len(R)))
  BY <1>1, PayoutsSplit
<1>4. Distributed(pay, R, r)
  BY <1>1, PayoutsDistribute
<1>5. free' = [a \in Accounts |->
         free[a] + AmountFor(pay, a) + (IF a = p THEN r - PayoutTotal(pay) ELSE 0)]
  BY DEF claim_reward, RewardOf
<1>6. free \in [Accounts -> Nat]
  BY DEF MoneyInductive
<1> HIDE DEF pay, R, p, r
<1>7. r - PayoutTotal(pay) = 0
  BY <1>2, <1>3 DEF Splits
<1>8. \A a \in Accounts : AmountFor(pay, a) \in Nat
  BY <1>4 DEF Distributed
<1>9. \A a \in Accounts : free'[a] = free[a] + AmountFor(pay, a)
  BY <1>5, <1>6, <1>7, <1>8
<1>10. free' \in [Accounts -> Nat]
  <2>1. \A a \in Accounts : free'[a] \in Nat
    BY <1>6, <1>8, <1>9
  <2> QED BY <1>5, <2>1
<1> QED BY <1>1, <1>3, <1>4, <1>9, <1>10 DEF pay, R, r

LEMMA ClaimPays ==
  ASSUME TypeOK, RankingInductive, MoneyInductive, NEW o \in OrderIds, claim_reward(o)
  PROVE  MoneyInductive' /\ Funds' = Funds
<1>1. PICK p \in Accounts : p = JobOrders[o].proposer
  BY ClaimMoves DEF Order
<1>2. PICK r \in Nat : r = RewardOf(o)
  BY ClaimMoves, RewardIsNat, NoneAssumption
<1>3. /\ JobOrders[o] # None /\ JobOrders[o].status = "Expired"
      /\ reserved' = [reserved EXCEPT ![p] = @ - RewardOf(o)]
      /\ ProposerOrders' = [ProposerOrders EXCEPT ![p] = @ \ {o}]
  BY <1>1 DEF claim_reward, ClaimAccepted, CloseOrder, RewardOf, Claimable
<1>4. /\ reserved' \in [Accounts -> Int] /\ ProposerOrders' \in [Accounts -> SUBSET OrderIds]
      /\ \A q \in OrderIds : JobOrders'[q] # None => RewardOf(q)' >= MinReward
      /\ \A a \in Accounts : Backed(a)'
  BY <1>1, <1>3, CloseBacks
<1>5. free \in [Accounts -> Nat] /\ reserved \in [Accounts -> Int]
  BY DEF MoneyInductive
<1> DEFINE old == [a \in Accounts |-> free[a] + reserved[a]]
           got == [a \in Accounts |-> AmountFor(compute_payouts(o), a)]
           mid == [a \in Accounts |-> old[a] + got[a]]
           new == [a \in Accounts |-> free'[a] + reserved'[a]]
<1>6. /\ free' \in [Accounts -> Nat] /\ SumFunctionOnSet(got, Accounts) = r
      /\ \A a \in Accounts : got[a] \in Nat /\ free'[a] = free[a] + got[a]
  BY <1>2, ClaimMoves DEF Distributed
<1>7. \A a \in Accounts : old[a] \in Int /\ got[a] \in Int /\ mid[a] = old[a] + got[a]
  BY <1>5, <1>6
<1>8. \A a \in Accounts : mid[a] \in Int /\ new[a] \in Int
  BY <1>4, <1>6, <1>7
<1>9. \A a \in Accounts \ {p} : mid[a] = new[a]
  BY <1>3, <1>5, <1>6
<1>10. new[p] = mid[p] - r
  BY <1>2, <1>3, <1>5, <1>6
<1>11. SumFunction(new) = SumFunction(old)
  <2>1. DOMAIN new = Accounts /\ DOMAIN old = Accounts
    OBVIOUS
  <2> HIDE DEF old, got, mid, new
  <2>2. IsFiniteSet(Accounts)
    BY LedgerAssumption
  <2>3. SumFunctionOnSet(mid, Accounts) = SumFunctionOnSet(old, Accounts) + SumFunctionOnSet(got, Accounts)
    BY <1>7, <2>2, SumPlus
  <2>4. SumFunctionOnSet(new, Accounts) = SumFunctionOnSet(mid, Accounts) + new[p] - mid[p]
    BY <1>8, <1>9, <2>2, SumChange
  <2>5. SumFunctionOnSet(old, Accounts) \in Int
    BY <1>7, <2>2, SumInt
  <2>6. SumFunctionOnSet(new, Accounts) = SumFunctionOnSet(old, Accounts)
    BY <1>6, <1>8, <1>10, <2>3, <2>4, <2>5
  <2> QED BY <2>1, <2>6 DEF SumFunction
<1>12. Funds' = Funds
  BY <1>11 DEF Funds
<1> QED BY <1>4, <1>6, <1>12 DEF MoneyInductive

LEMMA MoneyStep ==
  TypeOK /\ IdsAllocated /\ RankingInductive /\ MoneyInductive /\ [Next]_vars
    => MoneyInductive' /\ Funds' = Funds
<1> SUFFICES ASSUME TypeOK, IdsAllocated, RankingInductive, MoneyInductive, [Next]_vars
             PROVE  MoneyInductive' /\ Funds' = Funds
  OBVIOUS
<1>1. CASE BookUntouched
  BY <1>1, MoneyKept DEF BookUntouched, moneyVars
<1>2. CASE \E who \in Proposers, t \in Terms : \E c : do_propose_job(who, t, c)
  BY <1>2, ProposePays
<1>3. CASE \E who \in Miners, o \in OrderIds, s \in Submissions, p \in Payees \cup {None} :
             submit_solution(who, o, s, p)
  <2>1. PICK who \in Miners, o \in OrderIds, s \in Submissions, p \in Payees \cup {None} :
             submit_solution(who, o, s, p)
    BY <1>3
  <2>2. UNCHANGED <<free, reserved, ProposerOrders>>
    BY <2>1 DEF submit_solution, moneyVars
  <2>3. /\ JobOrders[o] # None /\ JobOrders'[o] # None
        /\ \A q \in OrderIds \ {o} : JobOrders'[q] = JobOrders[q]
        /\ JobOrders'[o].terms = JobOrders[o].terms
        /\ JobOrders'[o].proposer = JobOrders[o].proposer
        /\ JobOrders'[o].status = JobOrders[o].status
    BY <2>1, SubmitCounts, NoneAssumption
  <2>4. \A q \in OrderIds : JobOrders[q] = None <=> JobOrders'[q] = None
    BY <2>3
  <2>5. \A q \in OrderIds : JobOrders[q] # None =>
            /\ JobOrders'[q].terms = JobOrders[q].terms
            /\ JobOrders'[q].proposer = JobOrders[q].proposer
            /\ JobOrders'[q].status = "Closed" <=> JobOrders[q].status = "Closed"
    BY <2>3
  <2> QED BY <2>2, <2>4, <2>5, MoneyKept
<1>4. CASE \E o \in OrderIds : claim_reward(o)
  BY <1>4, ClaimPays
<1>5. CASE \E who \in Proposers, o \in OrderIds : reclaim_order(who, o)
  BY <1>5, ReclaimPays
<1>6. CASE on_initialize
  <2>1. UNCHANGED <<free, reserved, ProposerOrders>>
    BY <1>6, BlockKeeps DEF moneyVars
  <2>2. \A o \in OrderIds : JobOrders[o] = None <=> JobOrders'[o] = None
    BY <1>6, BlockKeeps
  <2>3. \A o \in OrderIds : JobOrders[o] # None =>
            /\ JobOrders'[o].terms = JobOrders[o].terms
            /\ JobOrders'[o].proposer = JobOrders[o].proposer
            /\ JobOrders'[o].status = "Closed" <=> JobOrders[o].status = "Closed"
    BY <1>6, BlockKeeps DEF IsOpen
  <2> QED BY <2>1, <2>2, <2>3, MoneyKept
<1> QED BY <1>1, <1>2, <1>3, <1>4, <1>5, <1>6, BookSteps

LEMMA MoneyInit == Init => MoneyInductive /\ Funds = SumFunction(InitialFree)
<1> SUFFICES ASSUME Init PROVE MoneyInductive /\ Funds = SumFunction(InitialFree)
  OBVIOUS
<1>1. /\ free \in [Accounts -> Nat] /\ reserved \in [Accounts -> Int]
      /\ ProposerOrders \in [Accounts -> SUBSET OrderIds]
      /\ \A o \in OrderIds : JobOrders[o] = None
  BY LedgerAssumption DEF Init
<1>2. ASSUME NEW p \in Accounts PROVE Backed(p)
  <2>1. Held(p) = {}
    BY <1>1 DEF Held, Unsettled
  <2>2. Cardinality(Held(p)) = 0
    BY <2>1, FS_EmptySet
  <2>3. \A f : SumFunctionOnSet(f, {}) = 0
    BY SumEmpty
  <2> QED BY <2>1, <2>2, <2>3, BoundsAssumption DEF Backed, Init
<1>3. Funds = SumFunction(InitialFree)
  <2>1. [a \in Accounts |-> free[a] + reserved[a]] = InitialFree
    BY LedgerAssumption DEF Init
  <2> QED BY <2>1 DEF Funds
<1> QED BY <1>1, <1>2, <1>3 DEF MoneyInductive

LEMMA MoneyInvariant == Spec => [](MoneyInductive /\ Funds = SumFunction(InitialFree))
<1>1. QueueInductive => IdsAllocated
  BY DEF QueueInductive
<1>2. Funds = SumFunction(InitialFree) /\ Funds' = Funds => (Funds = SumFunction(InitialFree))'
  OBVIOUS
<1> QED BY <1>1, <1>2, MoneyInit, MoneyStep, RankingInvariant, TypeCorrect, QueueCorrect, PTL DEF Spec

(***************************************************************************)
(* Every account's reserve is exactly the rewards of its unsettled orders, *)
(* its slots are exactly those orders and within the bound, and the funds  *)
(* of all accounts together never change: propose_job, claim_reward and    *)
(* reclaim_order neither lose, create nor pay out anything twice.          *)
(***************************************************************************)
THEOREM EscrowCorrect == Spec => []EscrowBacksOrders
  BY MoneyInvariant, BacksFollows, PTL

\* The reserve covers each unsettled order by itself.
LEMMA ReserveCovers ==
  ASSUME TypeOK, MoneyInductive, NEW o \in OrderIds, Unsettled(o)
  PROVE  reserved[JobOrders[o].proposer] >= RewardOf(o)
<1>1. PICK p \in Accounts : p = JobOrders[o].proposer
  BY DEF TypeOK, Unsettled, Order
<1> DEFINE f == [q \in Held(p) |-> RewardOf(q)]
<1>2. \A q \in Held(p) : f[q] \in Nat
  BY RewardIsNat DEF Held, Unsettled
<1>3. o \in Held(p) /\ f[o] = RewardOf(o)
  BY <1>1 DEF Held
<1>4. IsFiniteSet(Held(p)) /\ reserved[p] = SumFunctionOnSet(f, Held(p))
  BY HeldFinite DEF MoneyInductive, Backed
<1> HIDE DEF f
<1>5. f[o] <= SumFunctionOnSet(f, Held(p)) /\ SumFunctionOnSet(f, Held(p)) \in Nat
  BY <1>2, <1>3, <1>4, SumMember, SumNat
<1> QED BY <1>1, <1>2, <1>3, <1>4, <1>5

LEMMA LeastIsDeposit ==
  ASSUME RewardsCoverDeposits, NEW r \in Nat, r >= MinReward,
         NEW k \in Nat \ {0}, k <= MAX_REWARD_WINNERS
  PROVE  ExistentialDeposit <= r \div Triangle(k)
<1>1. PICK t, u : t = Triangle(k) /\ u = Triangle(MAX_REWARD_WINNERS)
  OBVIOUS
<1>2. t \in Nat \ {0} /\ t <= u
  BY <1>1, BoundsAssumption, TriangleBounds
<1>3. u \in Nat
  BY <1>1, BoundsAssumption, TriangleBounds
<1>4. MinReward >= ExistentialDeposit * u
  BY <1>1 DEF RewardsCoverDeposits, Triangle
<1>5. ExistentialDeposit * t <= ExistentialDeposit * u
      /\ ExistentialDeposit * t \in Nat /\ ExistentialDeposit * u \in Nat
  BY <1>2, <1>3, BoundsAssumption, MulMono
<1>6. t * ExistentialDeposit = ExistentialDeposit * t
  BY <1>2, BoundsAssumption
<1>7. t * ExistentialDeposit <= r
  BY <1>4, <1>5, <1>6, BoundsAssumption
<1>8. ExistentialDeposit <= r \div t
  BY <1>2, <1>7, BoundsAssumption, DivBounds
<1> QED BY <1>1, <1>8

LEMMA PayableFollows ==
  ASSUME RewardsCoverDeposits
  PROVE  TypeOK /\ RankingInductive /\ MoneyInductive => SolvedOrderIsPayable
<1> SUFFICES ASSUME TypeOK, RankingInductive, MoneyInductive, NEW o \in OrderIds,
                    Unsettled(o), JobOrders[o].solution_count > 0
             PROVE  LET payouts == compute_payouts(o) IN
                    /\ HasRanking(o)
                    /\ PayoutTotal(payouts) = JobOrders[o].terms.reward
                    /\ \A i \in DOMAIN payouts : payouts[i].amount >= ExistentialDeposit
                    /\ \A i, j \in DOMAIN payouts : i < j => payouts[i].amount >= payouts[j].amount
                    /\ reserved[JobOrders[o].proposer] >= JobOrders[o].terms.reward
  BY DEF SolvedOrderIsPayable
<1> DEFINE pay == compute_payouts(o)
           R == StoredRanking(o)
           r == RewardOf(o)
           n == RankLimit(JobOrders[o].terms)
<1>1. JobOrders[o] # None /\ HasRanking(o)
  BY SolvedIsRanked DEF Unsettled
<1>2. R \in Seq(Ranked) /\ Len(R) > 0 /\ Splits(pay, R, r, r \div Triangle(Len(R)))
  BY <1>1, PayoutsSplit
<1>3. r \in Nat /\ r >= MinReward /\ r = JobOrders[o].terms.reward
  BY <1>1, RewardIsNat DEF MoneyInductive, RewardOf
<1>4. Len(R) <= MAX_REWARD_WINNERS /\ Len(R) \in Nat \ {0}
  <2>1. /\ n \in Nat \ {0} /\ Len(R) <= n
        /\ n <= MAX_REWARD_WINNERS \/ JobOrders[o].terms.resolution.kind = "SingleBest"
    BY <1>1 DEF RankingInductive, RankedTruly, TrueRanking
  <2>2. n <= MAX_REWARD_WINNERS
    BY <2>1, BoundsAssumption DEF RankLimit
  <2> HIDE DEF n, R
  <2> QED BY <1>2, <2>1, <2>2, BoundsAssumption
<1>5. reserved[JobOrders[o].proposer] >= r
  BY ReserveCovers
<1> HIDE DEF pay, R, r, n
<1>6. ExistentialDeposit <= r \div Triangle(Len(R))
  BY <1>3, <1>4, LeastIsDeposit
<1>7. r \div Triangle(Len(R)) \in Nat
  <2>1. PICK t : t = Triangle(Len(R))
    OBVIOUS
  <2>2. t \in Nat \ {0}
    BY <1>4, <2>1, TriangleBounds
  <2> QED BY <1>3, <2>1, <2>2, DivMod
<1>8. Splits(pay, R, r, ExistentialDeposit)
  BY <1>2, <1>3, <1>6, <1>7, BoundsAssumption, SplitsLess
<1>9. /\ PayoutTotal(pay) = r
      /\ \A i \in DOMAIN pay : pay[i].amount >= ExistentialDeposit
      /\ \A i, j \in DOMAIN pay : i < j => pay[i].amount >= pay[j].amount
  BY <1>8 DEF Splits
<1> QED BY <1>1, <1>3, <1>5, <1>9 DEF pay

(***************************************************************************)
(* With a minimum reward as large as the runtime's, settling a solved      *)
(* order never fails on an amount: its ranking is there, the payouts are   *)
(* the whole reward, ordered by rank, none below the existential deposit,  *)
(* and the proposer's reserve covers them.                                 *)
(***************************************************************************)
THEOREM PayableCorrect ==
  ASSUME RewardsCoverDeposits
  PROVE  Spec => []SolvedOrderIsPayable
  BY PayableFollows, TypeCorrect, RankingInvariant, MoneyInvariant, PTL

-----------------------------------------------------------------------------
(* Announced, persisted, paid. *)

(***************************************************************************)
(* The stages of an outcome: nothing is announced or persisted before the  *)
(* order closes to submissions, nothing paid before it is settled; from    *)
(* finalisation on, an order that reports its results has announced        *)
(* exactly the payouts its stored ranking still gives.                     *)
(***************************************************************************)
Outcome(o) ==
  /\ OrderResults[o] # None => OrderResults[o].winners = announced[o]
  /\ JobOrders[o] = None \/ IsOpen(o) => announced[o] = << >> /\ OrderResults[o] = None
  /\ announced[o] # << >> => announced[o] = compute_payouts(o)
  /\ paid[o] # << >> => /\ JobOrders[o] # None /\ JobOrders[o].status = "Closed"
                        /\ JobOrders[o].solution_count > 0
                        /\ paid[o] = compute_payouts(o)
  /\ (JobOrders[o] # None /\ ~IsOpen(o) /\ JobOrders[o].solution_count > 0
        /\ JobOrders[o].terms.delivery # "OnChainOnly") => announced[o] = compute_payouts(o)

OutcomeInductive ==
  /\ DOMAIN OrderResults = OrderIds /\ DOMAIN paid = OrderIds
  /\ \A o \in OrderIds : Outcome(o)

LEMMA PaidFollows == OutcomeInductive => PaidAsAnnounced
<1> SUFFICES ASSUME OutcomeInductive, NEW o \in OrderIds
             PROVE  /\ paid[o] # << >> /\ announced[o] # << >> => paid[o] = announced[o]
                    /\ OrderResults[o] # None => OrderResults[o].winners = announced[o]
                    /\ paid[o] # << >> /\ JobOrders[o].terms.delivery # "OnChainOnly"
                         => announced[o] # << >>
  BY DEF PaidAsAnnounced
<1> QED BY DEF OutcomeInductive, Outcome, IsOpen

\* Nothing happens to an order whose record, ranking, results and payments stay.
LEMMA OutcomeKept ==
  ASSUME NEW o \in OrderIds, Outcome(o), JobOrders'[o] = JobOrders[o],
         OrderFrontRunner'[o] = OrderFrontRunner[o], OrderTopSolvers'[o] = OrderTopSolvers[o],
         OrderResults'[o] = OrderResults[o], announced'[o] = announced[o], paid'[o] = paid[o]
  PROVE  Outcome(o)'
<1>1. compute_payouts(o)' = compute_payouts(o)
  BY DEF compute_payouts
<1> QED BY <1>1 DEF Outcome, IsOpen

LEMMA OtherOutcomeSteps ==
  ASSUME \/ \E who \in Miners, ty \in MinerTypes : register_solver(who, ty)
         \/ \E who \in Miners : deregister_solver(who)
         \/ \E spec \in Specs : register_job_spec(spec)
         \/ External
         \/ UNCHANGED vars
  PROVE  UNCHANGED <<JobOrders, rankVars, paid, resultVars>>
  BY DEF register_solver, deregister_solver, register_job_spec, External, vars, orderVars, moneyVars

LEMMA OutcomeUntouched ==
  ASSUME OutcomeInductive, UNCHANGED <<JobOrders, rankVars, paid, resultVars>>
  PROVE  OutcomeInductive'
<1>1. UNCHANGED <<OrderFrontRunner, OrderTopSolvers, OrderResults, announced, paid, JobOrders>>
  BY DEF rankVars, resultVars
<1>2. \A o \in OrderIds : Outcome(o)'
  BY <1>1, OutcomeKept DEF OutcomeInductive
<1> QED BY <1>1, <1>2 DEF OutcomeInductive

LEMMA PurgeOutcome ==
  ASSUME OutcomeInductive, NEW o \in OrderIds, purge_result(o)
  PROVE  OutcomeInductive'
<1>1. /\ UNCHANGED <<OrderFrontRunner, OrderTopSolvers, announced, paid, JobOrders>>
      /\ OrderResults' = [OrderResults EXCEPT ![o] = None]
  BY DEF purge_result, orderVars, rankVars, moneyVars
<1>2. /\ DOMAIN OrderResults' = OrderIds /\ OrderResults'[o] = None
      /\ \A q \in OrderIds \ {o} : OrderResults'[q] = OrderResults[q]
  BY <1>1 DEF OutcomeInductive
<1>3. \A q \in OrderIds \ {o} : Outcome(q)'
  BY <1>1, <1>2, OutcomeKept DEF OutcomeInductive
<1>4. Outcome(o)'
  <2>1. compute_payouts(o)' = compute_payouts(o)
    BY <1>1 DEF compute_payouts
  <2> QED BY <1>1, <1>2, <2>1 DEF OutcomeInductive, Outcome, IsOpen
<1> QED BY <1>1, <1>2, <1>3, <1>4 DEF OutcomeInductive

LEMMA ProposeOutcome ==
  ASSUME TypeOK, IdsAllocated, OutcomeInductive, NEW who \in Proposers, NEW t \in Terms, NEW c,
         do_propose_job(who, t, c)
  PROVE  OutcomeInductive'
<1>0. PICK id : id = NextOrderId
  OBVIOUS
<1>1. /\ id \in OrderIds /\ JobOrders[id] = None /\ JobOrders'[id] # None
      /\ \A o \in OrderIds \ {id} : JobOrders'[o] = JobOrders[o]
      /\ JobOrders'[id].status = "Opened"
  <2>1. id \in OrderIds /\ JobOrders[id] = None
    BY <1>0, OrderIdsAssumption DEF do_propose_job, IdsAllocated, TypeOK
  <2> DEFINE new == [proposer |-> who, terms |-> t, status |-> "Opened", created_at |-> now,
                     first_solution_at |-> None, solution_count |-> 0]
  <2>2. new \in Order /\ JobOrders' = [JobOrders EXCEPT ![id] = new]
    BY <1>0, ProposeStores
  <2>3. new.status = "Opened"
    OBVIOUS
  <2> HIDE DEF new
  <2> QED BY <2>1, <2>2, <2>3, NoneAssumption DEF TypeOK
<1>2. UNCHANGED <<OrderFrontRunner, OrderTopSolvers, OrderResults, announced, paid>>
  BY DEF do_propose_job, rankVars, resultVars
<1>3. \A o \in OrderIds \ {id} : Outcome(o)'
  BY <1>1, <1>2, OutcomeKept DEF OutcomeInductive
<1>4. announced'[id] = << >> /\ OrderResults'[id] = None /\ paid'[id] = << >>
  BY <1>1, <1>2 DEF OutcomeInductive, Outcome
<1>5. Outcome(id)'
  BY <1>1, <1>4 DEF Outcome, IsOpen
<1> QED BY <1>2, <1>3, <1>5 DEF OutcomeInductive

LEMMA SubmitOutcome ==
  ASSUME TypeOK, RankingInductive, OutcomeInductive, NEW who \in Miners, NEW o \in OrderIds,
         NEW s, NEW p, submit_solution(who, o, s, p)
  PROVE  OutcomeInductive'
<1>1. /\ IsOpen(o) /\ JobOrders'[o] # None /\ JobOrders'[o].status = JobOrders[o].status
      /\ \A q \in OrderIds \ {o} : JobOrders'[q] = JobOrders[q]
  BY SubmitCounts
<1>2. UNCHANGED <<OrderResults, announced, paid>>
  BY DEF submit_solution, moneyVars, resultVars
<1>3. \A q \in OrderIds \ {o} : /\ OrderFrontRunner'[q] = OrderFrontRunner[q]
                                /\ OrderTopSolvers'[q] = OrderTopSolvers[q]
  <2>1. \E e : update_ranking(o, who, e)
    BY DEF submit_solution, AcceptSubmission
  <2>2. PICK e : update_ranking(o, who, e)
    BY <2>1
  <2>3. DOMAIN OrderFrontRunner = OrderIds /\ DOMAIN OrderTopSolvers = OrderIds
    BY DEF RankingInductive, RankTypes
  <2> QED BY <2>2, <2>3 DEF update_ranking
<1>4. \A q \in OrderIds \ {o} : Outcome(q)'
  BY <1>1, <1>2, <1>3, OutcomeKept DEF OutcomeInductive
<1>5. announced'[o] = << >> /\ OrderResults'[o] = None /\ paid'[o] = << >>
  BY <1>1, <1>2 DEF OutcomeInductive, Outcome, IsOpen
<1>6. Outcome(o)'
  BY <1>1, <1>5 DEF Outcome, IsOpen
<1> QED BY <1>2, <1>4, <1>6 DEF OutcomeInductive

LEMMA SettleOutcome ==
  ASSUME TypeOK, RankingInductive, OutcomeInductive, NEW o \in OrderIds,
         claim_reward(o) \/ \E who \in Proposers : reclaim_order(who, o)
  PROVE  OutcomeInductive'
<1>1. /\ JobOrders[o] # None /\ JobOrders[o].status = "Expired" /\ JobOrders'[o] # None
      /\ \A q \in OrderIds \ {o} : JobOrders'[q] = JobOrders[q]
      /\ JobOrders'[o].terms = JobOrders[o].terms /\ JobOrders'[o].status = "Closed"
      /\ JobOrders'[o].solution_count = JobOrders[o].solution_count
      /\ UNCHANGED <<OrderFrontRunner, OrderTopSolvers, OrderResults, announced>>
  BY SettleKeeps, NoneAssumption DEF rankVars, resultVars
<1>2. paid[o] = << >>
  BY <1>1 DEF OutcomeInductive, Outcome
<1>3. /\ DOMAIN paid' = OrderIds /\ \A q \in OrderIds \ {o} : paid'[q] = paid[q]
      /\ \/ paid'[o] = << >>
         \/ paid'[o] = compute_payouts(o) /\ JobOrders[o].solution_count > 0
  <2>1. CASE claim_reward(o)
    <3>1. /\ paid' = [paid EXCEPT ![o] = @ \o compute_payouts(o)]
          /\ JobOrders[o].solution_count > 0 /\ HasRanking(o)
      BY <2>1 DEF claim_reward, ClaimAccepted, Claimable
    <3>2. PICK pay : pay = compute_payouts(o)
      OBVIOUS
    <3>3. /\ pay = [i \in 1..Len(StoredRanking(o)) |-> pay[i]]
          /\ StoredRanking(o) \in Seq(Ranked)
      BY <1>1, <3>1, <3>2, PayoutsSplit DEF Splits
    <3>4. << >> \o pay = pay
      <4>1. PICK n \in Nat : n = Len(StoredRanking(o))
        BY <3>3
      <4>2. pay = [i \in 1..n |-> pay[i]]
        BY <3>3, <4>1
      <4>3. pay \in Seq({pay[i] : i \in 1..n})
        BY <4>1, <4>2
      <4> QED BY <4>3
    <3> QED BY <1>2, <3>1, <3>2, <3>4 DEF OutcomeInductive
  <2>2. CASE \E who \in Proposers : reclaim_order(who, o)
    BY <1>2, <2>2 DEF reclaim_order, ReclaimAccepted, OutcomeInductive
  <2> QED BY <2>1, <2>2
<1>4. \A q \in OrderIds \ {o} : Outcome(q)'
  BY <1>1, <1>3, OutcomeKept DEF OutcomeInductive
<1>5. Outcome(o)'
  <2>1. compute_payouts(o)' = compute_payouts(o)
    BY <1>1 DEF compute_payouts
  <2> QED BY <1>1, <1>3, <2>1 DEF OutcomeInductive, Outcome, IsOpen
<1> QED BY <1>1, <1>3, <1>4, <1>5 DEF OutcomeInductive

LEMMA BlockOutcome ==
  ASSUME TypeOK, RankingInductive, OutcomeInductive, on_initialize
  PROVE  OutcomeInductive'
<1>1. PICK ids : FinaliseOrders(ids) /\ \A o \in ids : IsOpen(o)
  BY DEF on_initialize, finalise_expired_orders, Finalised
<1>2. UNCHANGED <<OrderFrontRunner, OrderTopSolvers, paid>>
  BY DEF on_initialize, rankVars, moneyVars
<1> DEFINE won == {o \in ids : JobOrders[o].solution_count > 0 /\ HasRanking(o)}
<1>3. /\ \A o \in OrderIds : JobOrders'[o] = IF o \in ids
                THEN [JobOrders[o] EXCEPT !.status = "Expired"] ELSE JobOrders[o]
      /\ \A o \in OrderIds : OrderResults'[o] =
           IF o \in won /\ JobOrders[o].terms.delivery = "CallbackWithPoll"
             THEN [settled_at |-> now', winners |-> compute_payouts(o)] ELSE OrderResults[o]
      /\ \A o \in OrderIds : announced'[o] =
           IF o \in won /\ JobOrders[o].terms.delivery # "OnChainOnly"
             THEN compute_payouts(o) ELSE announced[o]
      /\ DOMAIN OrderResults' = OrderIds
  BY <1>1 DEF FinaliseOrders
<1>4. ASSUME NEW o \in OrderIds, o \notin ids PROVE Outcome(o)'
  <2>1. /\ JobOrders'[o] = JobOrders[o] /\ OrderResults'[o] = OrderResults[o]
        /\ announced'[o] = announced[o]
    BY <1>3, <1>4
  <2>2. Outcome(o)
    BY DEF OutcomeInductive
  <2> QED BY <1>2, <2>1, <2>2, OutcomeKept
<1>5. ASSUME NEW o \in OrderIds, o \in ids PROVE Outcome(o)'
  <2>1. IsOpen(o) /\ JobOrders[o] \in Order /\ JobOrders[o] # None
    BY <1>1, <1>5 DEF IsOpen, TypeOK
  <2> DEFINE done == [JobOrders[o] EXCEPT !.status = "Expired"]
  <2>2. /\ done \in Order /\ done.terms = JobOrders[o].terms /\ done.status = "Expired"
        /\ done.solution_count = JobOrders[o].solution_count
    BY <2>1 DEF Order, Statuses
  <2>3. JobOrders'[o] = done
    BY <1>3, <1>5
  <2> HIDE DEF done
  <2>4. /\ JobOrders'[o] # None /\ JobOrders'[o].terms = JobOrders[o].terms
        /\ JobOrders'[o].status = "Expired"
        /\ JobOrders'[o].solution_count = JobOrders[o].solution_count
    BY <2>2, <2>3, NoneAssumption
  <2>5. compute_payouts(o)' = compute_payouts(o)
    BY <1>2, <2>4 DEF compute_payouts
  <2>6. announced[o] = << >> /\ OrderResults[o] = None /\ paid[o] = << >>
    BY <2>1 DEF OutcomeInductive, Outcome, IsOpen
  <2>7. JobOrders[o].solution_count > 0 => o \in won
    BY <1>5, <2>1, SolvedIsRanked
  <2>8. OrderResults'[o] # None => OrderResults'[o].winners = announced'[o]
    <3>1. CASE o \in won /\ JobOrders[o].terms.delivery = "CallbackWithPoll"
      <4>1. OrderResults'[o] = [settled_at |-> now', winners |-> compute_payouts(o)]
        BY <1>3, <3>1
      <4>2. OrderResults'[o].winners = compute_payouts(o)
        BY <4>1
      <4>3. announced'[o] = compute_payouts(o)
        BY <1>3, <3>1
      <4> QED BY <4>2, <4>3
    <3>2. CASE ~(o \in won /\ JobOrders[o].terms.delivery = "CallbackWithPoll")
      BY <1>3, <2>6, <3>2
    <3> QED BY <3>1, <3>2
  <2>9. announced'[o] # << >> => announced'[o] = compute_payouts(o)
    BY <1>3, <2>6
  <2>10. JobOrders[o].solution_count > 0 /\ JobOrders[o].terms.delivery # "OnChainOnly"
            => announced'[o] = compute_payouts(o)
    BY <1>3, <2>7
  <2>11. paid'[o] = << >> /\ ~IsOpen(o)'
    BY <1>2, <2>4, <2>6 DEF IsOpen
  <2> QED BY <2>4, <2>5, <2>8, <2>9, <2>10, <2>11 DEF Outcome
<1> QED BY <1>2, <1>3, <1>4, <1>5 DEF OutcomeInductive

LEMMA OutcomeStep ==
  TypeOK /\ IdsAllocated /\ RankingInductive /\ OutcomeInductive /\ [Next]_vars => OutcomeInductive'
<1> SUFFICES ASSUME TypeOK, IdsAllocated, RankingInductive, OutcomeInductive, [Next]_vars
             PROVE  OutcomeInductive'
  OBVIOUS
<1>1. CASE \E who \in Proposers, t \in Terms : \E c : do_propose_job(who, t, c)
  BY <1>1, ProposeOutcome
<1>2. CASE \E who \in Miners, o \in OrderIds, s \in Submissions, p \in Payees \cup {None} :
             submit_solution(who, o, s, p)
  BY <1>2, SubmitOutcome
<1>3. CASE \/ \E o \in OrderIds : claim_reward(o)
           \/ \E who \in Proposers, o \in OrderIds : reclaim_order(who, o)
  BY <1>3, SettleOutcome
<1>4. CASE \E o \in OrderIds : purge_result(o)
  BY <1>4, PurgeOutcome
<1>5. CASE on_initialize
  BY <1>5, BlockOutcome
<1>6. CASE \/ \E who \in Miners, ty \in MinerTypes : register_solver(who, ty)
           \/ \E who \in Miners : deregister_solver(who)
           \/ \E spec \in Specs : register_job_spec(spec)
           \/ External
           \/ UNCHANGED vars
  BY <1>6, OtherOutcomeSteps, OutcomeUntouched
<1> QED BY <1>1, <1>2, <1>3, <1>4, <1>5, <1>6, ProposeForms DEF Next, Calls

LEMMA OutcomeInit == Init => OutcomeInductive
  BY DEF Init, OutcomeInductive, Outcome, IsOpen

(***************************************************************************)
(* What claim_reward pays is what finalise_order announced and persisted,  *)
(* however many blocks, calls and purges lie between them.                 *)
(***************************************************************************)
THEOREM PaidCorrect == Spec => []PaidAsAnnounced
<1>1. QueueInductive => IdsAllocated
  BY DEF QueueInductive
<1>2. Spec => []OutcomeInductive
  BY <1>1, OutcomeInit, OutcomeStep, RankingInvariant, TypeCorrect, QueueCorrect, PTL DEF Spec
<1> QED BY <1>2, PaidFollows, PTL

-----------------------------------------------------------------------------
(* Payees. *)

PayeesInductive ==
  /\ DOMAIN OrderPayeeRequirements = OrderIds /\ DOMAIN OrderPayees = OrderIds
  /\ \A o \in OrderIds : DOMAIN OrderPayees[o] = Accounts
  /\ PayeesMeetRequirement

LEMMA PayeesStep ==
  TypeOK /\ IdsAllocated /\ RankingInductive /\ PayeesInductive /\ [Next]_vars => PayeesInductive'
<1> SUFFICES ASSUME TypeOK, IdsAllocated, RankingInductive, PayeesInductive, [Next]_vars
             PROVE  PayeesInductive'
  OBVIOUS
<1>1. CASE UNCHANGED <<OrderPayees, OrderSolutions, OrderPayeeRequirements>>
  BY <1>1 DEF PayeesInductive, PayeesMeetRequirement, Participants, PayeeIsValid
<1>2. CASE \E who \in Proposers, t \in Terms : \E c : do_propose_job(who, t, c)
  <2>0. PICK who \in Proposers, t \in Terms : \E c : do_propose_job(who, t, c)
    BY <1>2
  <2>1. PICK id, c : /\ id \in OrderIds /\ JobOrders[id] = None
                     /\ OrderPayeeRequirements' = [OrderPayeeRequirements EXCEPT ![id] = c]
                     /\ UNCHANGED <<OrderPayees, OrderSolutions>>
    <3>1. PICK c : do_propose_job(who, t, c)
      BY <2>0
    <3>2. NextOrderId \in OrderIds /\ JobOrders[NextOrderId] = None
      BY <3>1, OrderIdsAssumption DEF do_propose_job, IdsAllocated, TypeOK
    <3>3. /\ OrderPayeeRequirements' = [OrderPayeeRequirements EXCEPT ![NextOrderId] = c]
          /\ UNCHANGED <<OrderPayees, OrderSolutions>>
      BY <3>1 DEF do_propose_job, rankVars
    <3> QED BY <3>2, <3>3
  <2>2. Participants(id)' = {} /\ \A o \in OrderIds : Participants(o)' = Participants(o)
    BY <2>1 DEF RankingInductive, Untouched, Participants
  <2>3. \A o \in OrderIds \ {id} : OrderPayeeRequirements'[o] = OrderPayeeRequirements[o]
    BY <2>1 DEF PayeesInductive
  <2>4. PayeesMeetRequirement'
    BY <2>1, <2>2, <2>3 DEF PayeesInductive, PayeesMeetRequirement, PayeeIsValid
  <2> QED BY <2>1, <2>4 DEF PayeesInductive
<1>3. CASE \E who \in Miners, o \in OrderIds, s \in Submissions, p \in Payees \cup {None} :
             submit_solution(who, o, s, p)
  <2>1. PICK who \in Miners, o \in OrderIds, s \in Submissions, p \in Payees \cup {None} :
             submit_solution(who, o, s, p)
    BY <1>3
  <2>2. PICK e : /\ OrderSolutions' = [OrderSolutions EXCEPT ![o][who] = e]
                 /\ OrderPayees' = [OrderPayees EXCEPT ![o][who] = p]
                 /\ OrderPayeeRequirements' = OrderPayeeRequirements
                 /\ AcceptablePayee(o, p)
    BY <2>1 DEF submit_solution, AcceptSubmission
  <2>3. who \in Accounts /\ OrderSolutions \in [OrderIds -> [Accounts -> Int \cup {None}]]
    BY <2>1, BoundsAssumption DEF RankingInductive, RankTypes
  <2>4. /\ DOMAIN OrderPayees' = OrderIds /\ \A q \in OrderIds : DOMAIN OrderPayees'[q] = Accounts
        /\ OrderPayees'[o][who] = p
        /\ \A q \in OrderIds, r \in Accounts : q # o \/ r # who => OrderPayees'[q][r] = OrderPayees[q][r]
    BY <2>2, <2>3 DEF PayeesInductive
  <2>5. \A q \in OrderIds, r \in Accounts :
          q # o \/ r # who => OrderSolutions'[q][r] = OrderSolutions[q][r]
    BY <2>2, <2>3
  <2>6. ASSUME NEW q \in OrderIds, NEW r \in Participants(q)', OrderPayeeRequirements'[q] # None
        PROVE  /\ OrderPayees'[q][r] # None
               /\ OrderPayees'[q][r].chain_id = OrderPayeeRequirements'[q]
               /\ PayeeIsValid(OrderPayees'[q][r])
    <3>1. r \in Accounts
      BY DEF Participants
    <3>2. CASE q = o /\ r = who
      BY <2>2, <2>4, <2>6, <3>2 DEF AcceptablePayee
    <3>3. CASE q # o \/ r # who
      <4>1. r \in Participants(q) /\ OrderPayees'[q][r] = OrderPayees[q][r]
        BY <2>4, <2>5, <2>6, <3>1, <3>3 DEF Participants
      <4> QED BY <2>2, <2>6, <4>1 DEF PayeesInductive, PayeesMeetRequirement
    <3> QED BY <3>2, <3>3
  <2>7. PayeesMeetRequirement'
    BY <2>6 DEF PayeesMeetRequirement, PayeeIsValid
  <2> QED BY <2>2, <2>4, <2>7 DEF PayeesInductive
<1>4. ASSUME \/ BookUntouched /\ UNCHANGED OrderPayeeRequirements
             \/ \E o \in OrderIds : claim_reward(o)
             \/ \E who \in Proposers, o \in OrderIds : reclaim_order(who, o)
             \/ on_initialize
      PROVE  UNCHANGED <<OrderPayees, OrderSolutions, OrderPayeeRequirements>>
  BY <1>4 DEF BookUntouched, claim_reward, reclaim_order, on_initialize, rankVars
<1>5. \/ BookUntouched /\ UNCHANGED OrderPayeeRequirements
      \/ \E who \in Proposers, t \in Terms : \E c : do_propose_job(who, t, c)
      \/ \E who \in Miners, o \in OrderIds, s \in Submissions, p \in Payees \cup {None} :
           submit_solution(who, o, s, p)
      \/ \E o \in OrderIds : claim_reward(o)
      \/ \E who \in Proposers, o \in OrderIds : reclaim_order(who, o)
      \/ on_initialize
  <2>1. ASSUME \/ \E who \in Miners, ty \in MinerTypes : register_solver(who, ty)
               \/ \E who \in Miners : deregister_solver(who)
               \/ \E spec \in Specs : register_job_spec(spec)
               \/ \E o \in OrderIds : purge_result(o)
               \/ External
               \/ UNCHANGED vars
        PROVE  BookUntouched /\ UNCHANGED OrderPayeeRequirements
    BY <2>1 DEF register_solver, deregister_solver, register_job_spec, purge_result, External, vars,
           orderVars, BookUntouched
  <2> QED BY <2>1, ProposeForms DEF Next, Calls
<1> QED BY <1>1, <1>2, <1>3, <1>4, <1>5

LEMMA PayeesInvariant == Spec => []PayeesInductive
<1>1. QueueInductive => IdsAllocated
  BY DEF QueueInductive
<1>2. Init => PayeesInductive
  BY DEF Init, PayeesInductive, PayeesMeetRequirement, Participants
<1> QED BY <1>1, <1>2, PayeesStep, RankingInvariant, TypeCorrect, QueueCorrect, PTL DEF Spec

(***************************************************************************)
(* No participant of an order that requires a payee chain got in, or       *)
(* improved its solution, without naming a valid payee there.              *)
(***************************************************************************)
THEOREM PayeesCorrect == Spec => []PayeesMeetRequirement
<1>1. PayeesInductive => PayeesMeetRequirement
  BY DEF PayeesInductive
<1> QED BY <1>1, PayeesInvariant, PTL

-----------------------------------------------------------------------------
(* The backlog. *)

\* An order that is not None and past its closing time: what a step leaves of it.
Frozen(o) ==
  /\ OrderSolutions'[o] = OrderSolutions[o]
  /\ OrderPayees'[o] = OrderPayees[o]
  /\ StoredRanking(o)' = StoredRanking(o)
  /\ effective_expiry(JobOrders'[o]) = effective_expiry(JobOrders[o])

LEMMA FrozenStep ==
  ASSUME TypeOK, IdsAllocated, RankingInductive, DOMAIN OrderPayees = OrderIds, [Next]_vars,
         NEW o \in OrderIds, JobOrders[o] # None, is_expired(now, JobOrders[o])
  PROVE  Frozen(o)
<1>1. ASSUME UNCHANGED rankVars, JobOrders'[o].terms = JobOrders[o].terms,
             effective_expiry(JobOrders'[o]) = effective_expiry(JobOrders[o])
      PROVE  Frozen(o)
  BY <1>1 DEF Frozen, rankVars, StoredRanking
<1>2. CASE BookUntouched
  BY <1>1, <1>2 DEF BookUntouched
<1>3. CASE \E who \in Proposers, t \in Terms : \E c : do_propose_job(who, t, c)
  <2>1. PICK new : JobOrders' = [JobOrders EXCEPT ![NextOrderId] = new] /\ UNCHANGED rankVars
    BY <1>3 DEF do_propose_job
  <2>2. o # NextOrderId
    BY OrderIdsAssumption DEF IdsAllocated, TypeOK
  <2>3. JobOrders'[o] = JobOrders[o]
    BY <2>1, <2>2 DEF TypeOK
  <2> QED BY <1>1, <2>1, <2>3
<1>4. CASE \E who \in Miners, q \in OrderIds, s \in Submissions, p \in Payees \cup {None} :
             submit_solution(who, q, s, p)
  <2>1. PICK who \in Miners, q \in OrderIds, s \in Submissions, p \in Payees \cup {None} :
             submit_solution(who, q, s, p)
    BY <1>4
  <2>2. q # o
    BY <2>1 DEF submit_solution, AcceptsSolutions
  <2>3. JobOrders'[o] = JobOrders[o]
    BY <2>1, <2>2, SubmitCounts
  <2>4. PICK e : /\ OrderSolutions' = [OrderSolutions EXCEPT ![q][who] = e]
                 /\ OrderPayees' = [OrderPayees EXCEPT ![q][who] = p]
                 /\ update_ranking(q, who, e)
    BY <2>1 DEF submit_solution, AcceptSubmission
  <2>5. /\ DOMAIN OrderSolutions = OrderIds /\ DOMAIN OrderFrontRunner = OrderIds
        /\ DOMAIN OrderTopSolvers = OrderIds
    BY DEF RankingInductive, RankTypes
  <2>6. /\ OrderSolutions'[o] = OrderSolutions[o] /\ OrderPayees'[o] = OrderPayees[o]
        /\ OrderFrontRunner'[o] = OrderFrontRunner[o] /\ OrderTopSolvers'[o] = OrderTopSolvers[o]
    BY <2>2, <2>4, <2>5 DEF update_ranking
  <2> QED BY <2>3, <2>6 DEF Frozen, StoredRanking
<1>5. CASE \/ \E q \in OrderIds : claim_reward(q)
           \/ \E who \in Proposers, q \in OrderIds : reclaim_order(who, q)
  <2>1. PICK q \in OrderIds : claim_reward(q) \/ \E who \in Proposers : reclaim_order(who, q)
    BY <1>5
  <2>2. /\ JobOrders[q] \in Order /\ UNCHANGED rankVars
        /\ \A r \in OrderIds \ {q} : JobOrders'[r] = JobOrders[r]
        /\ JobOrders'[q] = [JobOrders[q] EXCEPT !.status = "Closed"]
        /\ JobOrders'[q].terms = JobOrders[q].terms
    BY <2>1, SettleKeeps
  <2>3. effective_expiry([JobOrders[q] EXCEPT !.status = "Closed"]) = effective_expiry(JobOrders[q])
    BY <2>2, StatusUpdate DEF Statuses
  <2> QED BY <1>1, <2>2, <2>3
<1>6. CASE on_initialize
  <2>1. UNCHANGED rankVars /\ JobOrders'[o].terms = JobOrders[o].terms
    BY <1>6, BlockKeeps
  <2>2. PICK drained \in SUBSET OrdersExpiringAt :
           JobOrders' = [q \in OrderIds |->
             IF q \in Finalised(drained) THEN [JobOrders[q] EXCEPT !.status = "Expired"]
                                         ELSE JobOrders[q]]
    BY <1>6, BlockDrains
  <2>3. JobOrders[o] \in Order
    BY DEF TypeOK
  <2>4. effective_expiry([JobOrders[o] EXCEPT !.status = "Expired"]) = effective_expiry(JobOrders[o])
    BY <2>3, StatusUpdate DEF Statuses
  <2> QED BY <1>1, <2>1, <2>2, <2>4
<1> QED BY <1>2, <1>3, <1>4, <1>5, <1>6, BookSteps

LEMMA BucketOrderStep ==
  ASSUME TypeOK, IdsAllocated, QueueInductive, [Next]_vars,
         NEW d \in OrdersExpiringAt, NEW e \in OrdersExpiringAt', IsOpen(d[2]), ~IsOpen(d[2])'
  PROVE  d[1] <= e[1]
<1>0. d \in Nat \X OrderIds /\ d[2] \in OrderIds /\ JobOrders[d[2]] # None
  BY DEF TypeOK, IsOpen
<1>1. on_initialize
  <2>1. CASE BookUntouched
    BY <2>1 DEF BookUntouched, IsOpen
  <2>2. CASE \E who \in Proposers, t \in Terms : \E c : do_propose_job(who, t, c)
    <3>1. PICK new : JobOrders' = [JobOrders EXCEPT ![NextOrderId] = new]
      BY <2>2 DEF do_propose_job
    <3>2. d[2] # NextOrderId
      BY <1>0, OrderIdsAssumption DEF IdsAllocated, TypeOK
    <3> QED BY <1>0, <3>1, <3>2 DEF IsOpen, TypeOK
  <2>3. CASE \E who \in Miners, q \in OrderIds, s \in Submissions, p \in Payees \cup {None} :
               submit_solution(who, q, s, p)
    BY <1>0, <2>3, SubmitCounts DEF IsOpen
  <2>4. CASE \/ \E q \in OrderIds : claim_reward(q)
             \/ \E who \in Proposers, q \in OrderIds : reclaim_order(who, q)
    <3>1. PICK q \in OrderIds : claim_reward(q) \/ \E who \in Proposers : reclaim_order(who, q)
      BY <2>4
    <3>2. JobOrders[q].status = "Expired" /\ \A r \in OrderIds \ {q} : JobOrders'[r] = JobOrders[r]
      BY <3>1, SettleKeeps
    <3> QED BY <1>0, <3>2 DEF IsOpen
  <2> QED BY <2>1, <2>2, <2>3, <2>4, BookSteps
<1>2. PICK next \in Nat, drained \in SUBSET OrdersExpiringAt :
         /\ OrdersExpiringAt' = OrdersExpiringAt \ drained
         /\ \A f \in drained : f[1] <= next
         /\ \A f \in OrdersExpiringAt : f[1] >= NextExpiryBucket /\ f[1] < next => f \in drained
         /\ JobOrders' = [q \in OrderIds |->
              IF q \in Finalised(drained) THEN [JobOrders[q] EXCEPT !.status = "Expired"]
                                          ELSE JobOrders[q]]
  BY <1>1, BlockDrains
<1>3. d[2] \in Finalised(drained)
  BY <1>0, <1>2 DEF IsOpen
<1>4. \A f \in OrdersExpiringAt : /\ f[2] = d[2] => f = d
                                  /\ f[1] >= NextExpiryBucket /\ f[1] \in Nat
  <2>1. ASSUME NEW f \in OrdersExpiringAt
        PROVE  f[1] >= NextExpiryBucket /\ f[1] \in Nat
               /\ \A g \in OrdersExpiringAt : g[2] = f[2] => g = f
    <3>1. f[2] \in OpenOrders /\ f[1] \in Nat
      BY DEF QueueInductive, QueueHoldsOpenOrders, TypeOK
    <3>2. Scheduled(f[2])
      BY <3>1 DEF QueueInductive, QueueHoldsOpenOrders
    <3> QED BY <3>1, <3>2 DEF Scheduled
  <2> QED BY <2>1
<1>5. d \in drained
  BY <1>3, <1>4 DEF Finalised
<1>6. e \in OrdersExpiringAt /\ e \notin drained
  BY <1>2
<1>7. e[1] >= next
  BY <1>2, <1>4, <1>6
<1> QED BY <1>2, <1>4, <1>5, <1>6, <1>7

\* BacklogIsHarmless, step by step.
LEMMA BacklogStep ==
  ASSUME TypeOK, QueueInductive, RankingInductive, PayeesInductive, [Next]_vars
  PROVE  /\ [\A o \in OrderIds : JobOrders[o] # None /\ is_expired(now, JobOrders[o]) =>
              /\ OrderSolutions'[o] = OrderSolutions[o]
              /\ OrderPayees'[o] = OrderPayees[o]
              /\ StoredRanking(o)' = StoredRanking(o)
              /\ effective_expiry(JobOrders'[o]) = effective_expiry(JobOrders[o])]_vars
         /\ [\A d \in OrdersExpiringAt, e \in OrdersExpiringAt' :
              (IsOpen(d[2]) /\ ~IsOpen(d[2])') => d[1] <= e[1]]_vars
<1>1. IdsAllocated
  BY DEF QueueInductive
<1>2. \A o \in OrderIds : JobOrders[o] # None /\ is_expired(now, JobOrders[o]) => Frozen(o)
  BY <1>1, FrozenStep DEF PayeesInductive
<1>3. \A d \in OrdersExpiringAt, e \in OrdersExpiringAt' :
        (IsOpen(d[2]) /\ ~IsOpen(d[2])') => d[1] <= e[1]
  BY <1>1, BucketOrderStep
<1> QED BY <1>2, <1>3 DEF Frozen

(***************************************************************************)
(* A backlog of finalisations does no harm: an order that is past its      *)
(* closing time keeps its solutions, ranking, payees and closing time, and *)
(* no order is finalised before those of earlier buckets.                  *)
(***************************************************************************)
THEOREM BacklogCorrect == Spec => BacklogIsHarmless
  BY BacklogStep, TypeCorrect, QueueCorrect, RankingInvariant, PayeesInvariant, PTL
  DEF Spec, BacklogIsHarmless, OutcomeFrozenAtExpiry, FinalisedInBucketOrder

-----------------------------------------------------------------------------
(* All of it together, for the modules that build on the mempool. *)

MempoolInductive ==
  /\ TypeOK /\ QueueInductive /\ NoEarlyFinalisation
  /\ RankingInductive /\ OutcomeInductive /\ PayeesInductive /\ MoneyInductive

LEMMA MempoolInit == Init => MempoolInductive /\ Funds = SumFunction(InitialFree)
<1> SUFFICES ASSUME Init PROVE MempoolInductive /\ Funds = SumFunction(InitialFree)
  OBVIOUS
<1>1. TypeOK /\ NoEarlyFinalisation
  BY DEF Init, TypeOK, NoEarlyFinalisation
<1>2. QueueInductive
  BY OrderIdsAssumption DEF Init, QueueInductive, QueueHoldsOpenOrders, IdsAllocated, IsOpen
<1>3. PayeesInductive
  BY DEF Init, PayeesInductive, PayeesMeetRequirement, Participants
<1> QED BY <1>1, <1>2, <1>3, RankingInit, OutcomeInit, MoneyInit DEF MempoolInductive

LEMMA MempoolStep ==
  ASSUME MempoolInductive, [Next]_vars PROVE MempoolInductive' /\ Funds' = Funds
<1>1. /\ TypeOK /\ QueueInductive /\ NoEarlyFinalisation /\ IdsAllocated
      /\ RankingInductive /\ OutcomeInductive /\ PayeesInductive /\ MoneyInductive
  BY DEF MempoolInductive, QueueInductive
<1>2. TypeOK' /\ QueueInductive'
  BY <1>1, TypeOKInductive, QueueInductiveStep
<1>3. NoEarlyFinalisation'
  BY <1>1, <1>2, NoEarlyStep
<1>4. RankingInductive' /\ OutcomeInductive' /\ PayeesInductive'
  BY <1>1, RankingStep, OutcomeStep, PayeesStep
<1>5. MoneyInductive' /\ Funds' = Funds
  BY <1>1, MoneyStep
<1> QED BY <1>2, <1>3, <1>4, <1>5 DEF MempoolInductive

\* A step of another pallet that leaves the mempool's storage and its escrow alone.
LEMMA MempoolAside ==
  ASSUME MempoolInductive, free' \in [Accounts -> Nat],
         UNCHANGED <<now, orderVars, queueVars, rankVars, reserved, ProposerOrders, paid,
                     resultVars>>
  PROVE  MempoolInductive'
<1>1. /\ TypeOK /\ QueueInductive /\ NoEarlyFinalisation
      /\ RankingInductive /\ OutcomeInductive /\ PayeesInductive /\ MoneyInductive
  BY DEF MempoolInductive
<1>2. UNCHANGED <<now, JobOrders, NextOrderId, queueVars>>
  BY DEF orderVars
<1>3. TypeOK' /\ NoEarlyFinalisation'
  BY <1>1, <1>2 DEF TypeOK, NoEarlyFinalisation, IsOpen, queueVars
<1>4. QueueInductive'
  BY <1>1, <1>2 DEF queueVars, QueueInductive, QueueHoldsOpenOrders, IdsAllocated, IsOpen,
                    Scheduled, Movable, expiry_bucket
<1>5. RankingInductive'
  BY <1>1, <1>2, RankingKept
<1>6. OutcomeInductive'
  BY <1>1, <1>2, OutcomeUntouched
<1>7. PayeesInductive'
  BY <1>1 DEF PayeesInductive, PayeesMeetRequirement, Participants, PayeeIsValid, orderVars, rankVars
<1>8. MoneyInductive'
  <2>1. ASSUME NEW p \in Accounts PROVE Backed(p)'
    <3>1. Held(p)' = Held(p) /\ \A o \in Held(p) : RewardOf(o)' = RewardOf(o)
      BY <1>2 DEF Held, Unsettled, RewardOf
    <3>2. Backed(p)
      BY <1>1 DEF MoneyInductive
    <3> QED BY <3>1, <3>2, BackedKept
  <2>2. \A o \in OrderIds : JobOrders'[o] # None => RewardOf(o)' >= MinReward
    BY <1>1, <1>2 DEF MoneyInductive, RewardOf
  <2> QED BY <1>1, <2>1, <2>2 DEF MoneyInductive
<1> QED BY <1>3, <1>4, <1>5, <1>6, <1>7, <1>8 DEF MempoolInductive

\* A step takes from an account's free balance, or adds to its reserve, only what leaves
\* it the existential deposit.
LEMMA MoneyMoves ==
  ASSUME MempoolInductive, [Next]_vars, NEW a \in Accounts
  PROVE  \/ free'[a] >= ExistentialDeposit
         \/ free'[a] >= free[a] /\ reserved'[a] <= reserved[a]
<1>1. /\ TypeOK /\ RankingInductive /\ MoneyInductive
      /\ free \in [Accounts -> Nat] /\ reserved \in [Accounts -> Int]
  BY DEF MempoolInductive, MoneyInductive
<1>2. CASE UNCHANGED <<free, reserved>>
  BY <1>1, <1>2
<1>3. CASE \E who \in Proposers, t \in Terms : \E c : do_propose_job(who, t, c)
  <2>1. PICK who \in Proposers, t \in Terms :
          /\ free[who] >= t.reward + ExistentialDeposit
          /\ free' = [free EXCEPT ![who] = @ - t.reward]
          /\ reserved' = [reserved EXCEPT ![who] = @ + t.reward]
    BY <1>3 DEF do_propose_job, CanReserve
  <2>2. who \in Accounts /\ t.reward \in Nat
    BY TermsAssumption, BoundsAssumption
  <2> QED BY <1>1, <2>1, <2>2, BoundsAssumption
<1>4. CASE \E o \in OrderIds : claim_reward(o)
  <2>1. PICK o \in OrderIds : claim_reward(o)
    BY <1>4
  <2>2. /\ JobOrders[o] \in Order
        /\ Distributed(compute_payouts(o), StoredRanking(o), RewardOf(o))
        /\ \A b \in Accounts : free'[b] = free[b] + AmountFor(compute_payouts(o), b)
    BY <1>1, <2>1, ClaimMoves
  <2>3. AmountFor(compute_payouts(o), a) \in Nat
    BY <2>2 DEF Distributed
  <2>4. JobOrders[o].proposer \in Accounts /\ RewardOf(o) \in Nat
    BY <1>1, <2>2, RewardIsNat, NoneAssumption DEF Order
  <2>5. reserved' = [reserved EXCEPT ![JobOrders[o].proposer] = @ - RewardOf(o)]
    BY <2>1 DEF claim_reward, RewardOf
  <2> QED BY <1>1, <2>2, <2>3, <2>4, <2>5
<1>5. CASE \E who \in Proposers, o \in OrderIds : reclaim_order(who, o)
  <2>1. PICK who \in Proposers, o \in OrderIds :
          /\ JobOrders[o] # None
          /\ reserved' = [reserved EXCEPT ![who] = @ - RewardOf(o)]
          /\ free' = [free EXCEPT ![who] = @ + RewardOf(o)]
    BY <1>5 DEF reclaim_order, ReclaimAccepted, RewardOf
  <2>2. who \in Accounts /\ RewardOf(o) \in Nat
    BY <1>1, <2>1, RewardIsNat, BoundsAssumption
  <2> QED BY <1>1, <2>1, <2>2
<1>6. CASE \/ BookUntouched
           \/ \E who \in Miners, o \in OrderIds, s \in Submissions, p \in Payees \cup {None} :
                submit_solution(who, o, s, p)
           \/ on_initialize
  <2>1. UNCHANGED <<free, reserved>>
    BY <1>6 DEF BookUntouched, submit_solution, on_initialize, moneyVars
  <2> QED BY <1>2, <2>1
<1> QED BY <1>3, <1>4, <1>5, <1>6, BookSteps

\* The terms of an order are those it was admitted with.
LEMMA TermsStay ==
  ASSUME MempoolInductive, [Next]_vars, NEW o \in OrderIds, JobOrders'[o] # None
  PROVE  \/ JobOrders[o] # None /\ JobOrders'[o].terms = JobOrders[o].terms
         \/ JobOrders'[o].terms.spec_id \in JobSpecs /\ UNCHANGED JobSpecs
<1>1. TypeOK /\ IdsAllocated
  BY DEF MempoolInductive, QueueInductive
<1>2. CASE BookUntouched
  BY <1>2 DEF BookUntouched
<1>3. CASE \E who \in Proposers, t \in Terms : \E c : do_propose_job(who, t, c)
  <2>0. PICK who \in Proposers, t \in Terms : \E c : do_propose_job(who, t, c)
    BY <1>3
  <2>1. PICK c : do_propose_job(who, t, c)
    BY <2>0
  <2> DEFINE new == [proposer |-> who, terms |-> t, status |-> "Opened", created_at |-> now,
                     first_solution_at |-> None, solution_count |-> 0]
  <2>2. JobOrders' = [JobOrders EXCEPT ![NextOrderId] = new] /\ new.terms = t
    BY <1>1, <2>1, ProposeStores
  <2>3. t.spec_id \in JobSpecs /\ UNCHANGED JobSpecs
    BY <2>1 DEF do_propose_job, AcceptableTerms, registryVars
  <2> HIDE DEF new
  <2> QED BY <1>1, <2>2, <2>3 DEF TypeOK
<1>4. CASE \E who \in Miners, q \in OrderIds, s \in Submissions, p \in Payees \cup {None} :
             submit_solution(who, q, s, p)
  BY <1>1, <1>4, SubmitCounts, NoneAssumption
<1>5. CASE \/ \E q \in OrderIds : claim_reward(q)
           \/ \E who \in Proposers, q \in OrderIds : reclaim_order(who, q)
  <2>1. PICK q \in OrderIds : claim_reward(q) \/ \E who \in Proposers : reclaim_order(who, q)
    BY <1>5
  <2>2. /\ JobOrders[q] \in Order /\ JobOrders'[q].terms = JobOrders[q].terms
        /\ \A r \in OrderIds \ {q} : JobOrders'[r] = JobOrders[r]
    BY <1>1, <2>1, SettleKeeps
  <2>3. JobOrders[q] # None
    BY <2>2, NoneAssumption
  <2> QED BY ONLY <2>2, <2>3, q \in OrderIds, o \in OrderIds, JobOrders'[o] # None
<1>6. CASE on_initialize
  BY <1>1, <1>6, BlockKeeps
<1> QED BY <1>2, <1>3, <1>4, <1>5, <1>6, BookSteps
=============================================================================
