--------------------------- MODULE EscrowRefinement ---------------------------
(***************************************************************************)
(* ComputeMempool implements OrderEscrow.  An account's wealth is its free *)
(* balance, an order is decided when on_initialize expires it, and its     *)
(* winners are the solvers of the ranking stored at that moment.           *)
(***************************************************************************)
EXTENDS ComputeMempool

Exists(o) == JobOrders[o] # None

StageOf(o) ==
  IF ~Exists(o) THEN "absent"
  ELSE CASE JobOrders[o].status = "Opened" -> "open"
         [] JobOrders[o].status = "Expired" -> "decided"
         [] JobOrders[o].status = "Closed" -> "settled"

PledgeOf(o) == IF Exists(o) THEN JobOrders[o].terms.reward ELSE 0
PledgerOf(o) == IF Exists(o) THEN JobOrders[o].proposer ELSE None

WinnersOf(o) ==
  IF StageOf(o) \in {"absent", "open"} THEN {}
  ELSE {StoredRanking(o)[i].solver : i \in DOMAIN StoredRanking(o)}

Escrow == INSTANCE OrderEscrow WITH
  Orders  <- OrderIds,
  wealth  <- free,
  stage   <- [o \in OrderIds |-> StageOf(o)],
  pledge  <- [o \in OrderIds |-> PledgeOf(o)],
  pledger <- [o \in OrderIds |-> PledgerOf(o)],
  winners <- [o \in OrderIds |-> WinnersOf(o)]

(***************************************************************************)
(* The order book keeps the market's promise: whatever propose_job,        *)
(* submit_solution, the hook, claim_reward and reclaim_order do, each of   *)
(* their steps pledges, decides, pays or returns as OrderEscrow allows, or *)
(* leaves money, stages and winners alone.                                 *)
(***************************************************************************)
EscrowImplemented == Escrow!EscrowSpec
=============================================================================
