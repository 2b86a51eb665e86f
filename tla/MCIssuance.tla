------------------------------ MODULE MCIssuance ------------------------------
(* A chain of two subnets with unequal shares, and one user. *)
EXTENDS FaucetOps
CONSTANT u1
MCUsers == {u1}
MCRoutes == << <<0, 3>>, <<1, 1>> >>
MCStartsAt == {None, FirstTime + 1}
ASSUME MCScheduleFits == ScheduleFits
=============================================================================
