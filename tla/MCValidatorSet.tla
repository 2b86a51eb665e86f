--------------------------- MODULE MCValidatorSet ---------------------------
(***************************************************************************)
(* Small instances of ValidatorSet for TLC.                                *)
(***************************************************************************)
EXTENDS ValidatorSet
=============================================================================
