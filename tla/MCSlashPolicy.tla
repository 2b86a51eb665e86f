---------------------------- MODULE MCSlashPolicy ----------------------------
(***************************************************************************)
(* A small instance of SlashPolicy: fractions and windows on both sides of *)
(* the rails, eras of one or two sessions, enough eras for entries to      *)
(* leave the shorter window, then the longer one.                          *)
(***************************************************************************)
EXTENDS SlashPolicy
CONSTANT s1

MCEraLength == [e \in 0..MaxEra |-> IF e % 2 = 0 THEN 2 ELSE 1]
\* Exposed in every era but one.
MCExposed == [e \in 0..MaxEra |-> IF e = 2 THEN {} ELSE Stash]
=============================================================================
