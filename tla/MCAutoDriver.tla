----------------------------- MODULE MCAutoDriver -----------------------------
(***************************************************************************)
(* Instances of AutoDriver for TLC: two features that do not wait for one  *)
(* another.                                                                *)
(***************************************************************************)
EXTENDS AutoDriver, TLC

CONSTANTS fa, fb

MCOrder == <<fa, fb>>

MCIndependent == (fa :> {}) @@ (fb :> {})
=============================================================================
