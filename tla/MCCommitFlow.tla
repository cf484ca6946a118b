---------------------------- MODULE MCCommitFlow ----------------------------
(***************************************************************************)
(* Instances of CommitFlow for TLC: two features, of which the second      *)
(* waits for the first.                                                    *)
(***************************************************************************)
EXTENDS CommitFlow, TLC

CONSTANTS fa, fb

MCDependsOn == (fa :> {}) @@ (fb :> {fa})
=============================================================================
