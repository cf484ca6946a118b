---------------------------- MODULE FeatureGraph ----------------------------
(***************************************************************************)
(* When a set F of features with depends_on lists d is a sound graph.      *)
(* These are the two verdicts writeFeatures (src/lib/write.mjs) takes from *)
(* topoSort, stated without the algorithm; module TopoSort shows that the  *)
(* algorithm decides them.                                                 *)
(***************************************************************************)

\* No feature names one that is not there.
Resolved(F, d) == \A s \in F : d[s] \subseteq F

\* No features wait for one another: of any, one waits for none of the others.
Acyclic(F, d) == \A T \in SUBSET F : T # {} => \E s \in T : d[s] \cap T = {}
=============================================================================
