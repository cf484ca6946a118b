--------------------------- MODULE MCFeatureBundle ---------------------------
(***************************************************************************)
(* Instances of FeatureBundle for TLC.  Nothing distinguishes one slug     *)
(* from another, so they are interchangeable.                              *)
(***************************************************************************)
EXTENDS FeatureBundle, TLC

SlugSymmetry == Permutations(Slug)
=============================================================================
