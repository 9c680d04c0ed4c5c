----------------------------- MODULE MCNewScene -----------------------------
(***************************************************************************)
(* NewScene on a few scenes of a few rules.  Nothing in it tells one name  *)
(* or one version from another.                                            *)
(***************************************************************************)
EXTENDS NewScene, TLC

Symmetry == Permutations(Name) \cup Permutations(Version)
=============================================================================
