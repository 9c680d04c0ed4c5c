---------------------------- MODULE MCFatVolume ----------------------------
(***************************************************************************)
(* FatVolume on a card of a few clusters.  Nothing in it tells one thread  *)
(* or one version from another.  A state in which one of the two names     *)
(* that a torn rename left has been overwritten or removed is reached, but *)
(* not left: the properties claim nothing from there on.                   *)
(***************************************************************************)
EXTENDS FatVolume, TLC

NotHurt == ~hurt

Symmetry == Permutations(Thread) \cup Permutations(Version) \cup Permutations(File)
=============================================================================
