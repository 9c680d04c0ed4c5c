---------------------------- MODULE MCDeviceMng ----------------------------
(***************************************************************************)
(* DeviceMng on small device lists.  The devices are interchangeable.      *)
(***************************************************************************)
EXTENDS DeviceMng, TLC

Symmetry == Permutations(Device)
=============================================================================
