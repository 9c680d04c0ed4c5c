----------------------------- MODULE MCBleLink ------------------------------
(***************************************************************************)
(* BleLink with frames of two sizes, of which the larger takes two writes  *)
(* and is just within the limit.                                           *)
(***************************************************************************)
EXTENDS BleLink
=============================================================================
