----------------------------- MODULE MCCirQueue -----------------------------
(***************************************************************************)
(* CirQueue with a three-byte array, two byte values and buffers of up to  *)
(* four bytes: one longer than the array, so a single add can overrun it.  *)
(***************************************************************************)
EXTENDS CirQueue
=============================================================================
