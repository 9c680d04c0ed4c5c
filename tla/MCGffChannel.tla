---------------------------- MODULE MCGffChannel ----------------------------
(***************************************************************************)
(* GffChannel with a header of one byte and short frames.                  *)
(***************************************************************************)
EXTENDS GffChannel

ShortFrames == {<<1, 1>>, <<1, 2>>, <<2, 0, 1>>}
Bytes == 0 .. 2

\* After an overrun or a race the threads finish what they are at, and the
\* reader what it has messages for, but no new frame is begun.
NoFrameAfterBroken == Broken /\ w_pc = "store" => w_pos > 1
=============================================================================
