------------------------------ MODULE ByteFifo ------------------------------
(***************************************************************************)
(* What a circular byte queue of the firmware promises to its two users:   *)
(* a first-in first-out queue of at most Capacity bytes.  The queue never  *)
(* blocks and never refuses a byte, so a byte added to a full queue has a  *)
(* cost, and the specification says which: everything that was queued is   *)
(* discarded and the new byte is the only one left.                        *)
(***************************************************************************)
EXTENDS Naturals, Sequences

CONSTANTS
  Capacity,  \* number of bytes the queue can hold
  Byte,      \* the values a byte can take
  Zero       \* the byte an empty queue answers with

VARIABLES
  fifo,      \* the queued bytes, oldest first
  out,       \* the byte returned by the latest read
  lost       \* TRUE once queued bytes have been discarded

vars == <<fifo, out, lost>>

Init ==
  /\ fifo = <<>>
  /\ out = Zero
  /\ lost = FALSE

Put(b) ==
  /\ Len(fifo) < Capacity
  /\ fifo' = Append(fifo, b)
  /\ UNCHANGED <<out, lost>>

Overrun(b) ==
  /\ Len(fifo) = Capacity
  /\ fifo' = <<b>>
  /\ lost' = TRUE
  /\ UNCHANGED out

Peek ==
  /\ fifo # <<>>
  /\ out' = Head(fifo)
  /\ UNCHANGED <<fifo, lost>>

Take ==
  /\ fifo # <<>>
  /\ out' = Head(fifo)
  /\ fifo' = Tail(fifo)
  /\ UNCHANGED lost

ReadEmpty ==
  /\ fifo = <<>>
  /\ out' = Zero
  /\ UNCHANGED <<fifo, lost>>

Next ==
  \/ \E b \in Byte : Put(b) \/ Overrun(b)
  \/ Peek
  \/ Take
  \/ ReadEmpty

Spec == Init /\ [][Next]_vars
=============================================================================
