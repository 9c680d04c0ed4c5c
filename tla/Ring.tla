-------------------------------- MODULE Ring --------------------------------
(***************************************************************************)
(* The array of class cir_queue (libs/misc/cir_queue.cpp) and its two      *)
(* positions.  CirQueue has the operations of the class on it, GffChannel  *)
(* the threads that use it, statement by statement.                        *)
(***************************************************************************)
EXTENDS Integers, Sequences

CONSTANTS
  QueueSize,  \* queue_size, the length of the array the owner supplies
  Byte        \* the values a byte can take

ASSUME QueueSizeAssumption == QueueSize \in Nat \ {0}

VARIABLES
  queue_p,  \* the array
  head,     \* position the next byte is written to
  tail      \* position of the oldest byte, -1 when the queue is empty

ring == <<queue_p, head, tail>>

Index == 0 .. QueueSize - 1

\* (i + 1) % queue_size, for a position of the array
Advance(i) == IF i = QueueSize - 1 THEN 0 ELSE i + 1

\* get_size() for given positions
SizeOf(h, t) ==
  IF t = -1 THEN 0 ELSE IF h > t THEN h - t ELSE h + QueueSize - t

get_size == SizeOf(head, tail)
=============================================================================
