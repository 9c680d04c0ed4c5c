----------------------------- MODULE FrameFifo -----------------------------
(***************************************************************************)
(* What two threads that share a byte queue and a message queue expect of  *)
(* the pair: whole frames come out once and in the order they went in.     *)
(* The pair can break; from then on it promises nothing.                   *)
(***************************************************************************)
EXTENDS Sequences

CONSTANTS
  Frame,    \* frames a writer can send
  NoFrame   \* what the reader holds before it has received any

VARIABLES
  frames,   \* frames sent and not yet received, oldest first
  got,      \* the frame received last
  broken    \* TRUE once the promise is off

vars == <<frames, got, broken>>

Init ==
  /\ frames = <<>>
  /\ got = NoFrame
  /\ broken = FALSE

Send(f) ==
  /\ ~broken
  /\ frames' = Append(frames, f)
  /\ UNCHANGED <<got, broken>>

Receive ==
  /\ ~broken
  /\ frames # <<>>
  /\ got' = Head(frames)
  /\ frames' = Tail(frames)
  /\ UNCHANGED broken

Break == broken'

Next ==
  \/ \E f \in Frame : Send(f)
  \/ Receive
  \/ Break

Spec == Init /\ [][Next]_vars
=============================================================================
