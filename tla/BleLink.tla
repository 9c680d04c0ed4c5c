------------------------------ MODULE BleLink ------------------------------
(***************************************************************************)
(* The BLE thread of the control centre between the controller and the     *)
(* phone (bluetooth_le.cpp, ble_resp.cpp).                                 *)
(*                                                                         *)
(* To the phone the thread works by stop and wait: it writes a frame to    *)
(* the BLE module, arms a timer, notes that it needs an ACK and sleeps; an *)
(* ACK or the timer wakes it.  From the phone, an interrupt collects the   *)
(* writes that make up a frame in usart_queue, takes the header off and    *)
(* tells the thread, which hands the frame to the controller.  The same    *)
(* thread does both, so frames from the phone wait while it sleeps.        *)
(*                                                                         *)
(* Bytes are counted in units of three, the size of the header and of the  *)
(* length and command of a frame.  Interrupts fall between any two steps.  *)
(***************************************************************************)
EXTENDS Integers, Sequences

CONSTANTS
  Wait,        \* the timeout of an ACK, in ticks
  MaxMsgs,     \* ble_message_queue_size
  UsartSize,   \* usart_queue_size, in units
  Limit,       \* a longer usart_queue is thrown away (30 bytes), in units
  PartSize,    \* the most a write of the phone carries, in units
  FrameSize,   \* sizes of frames of the phone without header, in units
  MaxOut,      \* bound: frames to the phone
  MaxIn,       \* bound: frames from the phone
  MaxLinks     \* bound: times the phone connects

ASSUME NumberAssumption ==
  /\ {Wait, MaxMsgs, UsartSize, Limit} \subseteq Nat \ {0}
  /\ PartSize \in Nat \ {0, 1}
  /\ FrameSize \subseteq Nat \ {0}
  /\ {MaxOut, MaxIn, MaxLinks} \subseteq Nat

VARIABLES
  pc,           \* where the BLE thread is
  msgs,         \* its message queue
  mConnect,
  usart_msg_len,
  to_phone,     \* controller_to_ble_msg_queue, a number of whole frames
  ack_timeout,  \* ble_ack_timeout_count
  need_to_wait_ack,
  packet_index,
  usart_queue,
  numOfMsg, totalMsgLen, msgLen,
  link,         \* the phone is connected
  acks,         \* ACKs the phone is about to write, by packet index
  left,         \* what the phone has still to write of a frame
  outs, ins, links,  \* history: frames to and from the phone, connections
  careless,     \* history: the phone broke a frame off or put something between
                \* its parts, or began one before the thread had fetched the
                \* frame before it
  overtaken,    \* history: what ends the wait came before the thread slept
  given,        \* history: what was handed to the controller, as units
  refused       \* history: a message for the thread was lost

thread == <<pc, usart_msg_len, packet_index, mConnect>>
waiting == <<ack_timeout, need_to_wait_ack, overtaken>>
assembly == <<numOfMsg, totalMsgLen, msgLen>>
phone == <<link, acks, left, outs, ins, links, careless>>
vars == <<pc, msgs, mConnect, usart_msg_len, to_phone, ack_timeout, need_to_wait_ack,
          packet_index, usart_queue, numOfMsg, totalMsgLen, msgLen, link, acks, left,
          outs, ins, links, careless, overtaken, given, refused>>

Least(a, b) == IF a < b THEN a ELSE b
Rest(s, n) == SubSeq(s, n + 1, Len(s))
First(s, n) == SubSeq(s, 1, n)

\* Unit i of frame f of size n: 0 is the header, 1 holds length and command.
Unit(f, n, i) == [frame |-> f, size |-> n, at |-> i]
Whole(f, n) == [i \in 1 .. n |-> Unit(f, n, i)]
AckUnit == Unit(0, 1, 0)

\* What preview_data takes for the length of a frame: any byte, if it is not one.
LengthAt(u) == IF u.at = 1 THEN {u.size} ELSE FrameSize \cup {1}

-----------------------------------------------------------------------------
(* Messages and waking up.                                                 *)

\* msg_send(.., false) and msg_send_int: lost when the queue is full.
SendMsg(type) ==
  /\ msgs' = IF Len(msgs) < MaxMsgs THEN Append(msgs, type) ELSE msgs
  /\ refused' = (refused \/ Len(msgs) >= MaxMsgs)

\* thread_wakeup wakes a sleeping thread and no other.
Wakeup == pc' = IF pc = "sleep" THEN "woken" ELSE pc

\* The timer has been armed and is stopped before thread_sleep().
Overtake == overtaken' = (overtaken \/ pc \in {"armed", "needing"})

-----------------------------------------------------------------------------
(* The BLE thread.                                                         *)

Receive(type) ==
  /\ pc = "receive"
  /\ msgs # <<>>
  /\ Head(msgs) = type
  /\ msgs' = Tail(msgs)

ClientConnect ==
  /\ Receive("connect")
  /\ mConnect' = TRUE
  /\ UNCHANGED <<pc, usart_msg_len, packet_index, to_phone, waiting, usart_queue,
                 assembly, phone, given, refused>>

ClientDisconnect ==
  /\ Receive("disconnect")
  /\ mConnect' = FALSE
  /\ UNCHANGED <<pc, usart_msg_len, packet_index, to_phone, waiting, usart_queue,
                 assembly, phone, given, refused>>

\* BLE_CLIENT_WRITE: look at the length of the frame in front ...
ClientWrite ==
  /\ Receive("write")
  /\ \E n \in IF usart_queue = <<>> THEN {1} ELSE LengthAt(Head(usart_queue)) :
       usart_msg_len' = n
  /\ pc' = "write"
  /\ UNCHANGED <<mConnect, packet_index, to_phone, waiting, usart_queue, assembly,
                 phone, given, refused>>

\* ... throw everything away if it is too much ...
ThrowAway ==
  /\ pc = "write"
  /\ Len(usart_queue) > Limit
  /\ usart_queue' = <<>>
  /\ pc' = "receive"
  /\ UNCHANGED <<msgs, mConnect, usart_msg_len, packet_index, to_phone, waiting,
                 assembly, phone, given, refused>>

\* ... or hand the frame on if all of it is there.
HandOn ==
  /\ pc = "write"
  /\ Len(usart_queue) <= Limit
  /\ IF usart_msg_len <= Len(usart_queue)
       THEN /\ given' = Append(given, First(usart_queue, usart_msg_len))
            /\ usart_queue' = Rest(usart_queue, usart_msg_len)
       ELSE UNCHANGED <<given, usart_queue>>
  /\ pc' = "receive"
  /\ UNCHANGED <<msgs, mConnect, usart_msg_len, packet_index, to_phone, waiting,
                 assembly, phone, refused>>

\* GFF_PENDING: a frame is taken, and written when a phone is connected.  The
\* phone may get it and answer, or not.
TakeFrame ==
  /\ Receive("gff")
  /\ IF to_phone > 0
       THEN /\ to_phone' = to_phone - 1
            /\ pc' = IF mConnect THEN "written" ELSE "receive"
            /\ acks' \in IF mConnect /\ link THEN {acks, Append(acks, packet_index)}
                                             ELSE {acks}
       ELSE UNCHANGED <<to_phone, pc, acks>>
  /\ UNCHANGED <<mConnect, usart_msg_len, packet_index, waiting, usart_queue,
                 assembly, link, left, outs, ins, links, careless, given, refused>>

\* A fault: the timer is not armed.
ArmedNot == ack_timeout

\* wait_mobile_ack: arm the timer ...
Armed == Wait
Arm ==
  /\ pc = "written"
  /\ ack_timeout' = Armed
  /\ pc' = "armed"
  /\ UNCHANGED <<msgs, mConnect, usart_msg_len, packet_index, to_phone,
                 need_to_wait_ack, overtaken, usart_queue, assembly, phone, given, refused>>

\* ... need an ACK ...
Need ==
  /\ pc = "armed"
  /\ need_to_wait_ack' = TRUE
  /\ pc' = "needing"
  /\ UNCHANGED <<msgs, mConnect, usart_msg_len, packet_index, to_phone, ack_timeout,
                 overtaken, usart_queue, assembly, phone, given, refused>>

\* ... and sleep.
Sleep ==
  /\ pc = "needing"
  /\ pc' = "sleep"
  /\ UNCHANGED <<msgs, mConnect, usart_msg_len, packet_index, to_phone, waiting,
                 usart_queue, assembly, phone, given, refused>>

\* After wait_mobile_ack; packet_index has 16 bits.
Resume ==
  /\ pc = "woken"
  /\ packet_index' = (packet_index + 1) % 65536
  /\ need_to_wait_ack' = FALSE
  /\ overtaken' = FALSE
  /\ pc' = "receive"
  /\ UNCHANGED <<msgs, mConnect, usart_msg_len, to_phone, ack_timeout, usart_queue,
                 assembly, phone, given, refused>>

-----------------------------------------------------------------------------
(* The controller and the interrupts.                                      *)

\* The controller puts a frame into the queue and sends GFF_PENDING.
FrameToPhone ==
  /\ outs < MaxOut
  /\ outs' = outs + 1
  /\ to_phone' = to_phone + 1
  /\ SendMsg("gff")
  /\ UNCHANGED <<thread, waiting, usart_queue, assembly, link, acks, left, ins, links,
                 careless, given>>

\* ble_timeout_TIM6_ISR
Tick ==
  /\ ack_timeout > 0
  /\ ack_timeout' = ack_timeout - 1
  /\ IF ack_timeout = 1 THEN Wakeup /\ Overtake ELSE UNCHANGED <<pc, overtaken>>
  /\ UNCHANGED <<msgs, mConnect, usart_msg_len, packet_index, to_phone,
                 need_to_wait_ack, usart_queue, assembly, phone, given, refused>>

\* ble_evt_connection_status
Connect ==
  /\ ~link
  /\ links < MaxLinks
  /\ link' = TRUE
  /\ links' = links + 1
  /\ SendMsg("connect")
  /\ UNCHANGED <<thread, to_phone, waiting, usart_queue, assembly, acks, left, outs,
                 ins, careless, given>>

\* ble_evt_connection_disconnected; what the phone had not written is lost.
Disconnect ==
  /\ link
  /\ careless' = (careless \/ left # <<>>)
  /\ link' = FALSE
  /\ acks' = <<>>
  /\ left' = <<>>
  /\ SendMsg("disconnect")
  /\ UNCHANGED <<thread, to_phone, waiting, usart_queue, assembly, outs, ins, links,
                 given>>

\* add_data stores as much as there is room for.
Stored(part) ==
  usart_queue \o First(part, Least(Len(part), UsartSize - Len(usart_queue)))

\* A fault: the header stays.
HeaderKept(q) == q

\* get_data, three times
HeaderOff(q) == Rest(q, 1)

\* ble_evt_attributes_value for data; when the frame is complete a header is taken
\* off the front of the queue.
Collect(part, len) ==
  LET total == totalMsgLen + Len(part)
  IN  /\ msgLen' = len
      /\ IF total = len
           THEN /\ numOfMsg' = 0
                /\ totalMsgLen' = 0
                /\ usart_queue' = HeaderOff(Stored(part))
                /\ SendMsg("write")
           ELSE /\ numOfMsg' = numOfMsg + 1
                /\ totalMsgLen' = total
                /\ usart_queue' = Stored(part)
                /\ UNCHANGED <<msgs, refused>>

\* A fault: the header is not counted.
LenOfPlain(part) == part[2].size

\* msgLen of a frame that begins with part, the header included
LenOf(part) == part[2].size + 1

\* The phone begins a frame.
BeginFrame(n) ==
  /\ link
  /\ left = <<>>
  /\ ins < MaxIn
  /\ careless' = (careless \/ usart_queue # <<>>)
  /\ ins' = ins + 1
  /\ left' = <<Unit(ins + 1, n, 0)>> \o Whole(ins + 1, n)
  /\ UNCHANGED <<thread, msgs, to_phone, waiting, usart_queue, assembly, link, acks,
                 outs, links, given, refused>>

\* ble_evt_attributes_value: a write of the phone with the next part of a frame.
Value ==
  /\ left # <<>>
  /\ LET part == First(left, Least(PartSize, Len(left)))
     IN  /\ Collect(part, IF numOfMsg = 0 THEN LenOf(part) ELSE msgLen)
         /\ left' = Rest(left, Len(part))
  /\ UNCHANGED <<thread, to_phone, waiting, link, acks, outs, ins, links, careless, given>>

\* The phone has written a part of a frame and not all of it.
Halfway == left # <<>> /\ Head(left).at > 0

\* ble_evt_attributes_value: the phone writes an ACK.  It is known as such only
\* where a frame may begin.
Ack ==
  /\ acks # <<>>
  /\ careless' = (careless \/ Halfway)
  /\ acks' = Tail(acks)
  /\ IF numOfMsg = 0
       THEN /\ ack_timeout' = 0
            /\ totalMsgLen' = 0
            /\ IF need_to_wait_ack THEN Wakeup ELSE UNCHANGED pc
            /\ Overtake
            /\ UNCHANGED <<msgs, refused, usart_queue, numOfMsg, msgLen>>
       ELSE /\ Collect(<<AckUnit>>, msgLen)
            /\ UNCHANGED <<ack_timeout, pc, overtaken>>
  /\ UNCHANGED <<mConnect, usart_msg_len, packet_index, to_phone, need_to_wait_ack,
                 link, left, outs, ins, links, given>>

\* ble_evt_attributes_value, handle 0x13: the phone starts anew.
StartAnew ==
  /\ link
  /\ careless' = (careless \/ Halfway)
  /\ numOfMsg' = 0
  /\ totalMsgLen' = 0
  /\ ack_timeout' = 0
  /\ Wakeup
  /\ Overtake
  /\ UNCHANGED <<msgs, mConnect, usart_msg_len, packet_index, to_phone,
                 need_to_wait_ack, usart_queue, msgLen, link, acks, left, outs, ins,
                 links, given, refused>>

-----------------------------------------------------------------------------
Init ==
  /\ pc = "receive"
  /\ msgs = <<>>
  /\ mConnect = FALSE
  /\ usart_msg_len = 0
  /\ to_phone = 0
  /\ ack_timeout = 0
  /\ need_to_wait_ack = FALSE
  /\ packet_index = 0
  /\ usart_queue = <<>>
  /\ numOfMsg = 0 /\ totalMsgLen = 0 /\ msgLen = 0
  /\ link = FALSE
  /\ acks = <<>>
  /\ left = <<>>
  /\ outs = 0 /\ ins = 0 /\ links = 0
  /\ careless = FALSE
  /\ overtaken = FALSE
  /\ given = <<>>
  /\ refused = FALSE

Thread ==
  \/ ClientConnect \/ ClientDisconnect
  \/ ClientWrite \/ ThrowAway \/ HandOn
  \/ TakeFrame \/ Arm \/ Need \/ Sleep \/ Resume

Interrupt ==
  \/ Tick \/ Connect \/ Disconnect
  \/ (\E n \in FrameSize : BeginFrame(n)) \/ Value \/ Ack \/ StartAnew

Next == Thread \/ FrameToPhone \/ Interrupt

Spec == Init /\ [][Next]_vars

\* The thread has the highest priority but one, and the timer runs; the phone
\* owes nothing.
FairSpec == Spec /\ WF_vars(Thread) /\ WF_vars(Tick)

-----------------------------------------------------------------------------
(* Properties.                                                             *)

Units == [frame : 0 .. MaxIn, size : FrameSize \cup {1}, at : Nat]

\* Every variable keeps its type, and the queues their capacity.
TypeOK ==
  /\ pc \in {"receive", "write", "written", "armed", "needing", "sleep", "woken"}
  /\ msgs \in Seq({"connect", "disconnect", "write", "gff"})
  /\ Len(msgs) <= MaxMsgs
  /\ {mConnect, need_to_wait_ack, link, careless, overtaken, refused} \subseteq BOOLEAN
  /\ to_phone \in 0 .. MaxOut
  /\ ack_timeout \in 0 .. Wait
  /\ packet_index \in 0 .. 65535
  /\ usart_queue \in Seq(Units)
  /\ Len(usart_queue) <= UsartSize
  /\ {usart_msg_len, numOfMsg, totalMsgLen, msgLen} \subseteq Nat
  /\ acks \in Seq(0 .. 65535)

\* "thread wait ack from Mobile": a thread that sleeps has a timer that will wake
\* it, whatever is late, missing or sent twice, unless an ACK, a new start of the
\* phone or the timer itself came after the timer was armed and before
\* thread_sleep(): then only another ACK or new start of the phone wakes it.
SleepIsTimed == pc = "sleep" /\ ~overtaken => ack_timeout > 0

\* What the controller is given is a frame the phone has written, whole and
\* without its header, and frames come in the order they were written.
GivenWhole ==
  /\ \A i \in DOMAIN given :
       \E f \in 1 .. ins, n \in FrameSize : given[i] = Whole(f, n)
  /\ \A i, j \in DOMAIN given : i < j => given[i][1].frame < given[j][1].frame

\* That much holds if the phone has one frame under way at a time and completes
\* it with nothing else between its parts, also while the thread waits for ACKs.
WholeIfCareful == ~careless => GivenWhole

\* No frame of such a phone is lost either, unless its message was refused.
AllIfCareful ==
  ~careless /\ ~refused /\ pc = "receive" /\ msgs = <<>> /\ left = <<>>
    => Len(given) = ins

\* The thread comes back to its message queue and empties it: no frame of the
\* controller waits for ever for an ACK that does not come, only for one that
\* came too early.
ThreadGetsIdle ==
  (pc # "receive" \/ msgs # <<>>) ~> ((pc = "receive" /\ msgs = <<>>) \/ overtaken)
=============================================================================
