----------------------------- MODULE GffChannel -----------------------------
(***************************************************************************)
(* One direction of the firmware's inter-thread traffic.  A writer thread  *)
(* adds a GFF frame to a cir_queue and sends the reader thread one message *)
(* per frame (slp_received_GFF_handler, forward_data_msg_to_6lowpan, the   *)
(* controller's *_to_ble functions); the reader takes one frame out of the *)
(* ring per message (slp_gff_handler, send_data_gff,                       *)
(* receive_msg_from_controller).                                           *)
(*                                                                         *)
(* There is no lock.  The thread of higher priority runs whenever it can,  *)
(* so it preempts the other one between any two statements of the ring's   *)
(* primitives, and is itself never preempted by it: hence one action per   *)
(* statement, and the guards MayWrite and MayRead.  Which of the two it is *)
(* differs from channel to channel.  The overflow indicator and            *)
(* preview_pos, which nothing reads here, are in CirQueue.                 *)
(***************************************************************************)
EXTENDS Ring, SequencesExt

CONSTANTS
  MsgSlots,     \* length of the reader's message queue
  Frame,        \* the frames writers send: first byte, header, data
  Header        \* GFF_LEN_SIZE + GFF_CMD_SIZE

ASSUME SizeAssumption ==
  /\ MsgSlots \in Nat
  /\ Header \in Nat \ {0}
ASSUME ByteAssumption == Byte \subseteq Nat /\ 0 \in Byte
ASSUME FrameAssumption ==
  Frame \subseteq {f \in Seq(Byte) : f # <<>> /\ Len(f) = f[1] + Header}

VARIABLES
  reader_first,          \* the reader has the higher priority (set for good)
  w_pc, w_frame, w_pos,  \* the writer: statement, frame, byte of the frame
  r_pc, r_need, r_left,  \* the reader: statement, size of the frame by its
                         \* first byte, bytes its loop has still to take
  gff_frame,             \* the reader's buffer
  msgs,                  \* messages waiting in the reader's message queue
  pending,               \* history: frames added and not handed on
  handed,                \* history: the frame handed on last
  held,                  \* history: bytes added and not taken
  dropped,               \* history: messages refused by a full message queue
  overrun,               \* history: a byte was added to a full ring
  raced                  \* history: the mark "empty" met an added byte

writer == <<w_pc, w_frame, w_pos>>
reader == <<r_pc, r_need, r_left, gff_frame>>
history == <<pending, handed, held, dropped, overrun, raced>>
ChannelVars ==
  <<reader_first, queue_p, head, tail, w_pc, w_frame, w_pos, r_pc, r_need, r_left,
    gff_frame, msgs, pending, handed, held, dropped, overrun, raced>>

Broken == overrun \/ raced

-----------------------------------------------------------------------------
\* Bytes of a frame, from its first byte; and a fault that forgets the header.
FrameSizeNoHeader(len) == len
FrameSize(len) == len + Header

\* The reader's test that the frame is there; and a fault, one byte too strict.
IsThereStrict(size, need) == size > need
IsThere(size, need) == size >= need

\* The position add_data(byte) marks as the oldest; and a fault, where the mark
\* is made after head has moved.
OldestLate == Advance(head)
Oldest == head

-----------------------------------------------------------------------------
(* Priorities.  A thread waits in msg_receive or sleeps while it sends its  *)
(* frame on (the reader), or waits for its next frame (the writer).         *)

ReaderRuns == r_pc \notin {"wait", "asleep"}
WriterRuns == w_pc # "wait"
MayWrite == reader_first => ~ReaderRuns
MayRead == ~reader_first => ~WriterRuns

-----------------------------------------------------------------------------
(* The writer: add_data(buf, n), then msg_send.                            *)

WriteFrame(f) ==
  /\ MayWrite
  /\ w_pc = "wait"
  /\ w_pc' = "store"
  /\ w_frame' = f
  /\ w_pos' = 1
  /\ UNCHANGED <<ring, reader, msgs, history>>

\* queue_p[head] = a_byte
Store ==
  /\ MayWrite
  /\ w_pc = "store"
  /\ queue_p' = [queue_p EXCEPT ![head] = w_frame[w_pos]]
  /\ overrun' = (overrun \/ held = QueueSize)
  /\ w_pc' = "test"
  /\ UNCHANGED <<head, tail, w_frame, w_pos, reader, msgs, pending, handed, held,
                 dropped, raced>>

\* if (tail == -1)
TestEmpty ==
  /\ MayWrite
  /\ w_pc = "test"
  /\ w_pc' = IF tail = -1 THEN "first" ELSE "move"
  /\ UNCHANGED <<ring, w_frame, w_pos, reader, msgs, history>>

\* tail = head
SetTail ==
  /\ MayWrite
  /\ w_pc = "first"
  /\ tail' = Oldest
  /\ w_pc' = "move"
  /\ UNCHANGED <<queue_p, head, w_frame, w_pos, reader, msgs, history>>

\* head = (head + 1) % queue_size: the byte is added.
MoveHead ==
  /\ MayWrite
  /\ w_pc = "move"
  /\ head' = Advance(head)
  /\ held' = IF held < QueueSize THEN held + 1 ELSE held
  /\ raced' = (raced \/ tail = -1)
  /\ IF w_pos < Len(w_frame)
       THEN /\ w_pc' = "store"
            /\ w_pos' = w_pos + 1
            /\ UNCHANGED pending
       ELSE /\ w_pc' = "send"
            /\ UNCHANGED w_pos
            /\ pending' = IF overrun \/ raced' THEN <<>> ELSE Append(pending, w_frame)
  /\ UNCHANGED <<queue_p, tail, w_frame, reader, msgs, handed, dropped, overrun>>

\* msg_send(&mesg, pid, false): to a waiting reader directly, else into its
\* message queue, and into nothing when that is full.
SendMsg ==
  /\ MayWrite
  /\ w_pc = "send"
  /\ w_pc' = "wait"
  /\ IF r_pc = "wait"
       THEN /\ r_pc' = "preview"
            /\ UNCHANGED <<msgs, dropped>>
       ELSE /\ UNCHANGED r_pc
            /\ IF msgs < MsgSlots
                 THEN /\ msgs' = msgs + 1
                      /\ UNCHANGED dropped
                 ELSE /\ UNCHANGED msgs
                      /\ dropped' = IF Broken THEN dropped ELSE dropped + 1
  /\ UNCHANGED <<ring, w_frame, w_pos, r_need, r_left, gff_frame, pending, handed,
                 held, overrun, raced>>

-----------------------------------------------------------------------------
(* The reader: one frame per message.                                      *)

\* msg_receive
Receive ==
  /\ MayRead
  /\ r_pc = "wait"
  /\ msgs > 0
  /\ msgs' = msgs - 1
  /\ r_pc' = "preview"
  /\ UNCHANGED <<ring, writer, r_need, r_left, gff_frame, history>>

\* data_len = preview_data(false)
PreviewSize ==
  /\ MayRead
  /\ r_pc = "preview"
  /\ r_need' = FrameSize(IF tail = -1 THEN 0 ELSE queue_p[tail])
  /\ r_pc' = "check"
  /\ UNCHANGED <<ring, writer, r_left, gff_frame, msgs, history>>

\* The frame is not all there: back to msg_receive ...
Refuse ==
  /\ MayRead
  /\ r_pc = "check"
  /\ ~IsThere(get_size, r_need)
  /\ r_pc' = "wait"
  /\ UNCHANGED <<ring, writer, r_need, r_left, gff_frame, msgs, history>>

\* ... or else get_data(buf, n) is called ...
Accept ==
  /\ MayRead
  /\ r_pc = "check"
  /\ IsThere(get_size, r_need)
  /\ r_pc' = "count"
  /\ UNCHANGED <<ring, writer, r_need, r_left, gff_frame, msgs, history>>

\* ... which reads the size again, before its loop.
Count ==
  /\ MayRead
  /\ r_pc = "count"
  /\ r_left' = IF get_size > r_need THEN r_need ELSE get_size
  /\ gff_frame' = <<>>
  /\ r_pc' = "take"
  /\ UNCHANGED <<ring, writer, r_need, msgs, history>>

\* get_data(): nothing to take ...
TakeNothing ==
  /\ MayRead
  /\ r_pc = "take"
  /\ r_left > 0
  /\ tail = -1
  /\ gff_frame' = Append(gff_frame, 0)
  /\ r_left' = r_left - 1
  /\ UNCHANGED <<ring, writer, r_pc, r_need, msgs, history>>

\* ... or retdata = queue_p[tail]; tail = (tail + 1) % queue_size
Take ==
  /\ MayRead
  /\ r_pc = "take"
  /\ r_left > 0
  /\ tail # -1
  /\ gff_frame' = Append(gff_frame, queue_p[tail])
  /\ tail' = Advance(tail)
  /\ held' = IF held > 0 THEN held - 1 ELSE held
  /\ r_left' = r_left - 1
  /\ r_pc' = "test"
  /\ UNCHANGED <<queue_p, head, writer, r_need, msgs, pending, handed, dropped,
                 overrun, raced>>

\* if (tail == head)
TestLast ==
  /\ MayRead
  /\ r_pc = "test"
  /\ r_pc' = IF tail = head THEN "mark" ELSE "take"
  /\ UNCHANGED <<ring, writer, r_need, r_left, gff_frame, msgs, history>>

\* tail = -1
MarkEmpty ==
  /\ MayRead
  /\ r_pc = "mark"
  /\ tail' = -1
  /\ raced' = (raced \/ held > 0)
  /\ r_pc' = "take"
  /\ UNCHANGED <<queue_p, head, writer, r_need, r_left, gff_frame, msgs, pending,
                 handed, held, dropped, overrun>>

\* The buffer is full: the frame is handed on, and the reader sleeps or waits
\* for an acknowledgement meanwhile.
HandOn ==
  /\ MayRead
  /\ r_pc = "take"
  /\ r_left = 0
  /\ handed' = gff_frame
  /\ pending' = IF pending = <<>> THEN <<>> ELSE Tail(pending)
  /\ r_pc' = "asleep"
  /\ UNCHANGED <<ring, writer, r_need, r_left, gff_frame, msgs, held, dropped,
                 overrun, raced>>

Wake ==
  /\ MayRead
  /\ r_pc = "asleep"
  /\ r_pc' = "wait"
  /\ UNCHANGED <<ring, writer, r_need, r_left, gff_frame, msgs, history>>

-----------------------------------------------------------------------------
ChannelInit ==
  /\ reader_first \in BOOLEAN
  /\ queue_p = [i \in Index |-> 0]
  /\ head = 0
  /\ tail = -1
  /\ w_pc = "wait"
  /\ w_frame = <<>>
  /\ w_pos = 1
  /\ r_pc = "wait"
  /\ r_need = 0
  /\ r_left = 0
  /\ gff_frame = <<>>
  /\ msgs = 0
  /\ pending = <<>>
  /\ handed = <<>>
  /\ held = 0
  /\ dropped = 0
  /\ overrun = FALSE
  /\ raced = FALSE

Write == (\E f \in Frame : WriteFrame(f)) \/ Store \/ TestEmpty \/ SetTail \/ MoveHead \/ SendMsg
Read ==
  \/ Receive \/ PreviewSize \/ Refuse \/ Accept \/ Count
  \/ TakeNothing \/ Take \/ TestLast \/ MarkEmpty \/ HandOn \/ Wake

ChannelNext == (Write \/ Read) /\ UNCHANGED reader_first

ChannelSpec == ChannelInit /\ [][ChannelNext]_ChannelVars

-----------------------------------------------------------------------------
(* Properties.                                                             *)

\* Every variable keeps its type.
ChannelTypeOK ==
  /\ reader_first \in BOOLEAN
  /\ queue_p \in [Index -> Byte]
  /\ head \in Index
  /\ tail \in Index \cup {-1}
  /\ w_pc \in {"wait", "store", "test", "first", "move", "send"}
  /\ w_frame \in Frame \cup {<<>>}
  /\ w_pos \in Nat \ {0}
  /\ r_pc \in {"wait", "preview", "check", "count", "take", "test", "mark", "asleep"}
  /\ r_need \in Nat
  /\ r_left \in Nat
  /\ gff_frame \in Seq(Byte)
  /\ msgs \in 0 .. MsgSlots
  /\ pending \in Seq(Frame)
  /\ handed \in Seq(Byte)
  /\ held \in 0 .. QueueSize
  /\ dropped \in Nat
  /\ overrun \in BOOLEAN
  /\ raced \in BOOLEAN

\* The bytes added and not taken, which end just below head.
Below(n) == IF head >= n THEN head - n ELSE head + QueueSize - n
HeldBytes == [i \in 1 .. held |-> queue_p[Below(held + 1 - i)]]
Taken == IF r_pc \in {"take", "test", "mark"} THEN gff_frame ELSE <<>>
Adding == IF w_pc \in {"store", "test", "first", "move"}
            THEN SubSeq(w_frame, 1, w_pos - 1) ELSE <<>>

\* However the two threads preempt each other, the ring holds every byte of
\* the frames not yet handed on, in order, and tail leads to the oldest: no
\* byte is lost, doubled or moved, as long as no byte was added to a full ring
\* (overrun) and none while the reader marked the ring empty (raced).
RingHoldsFrames ==
  ~Broken =>
    /\ FlattenSeq(pending) \o Adding = Taken \o HeldBytes
    /\ held > 0 => tail = Below(held)

\* The reader is handed the very frames the writers sent, each once, in order.
Frames == INSTANCE FrameFifo
            WITH frames <- pending, got <- handed, broken <- Broken, NoFrame <- <<>>
FramesInOrder == Frames!Spec

\* Every frame in the ring has a message on its way that will fetch it, but
\* for one frame per message that a full message queue refused: those stay
\* behind for good, and every later frame is fetched that much later.
Announced ==
  msgs + (IF w_pc = "send" THEN 1 ELSE 0)
       + (IF r_pc \in {"wait", "asleep"} THEN 0 ELSE 1)
LagIsDropped == ~Broken => Len(pending) = Announced + dropped

\* cir_queue.h: add_data adds its bytes "to head of the circular queue" and
\* get_data takes n bytes "from tail": what was added and not taken is there as
\* soon as neither thread is inside a primitive, if the ring had room for it.
AddedStays ==
  ~overrun /\ w_pc \in {"wait", "send"} /\ r_pc \in {"wait", "asleep", "take"}
    => get_size = held
=============================================================================
