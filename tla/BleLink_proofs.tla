--------------------------- MODULE BleLink_proofs ---------------------------
(***************************************************************************)
(* Proofs about the BLE thread, for any timeout and any queues, frames and *)
(* connections: it never sleeps without a timer, unless something stopped  *)
(* that between its arming and thread_sleep(); and the frames of a phone   *)
(* that sends one at a time reach the controller whole.                    *)
(***************************************************************************)
EXTENDS BleLink, SequenceTheorems, TLAPS

\* From the arming of the timer on it runs, unless it was overtaken, and from the
\* statement after it on the thread is known to need an ACK: without that an ACK
\* would stop the timer of a sleeping thread and not wake it.
TimedInv ==
  /\ ack_timeout \in Nat
  /\ overtaken \in BOOLEAN
  /\ pc \in {"armed", "needing", "sleep"} => ack_timeout > 0 \/ overtaken
  /\ pc \in {"needing", "sleep"} => need_to_wait_ack

LEMMA InitTimed == Init => TimedInv
  <1> SUFFICES ASSUME Init PROVE TimedInv
    OBVIOUS
  <1>1. overtaken \in BOOLEAN
    BY DEF Init
  <1>2. ack_timeout = 0 /\ pc = "receive"
    BY DEF Init
  <1>3. QED
    BY <1>1, <1>2 DEF TimedInv

\* Waking up leaves a thread that does not sleep where it is.
LEMMA WakeupEnds ==
  ASSUME Wakeup
  PROVE  /\ pc' # "sleep"
         /\ pc' = pc \/ pc' = "woken"
         /\ pc = "sleep" => pc' = "woken"
  BY DEF Wakeup

\* A timer that is stopped, with the thread woken, does no harm or is noted.
LEMMA StoppedTimed ==
  ASSUME TimedInv, ack_timeout' = 0, need_to_wait_ack' = need_to_wait_ack, Overtake,
         Wakeup \/ (pc # "sleep" /\ pc' = pc)
  PROVE  TimedInv'
  <1>1. pc' # "sleep" /\ (pc' = pc \/ pc' = "woken")
    BY WakeupEnds
  <1>2. overtaken' \in BOOLEAN
    BY DEF Overtake, TimedInv
  <1>3. ASSUME pc' \in {"armed", "needing"} PROVE overtaken'
    <2>1. pc \in {"armed", "needing"}
      BY <1>1, <1>3
    <2>2. QED
      BY <2>1 DEF Overtake
  <1>4. QED
    BY <1>1, <1>2, <1>3 DEF TimedInv

LEMMA StepTimed ==
  ASSUME TimedInv, [Next]_vars
  PROVE  TimedInv'
  <1>1. CASE ClientConnect \/ ClientDisconnect \/ ClientWrite \/ ThrowAway \/ HandOn
    <2>1. UNCHANGED waiting /\ pc' \in {"receive", "write"}
      BY <1>1 DEF ClientConnect, ClientDisconnect, ClientWrite, ThrowAway, HandOn, Receive
    <2>2. QED
      BY <2>1 DEF TimedInv, waiting
  <1>2. CASE TakeFrame
    <2>1. UNCHANGED waiting /\ pc' \in {"receive", "written"}
      BY <1>2 DEF TakeFrame, Receive
    <2>2. QED
      BY <2>1 DEF TimedInv, waiting
  <1>3. CASE Arm
    BY <1>3, NumberAssumption DEF Arm, Armed, TimedInv
  <1>4. CASE Need
    BY <1>4 DEF Need, TimedInv
  <1>5. CASE Sleep
    BY <1>5 DEF Sleep, TimedInv, waiting
  <1>6. CASE Resume
    <2>1. overtaken' = FALSE
      BY <1>6 DEF Resume
    <2>2. ack_timeout' = ack_timeout /\ pc' = "receive"
      BY <1>6 DEF Resume
    <2>3. QED
      BY <2>1, <2>2 DEF TimedInv
  <1>7. CASE FrameToPhone \/ Connect \/ Disconnect \/ (\E n \in FrameSize : BeginFrame(n)) \/ Value
    <2>1. UNCHANGED <<pc, waiting>>
      BY <1>7 DEF FrameToPhone, Connect, Disconnect, BeginFrame, Value, thread
    <2>2. QED
      BY <2>1 DEF TimedInv, waiting
  <1>8. CASE Tick
    <2>0. ack_timeout' = ack_timeout - 1 /\ need_to_wait_ack' = need_to_wait_ack
      BY <1>8 DEF Tick
    <2>1. CASE ack_timeout = 1
      <3>1. Wakeup /\ Overtake /\ ack_timeout' = 0
        BY <1>8, <2>0, <2>1 DEF Tick
      <3>2. QED
        BY <2>0, <3>1, StoppedTimed
    <2>2. CASE ack_timeout # 1
      <3>1. /\ UNCHANGED <<pc, overtaken>>
            /\ ack_timeout > 0
        BY <1>8, <2>2 DEF Tick
      <3>2. ack_timeout' \in Nat /\ ack_timeout' > 0
        BY <2>0, <2>2, <3>1 DEF TimedInv
      <3>3. QED
        BY <2>0, <3>1, <3>2 DEF TimedInv
    <2>3. QED
      BY <2>1, <2>2
  <1>9. CASE Ack
    <2>1. need_to_wait_ack' = need_to_wait_ack
      BY <1>9 DEF Ack
    <2>2. CASE numOfMsg = 0
      <3>1. /\ ack_timeout' = 0 /\ Overtake
            /\ IF need_to_wait_ack THEN Wakeup ELSE UNCHANGED pc
        BY <1>9, <2>2 DEF Ack
      <3>2. Wakeup \/ (pc # "sleep" /\ pc' = pc)
        BY <3>1 DEF TimedInv
      <3>3. QED
        BY <2>1, <3>1, <3>2, StoppedTimed
    <2>3. CASE numOfMsg # 0
      <3>1. UNCHANGED <<ack_timeout, pc, overtaken>>
        BY <1>9, <2>3 DEF Ack
      <3>2. QED
        BY <2>1, <3>1 DEF TimedInv
    <2>4. QED
      BY <2>2, <2>3
  <1>10. CASE StartAnew
    BY <1>10, StoppedTimed DEF StartAnew
  <1>11. CASE UNCHANGED vars
    BY <1>11 DEF vars, TimedInv
  <1>12. QED
    BY <1>1, <1>2, <1>3, <1>4, <1>5, <1>6, <1>7, <1>8, <1>9, <1>10, <1>11
    DEF Next, Thread, Interrupt

\* A thread that sleeps has a timer that will wake it, whatever the phone does,
\* unless an ACK, a new start or the timer itself came between the arming of the
\* timer and thread_sleep().
THEOREM SleeperIsTimed == Spec => []SleepIsTimed
  <1>1. TimedInv /\ [Next]_vars => TimedInv'
    BY StepTimed
  <1>2. TimedInv => SleepIsTimed
    BY DEF TimedInv, SleepIsTimed
  <1>3. QED
    BY InitTimed, <1>1, <1>2, PTL DEF Spec

(***************************************************************************)
(* Pieces of a frame.                                                      *)
(***************************************************************************)

\* k units of frame f of size n, from the one after unit a
Piece(f, n, a, k) == [i \in 1 .. k |-> Unit(f, n, a + i)]

UnitsOf(f, n) == {Unit(f, n, i) : i \in Int}

LEMMA PieceIsSeq ==
  ASSUME NEW f, NEW n, NEW a \in Int, NEW k \in Nat
  PROVE  /\ Piece(f, n, a, k) \in Seq(UnitsOf(f, n))
         /\ Len(Piece(f, n, a, k)) = k
         /\ \A i \in 1 .. k : Piece(f, n, a, k)[i] = Unit(f, n, a + i)
<1>1. \A i \in 1 .. k : a + i \in Int
  OBVIOUS
<1>2. Piece(f, n, a, k) \in [1 .. k -> UnitsOf(f, n)]
  BY <1>1 DEF Piece, UnitsOf
<1>3. Piece(f, n, a, k) \in Seq(UnitsOf(f, n)) /\ Len(Piece(f, n, a, k)) = k
  BY <1>2
<1> QED BY <1>3 DEF Piece

\* A sequence of those units is that piece.
LEMMA IsPiece ==
  ASSUME NEW f, NEW n, NEW a \in Int, NEW s \in Seq(UnitsOf(f, n)),
         \A i \in 1 .. Len(s) : s[i] = Unit(f, n, a + i)
  PROVE  s = Piece(f, n, a, Len(s))
<1>1. Len(s) \in Nat
  BY LenProperties
<1>2. /\ Piece(f, n, a, Len(s)) \in Seq(UnitsOf(f, n))
      /\ Len(Piece(f, n, a, Len(s))) = Len(s)
      /\ \A i \in 1 .. Len(s) : Piece(f, n, a, Len(s))[i] = Unit(f, n, a + i)
  BY <1>1, PieceIsSeq
<1> QED BY <1>2, SeqEqual

LEMMA PieceEmpty ==
  ASSUME NEW f, NEW n, NEW a \in Int, NEW k \in Nat
  PROVE  Piece(f, n, a, k) = <<>> <=> k = 0
<1>1. Piece(f, n, a, k) \in Seq(UnitsOf(f, n)) /\ Len(Piece(f, n, a, k)) = k
  BY PieceIsSeq
<1> QED BY <1>1

LEMMA PieceJoin ==
  ASSUME NEW f, NEW n, NEW a \in Int, NEW j \in Nat, NEW k \in Nat
  PROVE  Piece(f, n, a, j) \o Piece(f, n, a + j, k) = Piece(f, n, a, j + k)
<1> DEFINE p == Piece(f, n, a, j)
           q == Piece(f, n, a + j, k)
<1>1. p \in Seq(UnitsOf(f, n)) /\ Len(p) = j /\ \A i \in 1 .. j : p[i] = Unit(f, n, a + i)
  BY PieceIsSeq
<1>2. q \in Seq(UnitsOf(f, n)) /\ Len(q) = k /\ \A i \in 1 .. k : q[i] = Unit(f, n, (a + j) + i)
  <2>1. a + j \in Int
    OBVIOUS
  <2> QED BY <2>1, PieceIsSeq
<1> HIDE DEF p, q
<1>3. /\ p \o q \in Seq(UnitsOf(f, n)) /\ Len(p \o q) = j + k
      /\ \A i \in 1 .. j + k : (p \o q)[i] = IF i <= j THEN p[i] ELSE q[i - j]
  BY <1>1, <1>2, ConcatProperties
<1>4. ASSUME NEW i \in 1 .. j + k PROVE (p \o q)[i] = Unit(f, n, a + i)
  <2>1. CASE i <= j
    BY <1>1, <1>3, <2>1
  <2>2. CASE ~(i <= j)
    <3>1. i - j \in 1 .. k /\ (a + j) + (i - j) = a + i
      BY <2>2
    <3> QED BY <1>2, <1>3, <2>2, <3>1
  <2> QED BY <2>1, <2>2
<1>5. p \o q = Piece(f, n, a, j + k)
  BY <1>3, <1>4, IsPiece
<1> QED BY <1>5 DEF p, q

LEMMA PieceWhole ==
  ASSUME NEW f, NEW n \in Nat
  PROVE  /\ Whole(f, n) = Piece(f, n, 0, n)
         /\ <<Unit(f, n, 0)>> \o Whole(f, n) = Piece(f, n, -1, n + 1)
<1>1. \A i \in 1 .. n : 0 + i = i
  OBVIOUS
<1>2. Whole(f, n) = Piece(f, n, 0, n)
  BY <1>1 DEF Whole, Piece
<1>3. PICK b \in Int : b = -1
  OBVIOUS
<1>4. <<Unit(f, n, 0)>> = Piece(f, n, b, 1)
  <2> DEFINE s == <<Unit(f, n, 0)>>
  <2>1. s \in Seq(UnitsOf(f, n)) /\ Len(s) = 1 /\ s[1] = Unit(f, n, 0)
    BY DEF UnitsOf
  <2>2. \A i \in 1 .. Len(s) : s[i] = Unit(f, n, b + i)
    <3>1. \A i \in 1 .. Len(s) : i = 1 /\ b + i = 0
      BY <1>3, <2>1
    <3> QED BY <2>1, <3>1
  <2> HIDE DEF s
  <2>3. s = Piece(f, n, b, Len(s))
    BY <2>1, <2>2, IsPiece
  <2> QED BY <2>1, <2>3 DEF s
<1>5. Piece(f, n, b, 1) \o Piece(f, n, b + 1, n) = Piece(f, n, b, 1 + n)
  <2>1. 1 \in Nat
    OBVIOUS
  <2> QED BY <2>1, PieceJoin, Zenon
<1>6. b + 1 = 0 /\ 1 + n = n + 1
  BY <1>3
<1>7. <<Unit(f, n, 0)>> \o Whole(f, n) = Piece(f, n, b, n + 1)
  BY <1>2, <1>4, <1>5, <1>6
<1> QED BY <1>2, <1>3, <1>7

LEMMA PieceFirst ==
  ASSUME NEW f, NEW n, NEW a \in Int, NEW k \in Nat, NEW j \in 0 .. k
  PROVE  First(Piece(f, n, a, k), j) = Piece(f, n, a, j)
<1> DEFINE p == Piece(f, n, a, k)
           s == SubSeq(p, 1, j)
<1>1. p \in Seq(UnitsOf(f, n)) /\ Len(p) = k /\ \A i \in 1 .. k : p[i] = Unit(f, n, a + i)
  BY PieceIsSeq
<1> HIDE DEF p
<1>2. \A i \in 1 .. j : p[i] \in UnitsOf(f, n)
  BY <1>1, ElementOfSeq
<1>3. s \in Seq(UnitsOf(f, n)) /\ Len(s) = j /\ \A i \in 1 .. j : s[i] = p[i]
  BY <1>2, SubSeqProperties
<1> HIDE DEF s
<1>4. s = Piece(f, n, a, j)
  BY <1>1, <1>3, IsPiece
<1> QED BY <1>4 DEF First, s, p

LEMMA PieceRest ==
  ASSUME NEW f, NEW n, NEW a \in Int, NEW k \in Nat, NEW j \in 0 .. k
  PROVE  Rest(Piece(f, n, a, k), j) = Piece(f, n, a + j, k - j)
<1> DEFINE p == Piece(f, n, a, k)
           s == SubSeq(p, j + 1, k)
<1>1. p \in Seq(UnitsOf(f, n)) /\ Len(p) = k /\ \A i \in 1 .. k : p[i] = Unit(f, n, a + i)
  BY PieceIsSeq
<1> HIDE DEF p
<1>2. \A i \in j + 1 .. k : p[i] \in UnitsOf(f, n)
  BY <1>1, ElementOfSeq
<1>3. /\ s \in Seq(UnitsOf(f, n))
      /\ Len(s) = IF j + 1 <= k THEN k - (j + 1) + 1 ELSE 0
      /\ \A i \in 1 .. k - (j + 1) + 1 : s[i] = p[j + 1 + i - 1]
  BY <1>2, SubSeqProperties
<1>4. Len(s) = k - j /\ \A i \in 1 .. k - j : j + i \in 1 .. k /\ s[i] = p[j + i]
  BY <1>3
<1> HIDE DEF s
<1>5. \A i \in 1 .. k - j : s[i] = Unit(f, n, (a + j) + i)
  BY <1>1, <1>4
<1>6. s = Piece(f, n, a + j, k - j)
  <2>1. a + j \in Int
    OBVIOUS
  <2> QED BY <1>3, <1>4, <1>5, <2>1, IsPiece
<1> QED BY <1>1, <1>6 DEF Rest, s, p

(***************************************************************************)
(* Messages that tell the thread of a frame.                               *)
(***************************************************************************)
MsgType == {"connect", "disconnect", "write", "gff"}

WriteWaits(q) == \E i \in DOMAIN q : q[i] = "write"
OneWrite(q) == \A i, j \in DOMAIN q : q[i] = "write" /\ q[j] = "write" => i = j

\* Receiving a message takes it away.
LEMMA WritesOfTail ==
  ASSUME NEW q \in Seq(MsgType), q # <<>>
  PROVE  /\ Tail(q) \in Seq(MsgType)
         /\ OneWrite(q) => OneWrite(Tail(q))
         /\ Head(q) = "write" /\ OneWrite(q) => ~WriteWaits(Tail(q))
         /\ Head(q) # "write" => (WriteWaits(Tail(q)) <=> WriteWaits(q))
<1>1. /\ Tail(q) \in Seq(MsgType) /\ Len(q) \in Nat \ {0}
      /\ DOMAIN q = 1 .. Len(q) /\ DOMAIN Tail(q) = 1 .. Len(q) - 1 /\ Head(q) = q[1]
  OBVIOUS
<1>2. \A i \in DOMAIN Tail(q) : i + 1 \in DOMAIN q /\ Tail(q)[i] = q[i + 1] /\ i + 1 # 1
  BY <1>1
<1>3. \A i \in DOMAIN q : i # 1 => i - 1 \in DOMAIN Tail(q) /\ Tail(q)[i - 1] = q[i]
  BY <1>1
<1>4. OneWrite(q) => OneWrite(Tail(q))
  BY <1>1, <1>2 DEF OneWrite
<1>5. ASSUME Head(q) = "write", OneWrite(q) PROVE ~WriteWaits(Tail(q))
  BY <1>1, <1>2, <1>5 DEF OneWrite, WriteWaits
<1>6. ASSUME Head(q) # "write" PROVE WriteWaits(Tail(q)) <=> WriteWaits(q)
  BY <1>1, <1>2, <1>3, <1>6 DEF WriteWaits
<1> QED BY <1>1, <1>4, <1>5, <1>6

\* So does sending one, unless it is refused.
LEMMA WritesOfAppend ==
  ASSUME NEW q \in Seq(MsgType), NEW type \in MsgType
  PROVE  /\ Append(q, type) \in Seq(MsgType)
         /\ type # "write" => /\ OneWrite(q) => OneWrite(Append(q, type))
                              /\ WriteWaits(Append(q, type)) <=> WriteWaits(q)
         /\ type = "write" /\ ~WriteWaits(q) =>
              OneWrite(Append(q, type)) /\ WriteWaits(Append(q, type))
<1> DEFINE new == Append(q, type)
<1>1. /\ new \in Seq(MsgType) /\ Len(q) \in Nat
      /\ DOMAIN q = 1 .. Len(q) /\ DOMAIN new = 1 .. Len(q) + 1
      /\ new[Len(q) + 1] = type /\ \A i \in DOMAIN q : new[i] = q[i]
  OBVIOUS
<1>2. /\ \A i \in DOMAIN new : i = Len(q) + 1 \/ i \in DOMAIN q
      /\ DOMAIN q \subseteq DOMAIN new /\ Len(q) + 1 \in DOMAIN new
  BY <1>1
<1> HIDE DEF new
<1>3. ASSUME type # "write"
      PROVE  (OneWrite(q) => OneWrite(new)) /\ (WriteWaits(new) <=> WriteWaits(q))
  BY <1>1, <1>2, <1>3 DEF OneWrite, WriteWaits
<1>4. ASSUME type = "write", ~WriteWaits(q) PROVE OneWrite(new) /\ WriteWaits(new)
  BY <1>1, <1>2, <1>4 DEF OneWrite, WriteWaits
<1> QED BY <1>1, <1>3, <1>4 DEF new

LEMMA SendMsgWrites ==
  ASSUME msgs \in Seq(MsgType), NEW type \in MsgType, SendMsg(type)
  PROVE  /\ msgs' \in Seq(MsgType)
         /\ ~refused' => ~refused
         /\ type # "write" => /\ OneWrite(msgs) => OneWrite(msgs')
                              /\ WriteWaits(msgs') <=> WriteWaits(msgs)
         /\ type = "write" /\ ~WriteWaits(msgs) =>
              OneWrite(msgs') /\ (~refused' => WriteWaits(msgs'))
<1>1. /\ msgs' = IF Len(msgs) < MaxMsgs THEN Append(msgs, type) ELSE msgs
      /\ refused' = (refused \/ Len(msgs) >= MaxMsgs)
  BY DEF SendMsg
<1>2. CASE Len(msgs) < MaxMsgs
  <2>1. msgs' = Append(msgs, type)
    BY <1>1, <1>2
  <2> QED BY <1>1, <2>1, WritesOfAppend
<1>3. CASE ~(Len(msgs) < MaxMsgs)
  <2>0. Len(msgs) >= MaxMsgs
    <3>1. Len(msgs) \in Nat /\ MaxMsgs \in Nat
      BY NumberAssumption, LenProperties
    <3> QED BY <1>3, <3>1
  <2>1. msgs' = msgs /\ refused'
    BY <1>1, <1>3, <2>0
  <2> QED BY <2>1 DEF OneWrite, WriteWaits
<1> QED BY <1>2, <1>3

(***************************************************************************)
(* A phone that has one frame under way at a time.                         *)
(***************************************************************************)

\* No frame is under way.
Idle == left = <<>> /\ usart_queue = <<>>

\* The phone has written k units of its frame of size n; usart_queue holds them,
\* or as many as there is room for.
Written(n, k) ==
  /\ left = Piece(ins, n, k - 1, n + 1 - k)
  /\ usart_queue = Piece(ins, n, -1, Least(k, UsartSize))
  /\ totalMsgLen = k
  /\ numOfMsg = 0 <=> k = 0
  /\ k > 0 => msgLen = n + 1

Writing == \E n \in FrameSize : \E k \in 0 .. n : Written(n, k)

\* The frame is there, without its header, and the phone does not begin another.
Held(n) == left = <<>> /\ usart_queue = Piece(ins, n, 0, Least(n, UsartSize - 1))

Stage ==
  \/ Idle /\ pc # "write" /\ ~WriteWaits(msgs)
  \/ Writing /\ pc # "write" /\ ~WriteWaits(msgs)
  \/ \E n \in FrameSize : Held(n) /\ (pc = "write" => usart_msg_len = n /\ ~WriteWaits(msgs))

\* What the controller has been given are whole frames in their order, each begun
\* before the one under way.
Frames == {Whole(f, n) : f \in Nat \ {0}, n \in FrameSize}
GivenInv ==
  /\ given \in Seq(Frames)
  /\ \A i, j \in DOMAIN given : i < j => given[i][1].frame < given[j][1].frame
  /\ \A i \in DOMAIN given : given[i][1].frame <= IF Idle THEN ins ELSE ins - 1

CarefulInv ==
  /\ msgs \in Seq(MsgType)
  /\ ins \in Nat
  /\ numOfMsg \in Nat
  /\ ~careless => /\ OneWrite(msgs)
                  /\ ~Idle => ins # 0
                  /\ left = <<>> => numOfMsg = 0 /\ totalMsgLen = 0
                  /\ Stage
                  /\ GivenInv

\* Unless a message was refused, all frames but the one under way have been given,
\* and the thread knows of the one that is there.
AllInv ==
  ~careless /\ ~refused =>
    /\ Len(given) = IF Idle THEN ins ELSE ins - 1
    /\ left = <<>> /\ usart_queue # <<>> => pc = "write" \/ WriteWaits(msgs)

\* What is under way, told from the length of the queue and of what is left.
LEMMA StageIdle ==
  ASSUME UsartSize > 1, ins \in Nat
  PROVE  /\ Writing => left # <<>>
         /\ \A n \in FrameSize : Held(n) => left = <<>> /\ usart_queue # <<>>
<1>1. ASSUME NEW n \in FrameSize, NEW k \in 0 .. n, Written(n, k) PROVE left # <<>>
  <2>1. k - 1 \in Int /\ n + 1 - k \in Nat /\ n + 1 - k # 0
    BY NumberAssumption
  <2> QED BY <1>1, <2>1, PieceEmpty DEF Written
<1>2. ASSUME NEW n \in FrameSize, Held(n) PROVE usart_queue # <<>>
  <2>1. Least(n, UsartSize - 1) \in Nat /\ Least(n, UsartSize - 1) # 0
    BY NumberAssumption DEF Least
  <2>2. 0 \in Int
    OBVIOUS
  <2> QED BY <1>2, <2>1, <2>2, PieceEmpty DEF Held
<1> QED BY <1>1, <1>2 DEF Writing, Held

\* Steps that leave the frame under way and the messages of frames alone.
LEMMA StageStays ==
  ASSUME CarefulInv,
         msgs' \in Seq(MsgType), WriteWaits(msgs') <=> WriteWaits(msgs),
         OneWrite(msgs) => OneWrite(msgs'),
         pc' = "write" <=> pc = "write", usart_msg_len' = usart_msg_len,
         UNCHANGED <<usart_queue, left, ins, given>>,
         ~careless' => ~careless,
         \/ UNCHANGED assembly
         \/ left = <<>> /\ numOfMsg' = 0 /\ totalMsgLen' = 0
  PROVE  CarefulInv'
<1>1. numOfMsg' \in Nat
  BY DEF assembly, CarefulInv
<1>2. ASSUME ~careless PROVE Stage'
  <2>1. CASE Idle /\ pc # "write" /\ ~WriteWaits(msgs)
    BY <2>1 DEF Stage, Idle
  <2>2. CASE Writing /\ pc # "write" /\ ~WriteWaits(msgs)
    <3>0. PICK n \in FrameSize : \E k \in 0 .. n : Written(n, k)
      BY <2>2 DEF Writing
    <3>1. PICK k \in 0 .. n : Written(n, k)
      BY <3>0
    <3>2. UNCHANGED assembly
      <4>1. CASE left = <<>>
        <5>1. n + 1 - k \in Nat /\ n + 1 - k # 0 /\ k - 1 \in Int
          BY NumberAssumption
        <5> QED BY <3>1, <4>1, <5>1, PieceEmpty DEF Written
      <4> QED BY <4>1
    <3>3. Written(n, k)'
      BY <3>1, <3>2 DEF Written, assembly
    <3> QED BY <2>2, <3>3 DEF Stage, Writing
  <2>3. CASE \E n \in FrameSize : Held(n) /\ (pc = "write" => usart_msg_len = n /\ ~WriteWaits(msgs))
    BY <2>3 DEF Stage, Held
  <2> QED BY <1>2, <2>1, <2>2, <2>3 DEF CarefulInv, Stage
<1>3. ASSUME ~careless PROVE GivenInv'
  BY <1>3 DEF CarefulInv, GivenInv, Idle
<1>4. ASSUME ~careless PROVE left' = <<>> => numOfMsg' = 0 /\ totalMsgLen' = 0
  BY <1>4 DEF CarefulInv, assembly
<1>5. ASSUME ~careless PROVE ~Idle' => ins' # 0
  BY <1>5 DEF CarefulInv, Idle
<1> QED BY <1>1, <1>2, <1>3, <1>4, <1>5 DEF CarefulInv

LEMMA AllStays ==
  ASSUME ~careless' => ~careless, ~refused' => ~refused,
         WriteWaits(msgs') <=> WriteWaits(msgs), pc' = "write" <=> pc = "write",
         UNCHANGED <<usart_queue, left, ins, given>>
  PROVE  AllInv => AllInv'
BY DEF AllInv, Idle

(***************************************************************************)
(* The steps that take a frame further.                                    *)
(***************************************************************************)

\* BLE_CLIENT_WRITE finds a frame whose length the queue tells.
LEMMA ClientWriteFrame ==
  ASSUME UsartSize > 1, CarefulInv, ClientWrite
  PROVE  CarefulInv' /\ (AllInv => AllInv')
<1>1. /\ pc = "receive" /\ pc' = "write" /\ msgs # <<>> /\ Head(msgs) = "write" /\ msgs' = Tail(msgs)
      /\ UNCHANGED <<usart_queue, left, ins, given, numOfMsg, totalMsgLen, careless, refused>>
  BY DEF ClientWrite, Receive, assembly, phone
<1>2. msgs' \in Seq(MsgType) /\ (OneWrite(msgs) => OneWrite(msgs') /\ ~WriteWaits(msgs'))
  BY <1>1, WritesOfTail DEF CarefulInv
<1>3. ASSUME ~careless
      PROVE  \E n \in FrameSize : Held(n) /\ usart_msg_len' = n
  <2>1. WriteWaits(msgs)
    BY <1>1 DEF WriteWaits, CarefulInv
  <2>2. PICK n \in FrameSize : Held(n)
    BY <1>3, <2>1 DEF CarefulInv, Stage
  <2>3. Least(n, UsartSize - 1) \in Nat /\ 1 \in 1 .. Least(n, UsartSize - 1) /\ 0 \in Int
    BY NumberAssumption DEF Least
  <2> DEFINE q == Piece(ins, n, 0, Least(n, UsartSize - 1))
  <2>4. q \in Seq(UnitsOf(ins, n)) /\ Len(q) = Least(n, UsartSize - 1) /\ q[1] = Unit(ins, n, 0 + 1)
    BY <2>3, PieceIsSeq
  <2>5. usart_queue = q
    BY <2>2 DEF Held
  <2> HIDE DEF q
  <2>6. usart_queue # <<>> /\ Head(usart_queue) = Unit(ins, n, 1)
    BY <2>3, <2>4, <2>5
  <2>7. LengthAt(Head(usart_queue)) = {n}
    BY <2>6 DEF LengthAt, Unit
  <2>8. usart_msg_len' = n
    BY <2>6, <2>7 DEF ClientWrite
  <2> QED BY <2>2, <2>8
<1>4. CarefulInv'
  BY <1>1, <1>2, <1>3 DEF CarefulInv, Stage, Held, GivenInv, Idle
<1>5. AllInv => AllInv'
  BY <1>1 DEF AllInv, Idle
<1> QED BY <1>4, <1>5

\* While the thread looks at a frame, that frame is there, and its length is known.
LEMMA WriteHolds ==
  ASSUME CarefulInv, ~careless, pc = "write"
  PROVE  \E n \in FrameSize : Held(n) /\ usart_msg_len = n /\ ~WriteWaits(msgs)
BY DEF CarefulInv, Stage

\* Throwing it away.
LEMMA ThrowAwayFrame ==
  ASSUME UsartSize > 1, CarefulInv, ThrowAway
  PROVE  CarefulInv'
<1>1. /\ pc = "write" /\ pc' = "receive" /\ usart_queue' = <<>>
      /\ UNCHANGED <<msgs, left, ins, given, numOfMsg, totalMsgLen, careless>>
  BY DEF ThrowAway, assembly, phone
<1>2. ASSUME ~careless PROVE left = <<>> /\ usart_queue # <<>> /\ ~WriteWaits(msgs)
  BY <1>1, <1>2, WriteHolds, StageIdle DEF CarefulInv
<1>3. ASSUME ~careless PROVE GivenInv'
  <2>1. \A i \in DOMAIN given : given[i][1].frame <= ins - 1
    BY <1>2, <1>3 DEF CarefulInv, GivenInv, Idle
  <2>2. \A i \in DOMAIN given : given[i][1].frame \in Nat
    <3> TAKE i \in DOMAIN given
    <3>1. given[i] \in Frames
      BY <1>3 DEF CarefulInv, GivenInv
    <3>2. PICK f \in Nat \ {0}, n \in FrameSize : given[i] = Whole(f, n)
      BY <3>1 DEF Frames
    <3>3. given[i][1] = Unit(f, n, 1)
      BY <3>2, NumberAssumption DEF Whole
    <3> QED BY <3>3 DEF Unit
  <2>3. \A i \in DOMAIN given : given[i][1].frame <= ins
    BY <2>1, <2>2 DEF CarefulInv
  <2> QED BY <1>1, <1>2, <1>3, <2>3 DEF CarefulInv, GivenInv, Idle
<1>4. ASSUME ~careless PROVE Stage'
  BY <1>1, <1>2, <1>4 DEF Stage, Idle
<1>5. ASSUME ~careless PROVE Idle'
  BY <1>1, <1>2, <1>5 DEF Idle
<1> QED BY <1>1, <1>3, <1>4, <1>5 DEF CarefulInv

\* Handing it on, if it fits into usart_queue without its header.
LEMMA HandOnFrame ==
  ASSUME UsartSize > 1, CarefulInv, HandOn
  PROVE  /\ CarefulInv'
         /\ ~careless => given' = given \/ (usart_queue' = <<>> /\ Len(given') = Len(given) + 1)
         /\ ~careless /\ (\A n \in FrameSize : n < UsartSize) => usart_queue' = <<>>
<1>1. /\ pc = "write" /\ pc' = "receive"
      /\ UNCHANGED <<msgs, left, ins, numOfMsg, totalMsgLen, careless>>
      /\ IF usart_msg_len <= Len(usart_queue)
           THEN /\ given' = Append(given, First(usart_queue, usart_msg_len))
                /\ usart_queue' = Rest(usart_queue, usart_msg_len)
           ELSE UNCHANGED <<given, usart_queue>>
  BY DEF HandOn, assembly, phone
<1>2. CASE careless
  BY <1>1, <1>2 DEF CarefulInv
<1>3. CASE ~careless
  <2>1. PICK n \in FrameSize : Held(n) /\ usart_msg_len = n /\ ~WriteWaits(msgs)
    BY <1>1, <1>3, WriteHolds
  <2> DEFINE k == Least(n, UsartSize - 1)
  <2>2. n \in Nat /\ n > 0 /\ k \in Nat /\ k <= n /\ (k < n => ~(n < UsartSize)) /\ 0 \in Int
    BY NumberAssumption DEF Least
  <2>3. left = <<>> /\ usart_queue = Piece(ins, n, 0, k) /\ Len(usart_queue) = k /\ usart_queue # <<>>
    BY <2>1, <2>2, PieceIsSeq, StageIdle DEF Held, CarefulInv
  <2> HIDE DEF k
  <2>4. ~Idle
    BY <2>3 DEF Idle
  <2>5. CASE k < n
    <3>1. UNCHANGED <<given, usart_queue>>
      BY <1>1, <2>1, <2>2, <2>3, <2>5
    <3>2. Stage'
      BY <1>1, <2>1, <3>1 DEF Stage, Held
    <3>3. CarefulInv'
      BY <1>1, <3>1, <3>2 DEF CarefulInv, GivenInv, Idle
    <3> QED BY <2>2, <2>5, <3>1, <3>3
  <2>6. CASE k = n
    <3>1. given' = Append(given, First(usart_queue, n)) /\ usart_queue' = Rest(usart_queue, n)
      BY <1>1, <2>1, <2>2, <2>3, <2>6
    <3>2. n \in 0 .. k /\ n - n = 0 /\ k - n = 0
      BY <2>2, <2>6
    <3>3. First(usart_queue, n) = Whole(ins, n)
      <4>1. First(Piece(ins, n, 0, k), n) = Piece(ins, n, 0, n)
        BY <2>2, <3>2, PieceFirst
      <4>2. Whole(ins, n) = Piece(ins, n, 0, n)
        BY <2>2, PieceWhole
      <4> QED BY <2>3, <4>1, <4>2
    <3>4. usart_queue' = <<>>
      <4>1. Rest(usart_queue, n) = Piece(ins, n, 0 + n, 0)
        BY <2>2, <2>3, <3>2, PieceRest
      <4>2. 0 + n \in Int /\ 0 \in Nat
        BY <2>2
      <4> QED BY <3>1, <4>1, <4>2, PieceEmpty
    <3>5. Stage'
      BY <1>1, <2>1, <2>3, <3>4 DEF Stage, Idle
    <3> DEFINE w == Whole(ins, n)
    <3>6. ins \in Nat /\ given \in Seq(Frames) /\ \A i \in DOMAIN given : given[i][1].frame <= ins - 1
      BY <1>3, <2>4 DEF CarefulInv, GivenInv
    <3>7. w[1].frame = ins
      BY <2>2 DEF Whole, Unit
    <3>8. w \in Frames
      <4>1. ins # 0
        BY <1>3, <2>4 DEF CarefulInv
      <4> QED BY <3>6, <4>1 DEF Frames
    <3> HIDE DEF w
    <3>9. given' = Append(given, w)
      BY <3>1, <3>3 DEF w
    <3>10. Idle'
      BY <1>1, <2>3, <3>4 DEF Idle
    <3>11. GivenInv'
      <4>1. /\ given' \in Seq(Frames) /\ Len(given) \in Nat /\ DOMAIN given = 1 .. Len(given)
            /\ DOMAIN given' = 1 .. Len(given) + 1 /\ given'[Len(given) + 1] = w
            /\ \A i \in DOMAIN given : given'[i] = given[i]
        BY <3>6, <3>8, <3>9
      <4>2. \A i \in DOMAIN given : given[i][1].frame \in Nat
        <5> TAKE i \in DOMAIN given
        <5>1. PICK f \in Nat \ {0}, j \in FrameSize : given[i] = Whole(f, j)
          BY <3>6 DEF Frames
        <5>2. given[i][1] = Unit(f, j, 1)
          BY <5>1, NumberAssumption DEF Whole
        <5> QED BY <5>2 DEF Unit
      <4>3. \A i \in DOMAIN given' : i = Len(given) + 1 \/ (i \in DOMAIN given /\ i < Len(given) + 1)
        BY <4>1
      <4>4. given'[Len(given) + 1][1].frame = ins
        BY <3>7, <4>1
      <4>5. \A i \in DOMAIN given : given'[i][1].frame < ins
        BY <3>6, <4>1, <4>2
      <4>6. \A i, j \in DOMAIN given' : i < j => given'[i][1].frame < given'[j][1].frame
        <5> SUFFICES ASSUME NEW i \in DOMAIN given', NEW j \in DOMAIN given', i < j
                     PROVE  given'[i][1].frame < given'[j][1].frame
          OBVIOUS
        <5>1. i \in DOMAIN given
          BY <4>1, <4>3
        <5>2. CASE j = Len(given) + 1
          BY <4>4, <4>5, <5>1, <5>2
        <5>3. CASE j \in DOMAIN given
          BY <1>3, <4>1, <5>1, <5>3 DEF CarefulInv, GivenInv
        <5> QED BY <4>3, <5>2, <5>3
      <4>7. \A i \in DOMAIN given' : given'[i][1].frame <= ins
        BY <3>6, <4>1, <4>2, <4>3, <4>4, <4>5
      <4> QED BY <1>1, <3>10, <4>1, <4>6, <4>7 DEF GivenInv
    <3>12. CarefulInv'
      BY <1>1, <1>3, <3>5, <3>10, <3>11 DEF CarefulInv
    <3> QED BY <3>4, <3>6, <3>8, <3>9, <3>12
  <2> QED BY <2>2, <2>5, <2>6
<1> QED BY <1>2, <1>3

\* The phone begins a frame, and none is under way.
LEMMA BeginFrameFrame ==
  ASSUME UsartSize > 1, CarefulInv, NEW n \in FrameSize, BeginFrame(n)
  PROVE  CarefulInv' /\ (AllInv => AllInv')
<1>1. /\ left = <<>> /\ careless' = (careless \/ usart_queue # <<>>) /\ ins' = ins + 1
      /\ left' = <<Unit(ins + 1, n, 0)>> \o Whole(ins + 1, n)
      /\ UNCHANGED <<pc, msgs, usart_queue, numOfMsg, totalMsgLen, msgLen, given, refused>>
  BY DEF BeginFrame, thread, assembly
<1>2. msgs' \in Seq(MsgType) /\ ins \in Nat /\ ins' \in Nat \ {0} /\ numOfMsg' \in Nat
  BY <1>1 DEF CarefulInv
<1>3. CASE careless'
  BY <1>2, <1>3 DEF CarefulInv, AllInv
<1>4. CASE ~careless'
  <2>1. ~careless /\ Idle
    BY <1>1, <1>4 DEF Idle
  <2>2. numOfMsg = 0 /\ totalMsgLen = 0 /\ OneWrite(msgs) /\ Stage /\ GivenInv
    BY <1>1, <2>1 DEF CarefulInv
  <2>3. pc # "write" /\ ~WriteWaits(msgs)
    BY <1>2, <2>1, <2>2, StageIdle DEF Stage, Idle
  <2>4. PICK b \in Int : b = -1
    OBVIOUS
  <2>5. n \in Nat /\ n + 1 \in Nat /\ n + 1 # 0
    BY NumberAssumption
  <2>6. left' = Piece(ins', n, b, n + 1)
    BY <1>1, <2>4, <2>5, PieceWhole
  <2>7. left' # <<>>
    BY <2>5, <2>6, PieceEmpty
  <2>8. Written(n, 0)'
    <3>1. 0 - 1 = b /\ n + 1 - 0 = n + 1 /\ Least(0, UsartSize) = 0 /\ 0 \in Nat
      BY <2>4, <2>5, NumberAssumption DEF Least
    <3>2. usart_queue' = <<>>
      BY <1>1, <2>1 DEF Idle
    <3>3. usart_queue' = Piece(ins', n, b, 0)
      BY <3>1, <3>2, PieceEmpty
    <3> QED BY <1>1, <2>2, <2>4, <2>6, <3>1, <3>3 DEF Written
  <2>9. Stage'
    <3>1. 0 \in 0 .. n
      BY <2>5
    <3> QED BY <1>1, <2>3, <2>8, <3>1 DEF Stage, Writing
  <2>10. ~Idle'
    BY <2>7 DEF Idle
  <2>11. GivenInv' /\ ins' - 1 = ins
    <3>1. ins' - 1 = ins
      BY <1>1, <1>2
    <3> QED BY <1>1, <2>1, <2>2, <2>10, <3>1 DEF GivenInv
  <2>12. CarefulInv'
    BY <1>1, <1>2, <2>2, <2>7, <2>9, <2>11 DEF CarefulInv
  <2>13. AllInv => AllInv'
    BY <1>1, <2>1, <2>7, <2>10, <2>11 DEF AllInv
  <2> QED BY <2>12, <2>13
<1> QED BY <1>3, <1>4

\* A part of the frame goes to the end of usart_queue as far as there is room.
LEMMA PieceStored ==
  ASSUME NEW f, NEW n, NEW b \in Int, NEW k \in Nat, NEW p \in Nat, NEW room \in Nat
  PROVE  Piece(f, n, b, Least(k, room))
           \o First(Piece(f, n, b + k, p), Least(p, room - Least(k, room)))
         = Piece(f, n, b, Least(k + p, room))
<1> DEFINE c == Least(k, room)
           d == Least(p, room - c)
<1>1. c \in Nat /\ d \in 0 .. p /\ d \in Nat /\ b + k \in Int
  BY DEF Least
<1>2. First(Piece(f, n, b + k, p), d) = Piece(f, n, b + k, d)
  BY <1>1, PieceFirst
<1>3. CASE k <= room
  <2>0. c = k
    BY <1>3 DEF Least
  <2>1. k + d = Least(k + p, room)
    <3>1. d = Least(p, room - k)
      BY <2>0
    <3> HIDE DEF d
    <3> QED BY <1>3, <3>1 DEF Least
  <2> HIDE DEF d
  <2>2. Piece(f, n, b, k) \o Piece(f, n, b + k, d) = Piece(f, n, b, k + d)
    <3> DEFINE Join(x, y, a, j, l) ==
          Piece(x, y, a, j) \o Piece(x, y, a + j, l) = Piece(x, y, a, j + l)
    <3>1. \A x, y : \A a \in Int, j \in Nat, l \in Nat : Join(x, y, a, j, l)
      BY PieceJoin, Zenon
    <3> HIDE DEF Join
    <3>2. Join(f, n, b, k, d)
      BY <1>1, <3>1, Zenon
    <3> QED BY <3>2, Zenon DEF Join
  <2>3. First(Piece(f, n, b + k, p), Least(p, room - Least(k, room))) = Piece(f, n, b + k, d)
    BY <1>2 DEF d
  <2> HIDE DEF c
  <2> QED BY <2>0, <2>1, <2>2, <2>3, Zenon DEF c
<1>4. CASE k > room
  <2>1. c = room /\ d = 0 /\ Least(k + p, room) = room
    BY <1>4 DEF Least
  <2>2. Piece(f, n, b + k, d) = <<>>
    BY <1>1, <2>1, PieceEmpty
  <2>3. Piece(f, n, b, room) \in Seq(UnitsOf(f, n))
    BY PieceIsSeq
  <2>4. Piece(f, n, b, room) \o <<>> = Piece(f, n, b, room)
    BY <2>3
  <2> QED BY <1>2, <2>1, <2>2, <2>4
<1> QED BY <1>3, <1>4

\* The phone writes the next part of a frame; with the last one the header goes.
LEMMA ValueFrame ==
  ASSUME UsartSize > 1, CarefulInv, Value
  PROVE  CarefulInv' /\ (AllInv => AllInv')
<1> DEFINE m == Least(PartSize, Len(left))
           part == First(left, m)
           len == IF numOfMsg = 0 THEN LenOf(part) ELSE msgLen
<1>1. /\ left # <<>> /\ Collect(part, len) /\ left' = Rest(left, Len(part))
      /\ UNCHANGED <<pc, ins, careless, given>>
  BY DEF Value, thread
<1> HIDE DEF m, part, len
<1>2. msgs \in Seq(MsgType) /\ ins \in Nat /\ numOfMsg \in Nat /\ "write" \in MsgType
  BY DEF CarefulInv, MsgType
<1>3. numOfMsg' \in Nat /\ msgs' \in Seq(MsgType) /\ (~refused' => ~refused)
  <2>1. CASE totalMsgLen + Len(part) = len
    <3>1. numOfMsg' = 0 /\ SendMsg("write")
      BY <1>1, <2>1 DEF Collect
    <3> QED BY <1>2, <3>1, SendMsgWrites
  <2>2. CASE totalMsgLen + Len(part) # len
    <3>1. numOfMsg' = numOfMsg + 1 /\ UNCHANGED <<msgs, refused>>
      BY <1>1, <2>2 DEF Collect
    <3> QED BY <1>2, <3>1
  <2> QED BY <2>1, <2>2
<1>4. CASE careless
  BY <1>1, <1>2, <1>3, <1>4 DEF CarefulInv, AllInv
<1>5. CASE ~careless
  <2>1. OneWrite(msgs) /\ Stage /\ GivenInv /\ ~Idle /\ ins # 0
    BY <1>1, <1>5 DEF CarefulInv, Idle
  <2>2. Writing /\ pc # "write" /\ ~WriteWaits(msgs)
    BY <1>1, <2>1 DEF Stage, Idle, Held
  <2>3. PICK n \in FrameSize : \E k \in 0 .. n : Written(n, k)
    BY <2>2 DEF Writing
  <2>4. PICK k \in 0 .. n : Written(n, k)
    BY <2>3
  <2>5. PICK b \in Int : b = -1
    OBVIOUS
  <2>6. PICK r \in Nat : r = n + 1 - k /\ r > 0
    BY NumberAssumption
  <2>7. /\ n \in Nat /\ n > 0 /\ k \in Nat /\ k - 1 = b + k /\ b + k \in Int
        /\ PartSize \in Nat /\ PartSize > 1 /\ UsartSize \in Nat
    BY <2>5, NumberAssumption
  <2>8. /\ left = Piece(ins, n, b + k, r)
        /\ usart_queue = Piece(ins, n, b, Least(k, UsartSize))
        /\ totalMsgLen = k /\ (numOfMsg = 0 <=> k = 0) /\ (k > 0 => msgLen = n + 1)
    BY <2>4, <2>5, <2>6, <2>7 DEF Written
  <2>9. Len(left) = r
    BY <2>7, <2>8, PieceIsSeq
  <2>10. PICK p \in 1 .. r : p = m /\ (r > 1 => p > 1)
    <3>1. m = IF PartSize < r THEN PartSize ELSE r
      BY <2>9 DEF m, Least
    <3>2. m \in 1 .. r /\ (r > 1 => m > 1)
      BY <2>6, <2>7, <3>1
    <3> QED BY <3>2
  <2>11. part = Piece(ins, n, b + k, p)
    <3>1. p \in 0 .. r
      BY <2>10
    <3> QED BY <2>7, <2>8, <2>10, <3>1, PieceFirst DEF part
  <2>12. Len(part) = p /\ \A i \in 1 .. p : part[i] = Unit(ins, n, (b + k) + i)
    <3>1. p \in Nat
      BY <2>10
    <3> QED BY <2>7, <2>11, <3>1, PieceIsSeq
  <2>13. len = n + 1
    <3>1. CASE k = 0
      <4>1. r > 1
        BY <2>6, <2>7, <3>1
      <4>2. 2 \in 1 .. p
        BY <2>10, <4>1
      <4>3. part[2].size = n
        BY <2>12, <4>2 DEF Unit
      <4> QED BY <2>8, <3>1, <4>3 DEF len, LenOf
    <3>2. CASE k # 0
      <4>1. k > 0
        BY <2>7, <3>2
      <4> QED BY <2>8, <3>2, <4>1 DEF len
    <3> QED BY <3>1, <3>2
  <2>14. left' = Piece(ins, n, (b + k) + p, r - p)
    <3>1. p \in 0 .. r
      BY <2>10
    <3> QED BY <1>1, <2>7, <2>8, <2>12, <3>1, PieceRest
  <2>15. Stored(part) = Piece(ins, n, b, Least(k + p, UsartSize))
    <3>1. p \in Nat /\ Least(k, UsartSize) \in Nat
      BY <2>7, <2>10 DEF Least
    <3>2. Len(usart_queue) = Least(k, UsartSize)
      BY <2>7, <2>8, <3>1, PieceIsSeq
    <3>3. Piece(ins, n, b, Least(k, UsartSize))
            \o First(Piece(ins, n, b + k, p), Least(p, UsartSize - Least(k, UsartSize)))
          = Piece(ins, n, b, Least(k + p, UsartSize))
      <4>1. /\ b \in Int /\ k \in Nat /\ p \in Nat /\ UsartSize \in Nat
        BY <2>7, <3>1
      <4> DEFINE P(f, w, a, j, l, u) ==
            Piece(f, w, a, Least(j, u))
              \o First(Piece(f, w, a + j, l), Least(l, u - Least(j, u)))
            = Piece(f, w, a, Least(j + l, u))
      <4>2. \A f, w : \A a \in Int, j \in Nat, l \in Nat, u \in Nat : P(f, w, a, j, l, u)
        BY PieceStored, Zenon
      <4> HIDE DEF P
      <4>3. P(ins, n, b, k, p, UsartSize)
        BY <4>1, <4>2, Zenon
      <4> QED BY <4>3, Zenon DEF P
    <3>4. Stored(part) = usart_queue \o First(part, Least(p, UsartSize - Len(usart_queue)))
      BY <2>12 DEF Stored
    <3> QED BY <2>8, <2>11, <3>2, <3>3, <3>4
  <2>16. /\ ~Idle' => ins' # 0
         /\ \A i \in DOMAIN given : given[i][1].frame <= ins - 1
         /\ AllInv /\ ~refused' => Len(given) = ins - 1
    BY <1>1, <1>3, <1>5, <2>1 DEF GivenInv, AllInv
  <2>17. ~Idle' => GivenInv'
    BY <1>1, <2>1, <2>16 DEF GivenInv
  <2>18. CASE k + p = n + 1
    <3>1. numOfMsg' = 0 /\ totalMsgLen' = 0 /\ usart_queue' = HeaderOff(Stored(part)) /\ SendMsg("write")
      BY <1>1, <2>8, <2>12, <2>13, <2>18 DEF Collect
    <3>2. OneWrite(msgs') /\ (~refused' => WriteWaits(msgs'))
      BY <1>2, <2>2, <3>1, SendMsgWrites
    <3>3. left' = <<>>
      <4>1. r - p = 0 /\ (b + k) + p \in Int /\ 0 \in Nat
        BY <2>6, <2>7, <2>10, <2>18
      <4> QED BY <2>14, <4>1, PieceEmpty
    <3>4. usart_queue' = Piece(ins, n, 0, Least(n, UsartSize - 1))
      <4> DEFINE e == Least(n + 1, UsartSize)
      <4>1. e \in Nat /\ 1 \in 0 .. e /\ e - 1 = Least(n, UsartSize - 1) /\ b + 1 = 0
        BY <2>5, <2>7 DEF Least
      <4> HIDE DEF e
      <4>2. Rest(Piece(ins, n, b, e), 1) = Piece(ins, n, b + 1, e - 1)
        BY <4>1, PieceRest
      <4> QED BY <2>15, <2>18, <3>1, <4>1, <4>2 DEF HeaderOff, e
    <3>5. Held(n)'
      BY <1>1, <3>3, <3>4 DEF Held
    <3>6. ~Idle'
      <4>1. Least(n, UsartSize - 1) \in Nat /\ Least(n, UsartSize - 1) # 0 /\ 0 \in Int
        BY <2>7 DEF Least
      <4> QED BY <3>4, <4>1, PieceEmpty DEF Idle
    <3>7. Stage'
      BY <1>1, <2>2, <3>5 DEF Stage
    <3>8. CarefulInv'
      BY <1>1, <1>2, <1>3, <2>16, <2>17, <3>1, <3>2, <3>6, <3>7 DEF CarefulInv
    <3>9. AllInv => AllInv'
      BY <1>1, <2>16, <3>2, <3>6 DEF AllInv
    <3> QED BY <3>8, <3>9
  <2>19. CASE k + p # n + 1
    <3>1. /\ numOfMsg' = numOfMsg + 1 /\ totalMsgLen' = k + p /\ usart_queue' = Stored(part)
          /\ msgLen' = n + 1 /\ UNCHANGED <<msgs, refused>>
      BY <1>1, <2>8, <2>12, <2>13, <2>19 DEF Collect
    <3>2. /\ k + p \in 0 .. n /\ k + p > 0 /\ (k + p) - 1 = (b + k) + p
          /\ n + 1 - (k + p) = r - p /\ numOfMsg + 1 # 0
      <4>1. numOfMsg + 1 # 0
        BY <1>2
      <4> QED BY <2>5, <2>6, <2>7, <2>10, <2>19, <4>1
    <3>3. Written(n, k + p)'
      BY <1>1, <2>5, <2>14, <2>15, <3>1, <3>2 DEF Written
    <3>4. left' # <<>>
      <4>1. r - p \in Nat /\ r - p # 0 /\ (b + k) + p \in Int
        BY <2>6, <2>7, <2>10, <3>2
      <4> QED BY <2>14, <4>1, PieceEmpty
    <3>5. Stage'
      BY <1>1, <2>2, <3>1, <3>2, <3>3 DEF Stage, Writing
    <3>6. ~Idle'
      BY <3>4 DEF Idle
    <3>7. CarefulInv'
      BY <1>1, <1>2, <1>3, <2>1, <2>16, <2>17, <3>1, <3>4, <3>5, <3>6 DEF CarefulInv
    <3>8. AllInv => AllInv'
      BY <1>1, <2>16, <3>4, <3>6 DEF AllInv
    <3> QED BY <3>7, <3>8
  <2> QED BY <2>18, <2>19
<1> QED BY <1>4, <1>5

\* A phone that is not half way through a frame has no frame under way, or has
\* not written any of it.
LEMMA NotHalfway ==
  ASSUME CarefulInv, ~careless, ~Halfway
  PROVE  numOfMsg = 0 /\ totalMsgLen = 0
<1>1. CASE left = <<>>
  BY <1>1 DEF CarefulInv
<1>2. CASE left # <<>>
  <2>1. Writing
    BY <1>2 DEF CarefulInv, Stage, Idle, Held
  <2>2. PICK n \in FrameSize : \E k \in 0 .. n : Written(n, k)
    BY <2>1 DEF Writing
  <2>3. PICK k \in 0 .. n : Written(n, k)
    BY <2>2
  <2>4. n + 1 - k \in Nat /\ n + 1 - k # 0 /\ k - 1 \in Int /\ (k - 1) + 1 = k
    BY NumberAssumption
  <2>5. left = Piece(ins, n, k - 1, n + 1 - k)
    BY <2>3 DEF Written
  <2>6. 1 \in 1 .. n + 1 - k
    BY <2>4
  <2>7. left[1] = Unit(ins, n, k)
    BY <2>4, <2>5, <2>6 DEF Piece
  <2>8. Head(left) = left[1]
    BY <1>2, <2>4, <2>5, PieceIsSeq
  <2>9. Head(left).at = k
    BY <2>7, <2>8 DEF Unit
  <2>10. k = 0
    BY <1>2, <2>9 DEF Halfway
  <2> QED BY <2>3, <2>10 DEF Written
<1> QED BY <1>1, <1>2

\* An ACK, or the phone starting anew.
LEMMA AnswerFrame ==
  ASSUME CarefulInv, Ack \/ StartAnew
  PROVE  CarefulInv' /\ (AllInv => AllInv')
<1>1. /\ careless' = (careless \/ Halfway)
      /\ UNCHANGED <<left, ins, given, usart_msg_len>>
  BY DEF Ack, StartAnew
<1>2. msgs \in Seq(MsgType) /\ ins \in Nat /\ numOfMsg \in Nat /\ "write" \in MsgType
  BY DEF CarefulInv, MsgType
<1>3. numOfMsg' \in Nat /\ msgs' \in Seq(MsgType) /\ (~refused' => ~refused)
  <2>1. CASE StartAnew \/ numOfMsg = 0
    BY <1>2, <2>1 DEF Ack, StartAnew
  <2>2. CASE Ack /\ numOfMsg # 0
    <3>1. Collect(<<AckUnit>>, msgLen)
      BY <2>2 DEF Ack
    <3>2. CASE totalMsgLen + Len(<<AckUnit>>) = msgLen
      <4>1. numOfMsg' = 0 /\ SendMsg("write")
        BY <3>1, <3>2 DEF Collect
      <4> QED BY <1>2, <4>1, SendMsgWrites
    <3>3. CASE totalMsgLen + Len(<<AckUnit>>) # msgLen
      <4>1. numOfMsg' = numOfMsg + 1 /\ UNCHANGED <<msgs, refused>>
        BY <3>1, <3>3 DEF Collect
      <4> QED BY <1>2, <4>1
    <3> QED BY <3>2, <3>3
  <2> QED BY <2>1, <2>2
<1>4. CASE careless'
  BY <1>1, <1>2, <1>3, <1>4 DEF CarefulInv, AllInv
<1>5. CASE ~careless'
  <2>0. ~careless /\ ~Halfway
    BY <1>1, <1>5
  <2>1. numOfMsg = 0 /\ totalMsgLen = 0
    BY <2>0, NotHalfway
  <2>2. /\ UNCHANGED <<msgs, refused, usart_queue, msgLen>> /\ numOfMsg' = 0 /\ totalMsgLen' = 0
        /\ Wakeup \/ UNCHANGED pc
    BY <2>1 DEF Ack, StartAnew
  <2>3. pc' = "write" <=> pc = "write"
    BY <2>2 DEF Wakeup
  <2>4. UNCHANGED assembly
    BY <2>1, <2>2 DEF assembly
  <2> QED BY <1>1, <1>2, <2>0, <2>2, <2>3, <2>4, StageStays, AllStays
<1> QED BY <1>4, <1>5

\* The link is lost, and with it what the phone had still to write.
LEMMA DisconnectFrame ==
  ASSUME CarefulInv, Disconnect
  PROVE  CarefulInv' /\ (AllInv => AllInv')
<1>1. /\ careless' = (careless \/ left # <<>>) /\ left' = <<>> /\ SendMsg("disconnect")
      /\ UNCHANGED <<pc, usart_msg_len, usart_queue, numOfMsg, totalMsgLen, msgLen, ins, given>>
  BY DEF Disconnect, thread, assembly
<1>2. msgs \in Seq(MsgType) /\ "disconnect" \in MsgType /\ ins \in Nat /\ numOfMsg \in Nat
  BY DEF CarefulInv, MsgType
<1>3. /\ msgs' \in Seq(MsgType) /\ (~refused' => ~refused)
      /\ OneWrite(msgs) => OneWrite(msgs')
      /\ WriteWaits(msgs') <=> WriteWaits(msgs)
  BY <1>1, <1>2, SendMsgWrites
<1>4. CASE careless'
  BY <1>1, <1>2, <1>3, <1>4 DEF CarefulInv, AllInv
<1>5. CASE ~careless'
  <2>1. ~careless /\ left = <<>>
    BY <1>1, <1>5
  <2>2. UNCHANGED assembly
    BY <1>1 DEF assembly
  <2> QED BY <1>1, <1>3, <2>1, <2>2, StageStays, AllStays
<1> QED BY <1>4, <1>5

\* The other messages and the steps of waiting have nothing to do with the frames
\* of the phone.
LEMMA OtherFrame ==
  ASSUME CarefulInv,
         \/ ClientConnect \/ ClientDisconnect \/ TakeFrame
         \/ Arm \/ Need \/ Sleep \/ Resume \/ Tick
         \/ FrameToPhone \/ Connect
         \/ UNCHANGED vars
  PROVE  CarefulInv' /\ (AllInv => AllInv')
<1>0. msgs \in Seq(MsgType) /\ {"connect", "gff"} \subseteq MsgType
  BY DEF CarefulInv, MsgType
<1>1. UNCHANGED <<usart_queue, left, ins, given, careless, usart_msg_len, assembly>>
  BY DEF ClientConnect, ClientDisconnect, TakeFrame, Arm, Need, Sleep, Resume, Tick,
         FrameToPhone, Connect, phone, thread, vars, assembly
<1>2. pc' = "write" <=> pc = "write"
  BY DEF ClientConnect, ClientDisconnect, TakeFrame, Arm, Need, Sleep, Resume, Tick,
         FrameToPhone, Connect, thread, vars, Wakeup, Receive
<1>3. /\ msgs' \in Seq(MsgType) /\ (~refused' => ~refused)
      /\ OneWrite(msgs) => OneWrite(msgs')
      /\ WriteWaits(msgs') <=> WriteWaits(msgs)
  <2>1. CASE ClientConnect \/ ClientDisconnect \/ TakeFrame
    <3>1. msgs # <<>> /\ Head(msgs) # "write" /\ msgs' = Tail(msgs) /\ refused' = refused
      BY <2>1 DEF ClientConnect, ClientDisconnect, TakeFrame, Receive
    <3> QED BY <1>0, <3>1, WritesOfTail
  <2>2. CASE Arm \/ Need \/ Sleep \/ Resume \/ Tick \/ UNCHANGED vars
    <3>1. UNCHANGED <<msgs, refused>>
      BY <2>2 DEF Arm, Need, Sleep, Resume, Tick, vars
    <3> QED BY <1>0, <3>1
  <2>3. CASE FrameToPhone \/ Connect
    <3>1. SendMsg("gff") \/ SendMsg("connect")
      BY <2>3 DEF FrameToPhone, Connect
    <3> QED BY <1>0, <3>1, SendMsgWrites
  <2> QED BY <2>1, <2>2, <2>3
<1> QED BY <1>1, <1>2, <1>3, StageStays, AllStays

LEMMA InitFrames == Init => CarefulInv /\ AllInv
<1> SUFFICES ASSUME Init PROVE CarefulInv /\ AllInv
  OBVIOUS
<1>1. ~WriteWaits(msgs) /\ OneWrite(msgs) /\ Idle /\ msgs \in Seq(MsgType)
  BY DEF Init, WriteWaits, OneWrite, Idle
<1>2. Stage /\ GivenInv
  BY <1>1 DEF Init, Stage, GivenInv
<1>3. CarefulInv
  BY <1>1, <1>2 DEF Init, CarefulInv
<1>4. AllInv
  BY <1>1 DEF Init, AllInv, Idle
<1> QED BY <1>3, <1>4
LEMMA StepCareful ==
  ASSUME UsartSize > 1, CarefulInv, [Next]_vars
  PROVE  CarefulInv'
BY ClientWriteFrame, ThrowAwayFrame, HandOnFrame, BeginFrameFrame, ValueFrame,
   AnswerFrame, DisconnectFrame, OtherFrame
DEF Next, Thread, Interrupt

\* If frames fit into usart_queue and are not too long for the thread none is
\* thrown away, and none waits for the rest of it.
LEMMA StepAll ==
  ASSUME UsartSize > 1, \A n \in FrameSize : n <= Limit /\ n < UsartSize,
         CarefulInv, AllInv, [Next]_vars
  PROVE  AllInv'
<1>1. CASE ThrowAway
  <2>1. pc = "write" /\ Len(usart_queue) > Limit /\ careless' = careless
    BY <1>1 DEF ThrowAway, phone
  <2>2. ASSUME ~careless PROVE FALSE
    <3>1. PICK n \in FrameSize : Held(n)
      BY <2>1, <2>2, WriteHolds
    <3>2. n \in Nat /\ n > 0 /\ Least(n, UsartSize - 1) = n /\ Limit \in Nat /\ 0 \in Int
      BY NumberAssumption DEF Least
    <3>3. Len(usart_queue) = n
      BY <3>1, <3>2, PieceIsSeq DEF Held
    <3> QED BY <2>1, <3>2, <3>3
  <2> QED BY <2>1, <2>2 DEF AllInv
<1>2. CASE HandOn
  <2>1. pc = "write" /\ UNCHANGED <<ins, careless, refused, left>>
    BY <1>2 DEF HandOn, phone
  <2>2. CASE careless
    BY <2>1, <2>2 DEF AllInv
  <2>3. CASE ~careless
    <3>1. left = <<>> /\ usart_queue # <<>>
      BY <2>1, <2>3, WriteHolds, StageIdle DEF CarefulInv
    <3>2. usart_queue' = <<>> /\ (given' = given \/ Len(given') = Len(given) + 1)
      BY <1>2, <2>3, HandOnFrame
    <3>3. given' # given
      <4>1. PICK n \in FrameSize : Held(n) /\ usart_msg_len = n
        BY <2>1, <2>3, WriteHolds
      <4>2. n \in Nat /\ Least(n, UsartSize - 1) = n /\ 0 \in Int
        BY NumberAssumption DEF Least
      <4>3. Len(usart_queue) = n
        BY <4>1, <4>2, PieceIsSeq DEF Held
      <4>4. given' = Append(given, First(usart_queue, usart_msg_len))
        BY <1>2, <4>1, <4>2, <4>3 DEF HandOn
      <4>5. given \in Seq(Frames)
        BY <2>3 DEF CarefulInv, GivenInv
      <4>6. Len(given') = Len(given) + 1 /\ Len(given) \in Nat
        BY <4>4, <4>5
      <4> QED BY <4>6
    <3>4. ~Idle /\ Idle' /\ ins \in Nat
      BY <2>1, <3>1, <3>2 DEF Idle, CarefulInv
    <3> QED BY <2>1, <3>2, <3>3, <3>4 DEF AllInv
  <2> QED BY <2>2, <2>3
<1> QED BY <1>1, <1>2, ClientWriteFrame, BeginFrameFrame, ValueFrame,
           AnswerFrame, DisconnectFrame, OtherFrame
        DEF Next, Thread, Interrupt

\* The frames of a phone that sends one at a time, and completes it, reach the
\* controller whole, without their header and in their order.
THEOREM FramesComeWhole ==
  ASSUME UsartSize > 1
  PROVE  Spec => []WholeIfCareful
<1>1. CarefulInv /\ [Next]_vars => CarefulInv'
  BY StepCareful
<1>2. CarefulInv => WholeIfCareful
  <2> SUFFICES ASSUME CarefulInv, ~careless PROVE GivenWhole
    BY DEF WholeIfCareful
  <2>1. GivenInv /\ ins \in Nat
    BY DEF CarefulInv
  <2>2. ASSUME NEW i \in DOMAIN given
        PROVE  \E f \in 1 .. ins, n \in FrameSize : given[i] = Whole(f, n)
    <3>1. given[i] \in Frames
      BY <2>1 DEF GivenInv
    <3>2. PICK f \in Nat \ {0}, n \in FrameSize : given[i] = Whole(f, n)
      BY <3>1 DEF Frames
    <3>3. given[i][1].frame = f
      BY <3>2, NumberAssumption DEF Whole, Unit
    <3>4. f \in 1 .. ins
      BY <2>1, <3>3 DEF GivenInv
    <3> QED BY <3>2, <3>4
  <2> QED BY <2>1, <2>2 DEF GivenWhole, GivenInv
<1> QED BY InitFrames, <1>1, <1>2, PTL DEF Spec

\* None of its frames is lost, if they fit into usart_queue beside the header and
\* no message of the interrupt to the thread is refused.
THEOREM FramesAllCome ==
  ASSUME UsartSize > 1, \A n \in FrameSize : n <= Limit /\ n < UsartSize
  PROVE  Spec => []AllIfCareful
<1>1. CarefulInv /\ AllInv /\ [Next]_vars => CarefulInv' /\ AllInv'
  BY StepCareful, StepAll
<1>2. CarefulInv /\ AllInv => AllIfCareful
  <2> SUFFICES ASSUME CarefulInv, AllInv, ~careless, ~refused, pc = "receive", msgs = <<>>, left = <<>>
               PROVE  Len(given) = ins
    BY DEF AllIfCareful
  <2>1. ~WriteWaits(msgs)
    BY DEF WriteWaits
  <2>2. Idle
    BY <2>1 DEF AllInv, Idle
  <2> QED BY <2>2 DEF AllInv
<1> QED BY InitFrames, <1>1, <1>2, PTL DEF Spec
=============================================================================
