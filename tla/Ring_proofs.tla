----------------------------- MODULE Ring_proofs -----------------------------
(***************************************************************************)
(* Proofs about the ring: that of CirQueue, for every array size, every    *)
(* set of byte values and every buffer length; and that of GffChannel, for *)
(* every set of frames, header and length of the message queue.            *)
(***************************************************************************)
EXTENDS CirQueue, GffChannel, SequenceTheorems, WellFoundedInduction, TLAPS

(***************************************************************************)
(* Positions and sizes.                                                    *)
(***************************************************************************)

\* The successor of a position is a position.
LEMMA AdvanceIndex == \A i \in Index : Advance(i) \in Index
BY QueueSizeAssumption DEF Index, Advance

\* get_size() is between 0 and queue_size; it is 0 exactly when the queue is
\* marked empty, and queue_size exactly when the two positions have met.
LEMMA SizeRange ==
  ASSUME NEW h \in Index, NEW t \in Index \cup {-1}
  PROVE  /\ SizeOf(h, t) \in 0 .. QueueSize
         /\ SizeOf(h, t) = 0 <=> t = -1
         /\ SizeOf(h, t) = QueueSize <=> t = h
BY QueueSizeAssumption DEF Index, SizeOf

\* The queued bytes are at positions of the array, no two at the same one,
\* and none at the position the next byte goes to unless the ring is full.
LEMMA PosInRing ==
  ASSUME NEW h \in Index, NEW t \in Index, NEW i \in 1 .. SizeOf(h, t)
  PROVE  /\ Pos(t, i) \in Index
         /\ t # h => Pos(t, i) # h
         /\ i > 1 => Pos(t, i) = Pos(Advance(t), i - 1)
BY QueueSizeAssumption DEF Index, SizeOf, Pos, Advance

\* Adding to a ring that is not full makes it one byte longer, and the new
\* byte is the youngest.
LEMMA SizeAfterAdd ==
  ASSUME NEW h \in Index, NEW t \in Index, t # h
  PROVE  /\ SizeOf(Advance(h), t) = SizeOf(h, t) + 1
         /\ Pos(t, SizeOf(h, t) + 1) = h
BY QueueSizeAssumption DEF Index, SizeOf, Pos, Advance

\* A ring whose oldest byte was written last holds that byte alone.
LEMMA SizeOfOne ==
  ASSUME NEW h \in Index
  PROVE  /\ SizeOf(Advance(h), h) = 1
         /\ Pos(h, 1) = h
BY QueueSizeAssumption DEF Index, SizeOf, Pos, Advance

\* Taking a byte makes the ring one byte shorter.
LEMMA SizeAfterTake ==
  ASSUME NEW h \in Index, NEW t \in Index
  PROVE  SizeOf(h, IF Advance(t) = h THEN -1 ELSE Advance(t)) = SizeOf(h, t) - 1
BY QueueSizeAssumption DEF Index, SizeOf, Advance

(***************************************************************************)
(* Type correctness.                                                       *)
(***************************************************************************)

LEMMA AddByteType ==
  ASSUME TypeOK, NEW b \in Byte, add_byte(b)
  PROVE  /\ queue_p' \in [Index -> Byte]
         /\ head' \in Index
         /\ tail' \in Index \cup {-1}
         /\ tail' # -1
         /\ overflowed' \in BOOLEAN
         /\ lost' \in BOOLEAN
         /\ preview_pos' \in Index \cup {-1}
         /\ retdata' \in Byte
  <1>1. head' \in Index
    BY AdvanceIndex DEF TypeOK, add_byte
  <1>2. tail' \in Index \cup {-1} /\ tail' # -1
    <2>1. head \in Index /\ tail \in Index \cup {-1}
      BY DEF TypeOK
    <2>2. tail' = IF tail = -1 THEN head ELSE tail
      BY DEF add_byte
    <2>3. -1 \notin Index
      BY DEF Index
    <2>4. QED
      BY <2>1, <2>2, <2>3
  <1>3. queue_p' \in [Index -> Byte]
    BY DEF TypeOK, add_byte
  <1>4. overflowed' \in BOOLEAN /\ lost' \in BOOLEAN
    BY DEF TypeOK, add_byte
  <1>5. QED
    BY <1>1, <1>2, <1>3, <1>4 DEF TypeOK, add_byte

LEMMA GetByteType ==
  ASSUME TypeOK, get_byte
  PROVE  /\ tail' \in Index \cup {-1}
         /\ retdata' \in Byte
  <1>1. CASE tail = -1
    BY <1>1, ZeroAssumption DEF TypeOK, get_byte
  <1>2. CASE tail # -1
    <2>1. tail \in Index
      BY <1>2 DEF TypeOK
    <2>2. QED
      BY <1>2, <2>1, AdvanceIndex DEF TypeOK, get_byte, AfterTake
  <1>3. QED
    BY <1>1, <1>2

\* Every variable keeps its type and both positions stay inside the array.
THEOREM TypeCorrect == Spec => []TypeOK
  <1>1. Init => TypeOK
    <2> SUFFICES ASSUME Init PROVE TypeOK
      OBVIOUS
    <2>1. 0 \in Index
      BY QueueSizeAssumption DEF Index
    <2>2. queue_p \in [Index -> Byte]
      BY ZeroAssumption DEF Init
    <2>3. adding \in Seq(Byte)
      BY EmptySeq DEF Init
    <2>4. getting \in 0 .. QueueSize
      BY QueueSizeAssumption DEF Init
    <2>5. QED
      BY <2>1, <2>2, <2>3, <2>4, ZeroAssumption DEF Init, TypeOK
  <1>2. TypeOK /\ [Next]_vars => TypeOK'
    <2> SUFFICES ASSUME TypeOK, [Next]_vars PROVE TypeOK'
      OBVIOUS
    <2>1. CASE AddStart
      BY <2>1, MaxBufAssumption DEF TypeOK, AddStart, ring
    <2>2. CASE AddNext
      <3>1. Head(adding) \in Byte /\ Tail(adding) \in Seq(Byte)
        BY <2>2, HeadTailProperties DEF TypeOK, AddNext
      <3>2. add_byte(Head(adding)) /\ adding' = Tail(adding) /\ getting' = getting
        BY <2>2 DEF AddNext
      <3>3. QED
        BY <3>1, <3>2, AddByteType DEF TypeOK
    <2>3. CASE GetStart
      <3>1. get_size \in 0 .. QueueSize
        BY SizeRange DEF TypeOK, get_size
      <3>2. getting' \in 0 .. QueueSize
        BY <2>3, <3>1, MaxBufAssumption, QueueSizeAssumption DEF GetStart, GetCount
      <3>3. QED
        BY <2>3, <3>2 DEF TypeOK, GetStart, ring
    <2>4. CASE GetNext
      <3>1. getting' \in 0 .. QueueSize
        BY <2>4, QueueSizeAssumption DEF TypeOK, GetNext
      <3>2. QED
        BY <2>4, <3>1, GetByteType DEF TypeOK, GetNext, get_byte
    <2>5. CASE GetOne
      BY <2>5, GetByteType DEF TypeOK, GetOne, get_byte
    <2>6. CASE Preview
      <3>1. CASE tail = -1
        BY <2>6, <3>1, ZeroAssumption DEF TypeOK, Preview
      <3>2. CASE tail # -1
        <4>1. tail \in Index
          BY <3>2 DEF TypeOK
        <4>2. QED
          BY <2>6, <3>2, <4>1, AdvanceIndex DEF TypeOK, Preview
      <3>3. QED
        BY <3>1, <3>2
    <2>7. CASE UNCHANGED vars
      BY <2>7 DEF TypeOK, vars
    <2>8. QED
      BY <2>1, <2>2, <2>3, <2>4, <2>5, <2>6, <2>7 DEF Next
  <1>3. QED
    BY <1>1, <1>2, PTL DEF Spec

(***************************************************************************)
(* What the two primitives do to the size and to the contents.             *)
(***************************************************************************)

LEMMA AddByteSize ==
  ASSUME TypeOK, NEW b \in Byte, add_byte(b)
  PROVE  get_size' = IF get_size = QueueSize THEN 1 ELSE get_size + 1
  <1>1. CASE tail = -1
    <2>1. head' = Advance(head) /\ tail' = head
      BY <1>1 DEF add_byte
    <2>2. get_size = 0 /\ get_size' = 1
      BY <1>1, <2>1, SizeOfOne DEF TypeOK, get_size, SizeOf
    <2>3. QED
      BY <2>2, QueueSizeAssumption
  <1>2. CASE tail # -1
    <2>1. tail \in Index /\ head \in Index
      BY <1>2 DEF TypeOK
    <2>2. head' = Advance(head) /\ tail' = tail
      BY <1>2 DEF add_byte
    <2>3. CASE tail = head
      <3>1. get_size = QueueSize
        BY <2>1, <2>3, SizeRange DEF get_size
      <3>2. get_size' = 1
        BY <2>1, <2>2, <2>3, SizeOfOne DEF get_size
      <3>3. QED
        BY <3>1, <3>2
    <2>4. CASE tail # head
      <3>1. get_size # QueueSize
        BY <2>1, <2>4, SizeRange DEF get_size
      <3>2. get_size' = get_size + 1
        BY <2>1, <2>2, <2>4, SizeAfterAdd DEF get_size
      <3>3. QED
        BY <3>1, <3>2
    <2>5. QED
      BY <2>3, <2>4
  <1>3. QED
    BY <1>1, <1>2

LEMMA GetByteSize ==
  ASSUME TypeOK, get_byte
  PROVE  get_size' = IF get_size = 0 THEN 0 ELSE get_size - 1
  <1>1. CASE tail = -1
    BY <1>1 DEF get_byte, get_size, SizeOf
  <1>2. CASE tail # -1
    <2>1. tail \in Index /\ head \in Index
      BY <1>2 DEF TypeOK
    <2>2. head' = head /\ tail' = IF Advance(tail) = head THEN -1 ELSE Advance(tail)
      BY <1>2 DEF get_byte, AfterTake
    <2>3. get_size' = get_size - 1
      BY <2>1, <2>2, SizeAfterTake DEF get_size
    <2>4. get_size # 0
      BY <1>2, <2>1, SizeRange DEF get_size
    <2>5. QED
      BY <2>3, <2>4
  <1>3. QED
    BY <1>1, <1>2

\* A get_data(buf, n) finds on every turn of its loop a byte it counted, as
\* long as no add has met a full queue (CirQueue's CountedBytesStay).
THEOREM CountedBytesAreThere == Spec => []CountedBytesStay
  <1>1. Init => CountedBytesStay
    BY DEF Init, CountedBytesStay, get_size, SizeOf
  <1>2. TypeOK /\ CountedBytesStay /\ [Next]_vars => CountedBytesStay'
    <2> SUFFICES ASSUME TypeOK, CountedBytesStay, [Next]_vars, ~lost'
                 PROVE  getting' <= get_size'
      BY DEF CountedBytesStay
    <2>0. get_size \in 0 .. QueueSize /\ getting \in 0 .. QueueSize
      BY SizeRange DEF TypeOK, get_size
    <2>1. CASE AddStart
      BY <2>1 DEF CountedBytesStay, AddStart, ring, get_size
    <2>2. CASE AddNext
      <3>1. Head(adding) \in Byte
        BY <2>2, HeadTailProperties DEF TypeOK, AddNext
      <3>2. add_byte(Head(adding)) /\ getting' = getting
        BY <2>2 DEF AddNext
      <3>3. ~lost /\ tail # head
        BY <3>2 DEF add_byte
      <3>4. get_size # QueueSize
        BY <3>3, SizeRange, QueueSizeAssumption DEF TypeOK, get_size
      <3>5. get_size' = get_size + 1
        BY <3>1, <3>2, <3>4, AddByteSize
      <3>6. QED
        BY <2>0, <3>2, <3>3, <3>5, QueueSizeAssumption DEF CountedBytesStay
    <2>3. CASE GetStart
      <3>1. PICK n \in 1 .. MaxBuf : getting' = GetCount(n, get_size)
        BY <2>3 DEF GetStart
      <3>2. get_size' = get_size
        BY <2>3 DEF GetStart, ring, get_size
      <3>3. QED
        BY <2>0, <3>1, <3>2, MaxBufAssumption, QueueSizeAssumption DEF GetCount
    <2>4. CASE GetNext
      <3>1. get_byte /\ getting' = getting - 1 /\ getting > 0 /\ lost' = lost
        BY <2>4 DEF GetNext, get_byte
      <3>2. get_size' = IF get_size = 0 THEN 0 ELSE get_size - 1
        BY <3>1, GetByteSize
      <3>3. QED
        BY <2>0, <3>1, <3>2, QueueSizeAssumption DEF CountedBytesStay
    <2>5. CASE GetOne
      <3>1. get_byte /\ getting' = 0
        BY <2>5 DEF GetOne
      <3>2. get_size' \in Nat
        BY <2>0, <3>1, GetByteSize, QueueSizeAssumption
      <3>3. QED
        BY <3>1, <3>2
    <2>6. CASE Preview
      BY <2>6 DEF CountedBytesStay, Preview, get_size
    <2>7. CASE UNCHANGED vars
      BY <2>7 DEF CountedBytesStay, vars, get_size
    <2>8. QED
      BY <2>1, <2>2, <2>3, <2>4, <2>5, <2>6, <2>7 DEF Next
  <1>3. QED
    BY <1>1, <1>2, TypeCorrect, PTL DEF Spec

(***************************************************************************)
(* The ring implements ByteFifo.                                           *)
(***************************************************************************)

LEMMA BytesInType ==
  ASSUME NEW p \in [Index -> Byte], NEW h \in Index, NEW t \in Index \cup {-1}
  PROVE  /\ BytesIn(p, h, t) \in Seq(Byte)
         /\ Len(BytesIn(p, h, t)) = SizeOf(h, t)
         /\ BytesIn(p, h, t) = <<>> <=> t = -1
         /\ \A i \in 1 .. SizeOf(h, t) : BytesIn(p, h, t)[i] = p[Pos(t, i)]
  <1>1. SizeOf(h, t) \in 0 .. QueueSize /\ (SizeOf(h, t) = 0 <=> t = -1)
    BY SizeRange
  <1>2. ASSUME NEW i \in 1 .. SizeOf(h, t) PROVE Pos(t, i) \in Index
    <2>1. t \in Index
      BY <1>1, QueueSizeAssumption
    <2>2. QED
      BY <2>1, PosInRing
  <1>3. BytesIn(p, h, t) \in [1 .. SizeOf(h, t) -> Byte]
    BY <1>2 DEF BytesIn
  <1>4. BytesIn(p, h, t) \in Seq(Byte) /\ Len(BytesIn(p, h, t)) = SizeOf(h, t)
    BY <1>1, <1>3, QueueSizeAssumption
  <1>5. BytesIn(p, h, t) = <<>> <=> t = -1
    BY <1>1, <1>4, EmptySeq
  <1>6. QED
    BY <1>4, <1>5 DEF BytesIn

LEMMA ContentsType ==
  ASSUME TypeOK
  PROVE  /\ Contents \in Seq(Byte)
         /\ Len(Contents) = get_size
         /\ Contents = <<>> <=> tail = -1
         /\ \A i \in 1 .. get_size : Contents[i] = queue_p[Pos(tail, i)]
  BY BytesInType DEF TypeOK, Contents, get_size

LEMMA NextContentsType ==
  ASSUME TypeOK'
  PROVE  /\ Contents' \in Seq(Byte)
         /\ Len(Contents') = get_size'
         /\ \A i \in 1 .. get_size' : Contents'[i] = queue_p'[Pos(tail', i)]
  BY BytesInType DEF TypeOK, Contents, get_size

\* An add to a ring with room appends the byte.
LEMMA AddAppends ==
  ASSUME TypeOK, TypeOK', NEW b \in Byte, add_byte(b), tail # head
  PROVE  Contents' = Append(Contents, b)
  <1>1. get_size \in 0 .. QueueSize - 1
    <2>1. get_size \in 0 .. QueueSize /\ get_size # QueueSize
      BY SizeRange DEF TypeOK, get_size
    <2>2. QED
      BY <2>1, QueueSizeAssumption
  <1>2. get_size' = get_size + 1
    BY <1>1, AddByteSize, QueueSizeAssumption
  <1>3. ASSUME NEW i \in 1 .. get_size'
        PROVE  Contents'[i] = Append(Contents, b)[i]
    <2>1. Contents'[i] = queue_p'[Pos(tail', i)]
      BY <1>3, NextContentsType
    <2>2. CASE i = get_size + 1
      <3>1. Pos(tail', i) = head
        <4>1. CASE tail = -1
          <5>1. tail' = head /\ get_size = 0
            BY <4>1 DEF add_byte, get_size, SizeOf
          <5>2. QED
            BY <2>2, <5>1, SizeOfOne DEF TypeOK
        <4>2. CASE tail # -1
          <5>1. tail' = tail /\ tail \in Index
            BY <4>2 DEF add_byte, TypeOK
          <5>2. QED
            BY <2>2, <5>1, SizeAfterAdd DEF TypeOK, get_size
        <4>3. QED
          BY <4>1, <4>2
      <3>2. queue_p'[head] = b
        BY DEF add_byte, TypeOK
      <3>3. Append(Contents, b)[i] = b
        BY <2>2, ContentsType, AppendProperties
      <3>4. QED
        BY <2>1, <3>1, <3>2, <3>3
    <2>3. CASE i \in 1 .. get_size
      <3>1. tail # -1
        BY <2>3, <1>1 DEF get_size, SizeOf
      <3>2. tail' = tail /\ tail \in Index
        BY <3>1 DEF add_byte, TypeOK
      <3>3. Pos(tail, i) # head /\ Pos(tail, i) \in Index
        BY <2>3, <3>2, PosInRing DEF TypeOK, get_size
      <3>4. queue_p'[Pos(tail, i)] = queue_p[Pos(tail, i)]
        BY <3>3 DEF add_byte, TypeOK
      <3>5. Append(Contents, b)[i] = Contents[i]
        BY <2>3, ContentsType, AppendProperties
      <3>6. Contents[i] = queue_p[Pos(tail, i)]
        BY <2>3, ContentsType
      <3>7. QED
        BY <2>1, <3>2, <3>4, <3>5, <3>6
    <2>4. i = get_size + 1 \/ i \in 1 .. get_size
      BY <1>1, <1>2, <1>3, QueueSizeAssumption
    <2>5. QED
      BY <2>2, <2>3, <2>4
  <1>4. Contents' \in Seq(Byte) /\ Len(Contents') = get_size'
    BY NextContentsType
  <1>5. Append(Contents, b) \in Seq(Byte) /\ Len(Append(Contents, b)) = get_size + 1
    BY ContentsType, AppendProperties
  <1>6. QED
    BY <1>2, <1>3, <1>4, <1>5, SeqEqual

\* An add to a full ring leaves the new byte alone in it.
LEMMA AddToFullDiscards ==
  ASSUME TypeOK, TypeOK', NEW b \in Byte, add_byte(b), tail = head
  PROVE  Contents' = <<b>>
  <1>1. tail \in Index /\ tail' = head /\ head' = Advance(head)
    BY DEF TypeOK, add_byte, Index
  <1>2. get_size' = 1 /\ Pos(tail', 1) = head
    BY <1>1, SizeOfOne DEF TypeOK, get_size
  <1>3. queue_p'[head] = b
    BY DEF add_byte, TypeOK
  <1>4. Contents' \in Seq(Byte) /\ Len(Contents') = 1 /\ Contents'[1] = b
    BY <1>2, <1>3, NextContentsType
  <1>5. QED
    BY <1>4

\* A get returns the oldest byte and removes it.
LEMMA GetTakesOldest ==
  ASSUME TypeOK, TypeOK', get_byte, tail # -1
  PROVE  /\ Contents # <<>>
         /\ retdata' = Head(Contents)
         /\ Contents' = Tail(Contents)
  <1>1. tail \in Index /\ head \in Index /\ head' = head /\ queue_p' = queue_p
    BY DEF TypeOK, get_byte
  <1>2. get_size \in 1 .. QueueSize
    BY <1>1, SizeRange, QueueSizeAssumption DEF get_size, Index
  <1>3. get_size' = get_size - 1
    BY <1>2, GetByteSize
  <1>4. Contents # <<>>
    BY ContentsType
  <1>5. retdata' = Head(Contents)
    <2>1. Pos(tail, 1) = tail
      BY <1>1, QueueSizeAssumption DEF Pos, Index
    <2>2. 1 \in 1 .. get_size
      BY <1>2, QueueSizeAssumption
    <2>3. Contents[1] = queue_p[tail]
      BY <2>1, <2>2, ContentsType
    <2>4. QED
      BY <2>3, <1>4, ContentsType DEF get_byte
  <1>6. ASSUME NEW i \in 1 .. get_size - 1
        PROVE  Contents'[i] = Tail(Contents)[i]
    <2>1. tail' = Advance(tail)
      BY <1>1, <1>3, <1>6, SizeRange DEF get_byte, AfterTake, TypeOK, get_size
    <2>2. Contents'[i] = queue_p[Pos(Advance(tail), i)]
      BY <1>1, <1>3, <1>6, <2>1, NextContentsType
    <2>3. i + 1 \in 1 .. get_size /\ i + 1 > 1 /\ (i + 1) - 1 = i
      BY <1>2, <1>6, QueueSizeAssumption
    <2>4. Pos(tail, i + 1) = Pos(Advance(tail), i)
      BY <1>1, <2>3, PosInRing DEF get_size
    <2>5. Tail(Contents)[i] = Contents[i + 1]
      BY <1>2, <1>4, <1>6, ContentsType, HeadTailProperties
    <2>6. QED
      BY <2>2, <2>3, <2>4, <2>5, ContentsType
  <1>7. Contents' \in Seq(Byte) /\ Len(Contents') = get_size - 1
    BY <1>3, NextContentsType
  <1>8. Tail(Contents) \in Seq(Byte) /\ Len(Tail(Contents)) = get_size - 1
    BY <1>4, ContentsType, HeadTailProperties
  <1>9. Contents' = Tail(Contents)
    BY <1>6, <1>7, <1>8, SeqEqual
  <1>10. QED
    BY <1>4, <1>5, <1>9

\* Every step of the ring is a step of the abstract queue or changes nothing
\* the abstract queue shows.
LEMMA StepImplements ==
  ASSUME TypeOK, TypeOK', [Next]_vars
  PROVE  [Fifo!Next]_(Fifo!vars)
  <1> USE DEF Fifo!vars
  <1>0. get_size \in 0 .. QueueSize /\ Len(Contents) = get_size
    BY SizeRange, ContentsType DEF TypeOK, get_size
  <1>1. CASE AddStart
    BY <1>1 DEF AddStart, ring, Contents
  <1>2. CASE AddNext
    <2>1. Head(adding) \in Byte /\ add_byte(Head(adding))
      BY <1>2, HeadTailProperties DEF TypeOK, AddNext
    <2>2. retdata' = retdata /\ lost' = (lost \/ tail = head)
      BY <2>1 DEF add_byte
    <2>3. CASE tail = head
      <3>1. Contents' = <<Head(adding)>>
        BY <2>1, <2>3, AddToFullDiscards
      <3>2. Len(Contents) = QueueSize
        BY <1>0, <2>3, SizeRange DEF TypeOK, get_size, Index
      <3>3. Fifo!Overrun(Head(adding))
        BY <2>2, <2>3, <3>1, <3>2 DEF Fifo!Overrun
      <3>4. QED
        BY <2>1, <3>3 DEF Fifo!Next
    <2>4. CASE tail # head
      <3>1. Contents' = Append(Contents, Head(adding))
        BY <2>1, <2>4, AddAppends
      <3>2. get_size # QueueSize
        BY <2>4, SizeRange DEF TypeOK, get_size
      <3>3. Len(Contents) < QueueSize
        BY <1>0, <3>2, QueueSizeAssumption
      <3>4. lost' = lost
        BY <2>2, <2>4 DEF TypeOK
      <3>5. Fifo!Put(Head(adding))
        BY <2>2, <3>1, <3>3, <3>4 DEF Fifo!Put
      <3>6. QED
        BY <2>1, <3>5 DEF Fifo!Next
    <2>5. QED
      BY <2>3, <2>4
  <1>3. CASE GetStart
    BY <1>3 DEF GetStart, ring, Contents
  <1>4. ASSUME get_byte PROVE Fifo!Next
    <2>1. CASE tail = -1
      <3>1. Contents = <<>>
        BY <2>1, ContentsType
      <3>2. Contents' = Contents
        BY <1>4, <2>1 DEF get_byte, Contents
      <3>3. Fifo!ReadEmpty
        BY <1>4, <2>1, <3>1, <3>2 DEF get_byte, Fifo!ReadEmpty
      <3>4. QED
        BY <3>3 DEF Fifo!Next
    <2>2. CASE tail # -1
      <3>1. Fifo!Take
        BY <1>4, <2>2, GetTakesOldest DEF get_byte, Fifo!Take
      <3>2. QED
        BY <3>1 DEF Fifo!Next
    <2>3. QED
      BY <2>1, <2>2
  <1>5. CASE GetNext
    BY <1>4, <1>5 DEF GetNext
  <1>6. CASE GetOne
    BY <1>4, <1>6 DEF GetOne
  <1>7. CASE Preview
    <2>1. Contents' = Contents /\ lost' = lost
      BY <1>7 DEF Preview, Contents
    <2>2. CASE tail = -1
      <3>1. Contents = <<>> /\ retdata' = Zero
        BY <1>7, <2>2, ContentsType DEF Preview
      <3>2. QED
        BY <2>1, <3>1 DEF Fifo!ReadEmpty, Fifo!Next
    <2>3. CASE tail # -1
      <3>1. tail \in Index /\ get_size \in 1 .. QueueSize
        BY <1>0, <2>3, SizeRange, QueueSizeAssumption DEF TypeOK, get_size
      <3>2. Contents # <<>> /\ Contents[1] = queue_p[Pos(tail, 1)]
        <4>1. 1 \in 1 .. get_size
          BY <3>1, QueueSizeAssumption
        <4>2. QED
          BY <2>3, <4>1, ContentsType
      <3>3. Pos(tail, 1) = tail
        BY <3>1, QueueSizeAssumption DEF Pos, Index
      <3>4. retdata' = Head(Contents)
        BY <1>7, <2>3, <3>2, <3>3, ContentsType DEF Preview
      <3>5. QED
        BY <2>1, <3>2, <3>4 DEF Fifo!Peek, Fifo!Next
    <2>4. QED
      BY <2>2, <2>3
  <1>8. CASE UNCHANGED vars
    BY <1>8 DEF vars, Contents
  <1>9. QED
    BY <1>1, <1>2, <1>3, <1>5, <1>6, <1>7, <1>8 DEF Next

\* The circular queue implements the bounded first-in first-out queue of
\* ByteFifo (CirQueue's RingIsFifo): whatever the size of the array, bytes
\* come out once and in the order they went in, and only an add to a full
\* queue discards any.
THEOREM RingImplementsFifo == Spec => RingIsFifo
  <1>1. Init => Fifo!Init
    <2> SUFFICES ASSUME Init PROVE Fifo!Init
      OBVIOUS
    <2>1. get_size = 0
      BY DEF Init, get_size, SizeOf
    <2>2. Contents = <<>>
      BY <2>1 DEF Contents, BytesIn, get_size
    <2>3. QED
      BY <2>2 DEF Init, Fifo!Init
  <1>2. TypeOK /\ TypeOK' /\ [Next]_vars => [Fifo!Next]_(Fifo!vars)
    BY StepImplements
  <1>3. QED
    BY <1>1, <1>2, TypeCorrect, PTL DEF Spec, RingIsFifo, Fifo!Spec

(***************************************************************************)
(* Flattened sequences.  FlattenSeq is defined along the sequence; what is  *)
(* needed of it is proved by least counterexamples.                        *)
(***************************************************************************)

\* A set of numbers that is not empty has a least one.
LEMMA LeastNumber ==
  ASSUME NEW T, T \subseteq Nat, T # {}
  PROVE  \E n \in T : \A m \in T : n <= m
<1> DEFINE R == {ss \in Nat \X Nat : ss[1] < ss[2]}
<1>1. IsWellFoundedOn(R, Nat)
  BY NatLessThanWellFounded, Zenon DEF OpToRel
<1> HIDE DEF R
<1>2. PICK n \in T : \A m \in T : ~(<<m, n>> \in R)
  BY <1>1, WFMin, Zenon
<1>3. ASSUME NEW m \in T PROVE n <= m
  <2>1. ~(<<m, n>> \in R) /\ m \in Nat /\ n \in Nat
    BY <1>2
  <2>2. ~(m < n)
    BY <2>1 DEF R
  <2> QED BY <2>1, <2>2
<1> QED BY <1>3

\* g[i] is what the first i sequences of s are together, as in FlattenSeq.
Joins(s, g, n) == \A i \in 1 .. n : g[i] = IF i = 1 THEN s[i] ELSE g[i - 1] \o s[i]

\* There is such a function for every n,
LEMMA JoinsExist ==
  ASSUME NEW B, NEW s \in Seq(Seq(B))
  PROVE  \A n \in 1 .. Len(s) : \E g \in [1 .. n -> Seq(B)] : Joins(s, g, n)
<1> DEFINE Good(n) == \E g \in [1 .. n -> Seq(B)] : Joins(s, g, n)
           T == {n \in 1 .. Len(s) : ~Good(n)}
<1> SUFFICES ASSUME T # {} PROVE FALSE
  OBVIOUS
<1>0. Len(s) \in Nat /\ \A i \in 1 .. Len(s) : s[i] \in Seq(B)
  BY LenProperties, ElementOfSeq
<1>1. T \subseteq Nat
  OBVIOUS
<1> HIDE DEF Good
<1>2. PICK n \in T : \A m \in T : n <= m
  BY <1>1, LeastNumber
<1>3. n \in 1 .. Len(s) /\ ~Good(n)
  OBVIOUS
<1>4. CASE n = 1
  <2> DEFINE g == [i \in 1 .. n |-> s[1]]
  <2>1. g \in [1 .. n -> Seq(B)] /\ Joins(s, g, n)
    BY <1>0, <1>3, <1>4 DEF Joins
  <2> QED BY <1>3, <2>1 DEF Good
<1>5. CASE n # 1
  <2>1. n - 1 \in 1 .. Len(s) /\ n - 1 \notin T
    BY <1>0, <1>1, <1>2, <1>3, <1>5
  <2>2. PICK g0 \in [1 .. n - 1 -> Seq(B)] : Joins(s, g0, n - 1)
    BY <2>1 DEF Good
  <2> DEFINE g == [i \in 1 .. n |-> IF i = n THEN g0[n - 1] \o s[n] ELSE g0[i]]
  <2>3. n \in Nat /\ n > 1 /\ g0[n - 1] \in Seq(B) /\ s[n] \in Seq(B)
    BY <1>0, <1>3, <1>5, <2>1
  <2>4. g0[n - 1] \o s[n] \in Seq(B)
    BY <2>3, ConcatProperties
  <2>5. g \in [1 .. n -> Seq(B)]
    BY <2>3, <2>4
  <2>6. ASSUME NEW i \in 1 .. n PROVE g[i] = IF i = 1 THEN s[i] ELSE g[i - 1] \o s[i]
    <3>1. CASE i = n
      <4>1. n \in 1 .. n /\ n - 1 \in 1 .. n /\ n - 1 # n /\ n # 1
        BY <2>3
      <4>2. g[n] = g0[n - 1] \o s[n] /\ g[n - 1] = g0[n - 1]
        BY <4>1
      <4> HIDE DEF g
      <4> QED BY <3>1, <4>1, <4>2
    <3>2. CASE i # n
      <4>1. i \in 1 .. n - 1 /\ (i # 1 => i - 1 \in 1 .. n - 1 /\ i - 1 \in 1 .. n /\ i - 1 # n)
        BY <2>3, <3>2
      <4>2. g[i] = g0[i] /\ (i # 1 => g[i - 1] = g0[i - 1])
        BY <3>2, <4>1
      <4> HIDE DEF g
      <4> QED BY <2>2, <4>1, <4>2 DEF Joins
    <3> QED BY <3>1, <3>2
  <2> HIDE DEF g
  <2> QED BY <1>3, <2>5, <2>6 DEF Good, Joins
<1> QED BY <1>4, <1>5

\* and only one;
JoinsAgree(s, t, g, h, n) ==
  Joins(s, g, n) /\ Joins(t, h, n) /\ (\A i \in 1 .. n : s[i] = t[i])
    => \A i \in 1 .. n : g[i] = h[i]

LEMMA JoinsSame == \A s, t, g, h : \A n \in Nat : JoinsAgree(s, t, g, h, n)
<1> SUFFICES ASSUME NEW s, NEW t, NEW g, NEW h, NEW n \in Nat,
                    Joins(s, g, n), Joins(t, h, n), \A i \in 1 .. n : s[i] = t[i]
             PROVE  \A i \in 1 .. n : g[i] = h[i]
  BY DEF JoinsAgree
<1> DEFINE T == {i \in 1 .. n : g[i] # h[i]}
<1> SUFFICES ASSUME T # {} PROVE FALSE
  OBVIOUS
<1>1. PICK i \in T : \A j \in T : i <= j
  <2>1. T \subseteq Nat
    OBVIOUS
  <2> QED BY <2>1, LeastNumber
<1>2. i \in 1 .. n /\ g[i] # h[i]
  OBVIOUS
<1>3. i # 1
  BY <1>2 DEF Joins
<1>4. i - 1 \in 1 .. n /\ i - 1 \notin T
  BY <1>1, <1>2, <1>3
<1>5. g[i - 1] = h[i - 1]
  BY <1>4
<1> QED BY <1>2, <1>3, <1>5 DEF Joins

\* so the one that FlattenSeq chooses is it.
LEMMA FlattenJoins ==
  ASSUME NEW B, NEW s \in Seq(Seq(B)), s # <<>>
  PROVE  \E g \in [1 .. Len(s) -> Seq(B)] : Joins(s, g, Len(s)) /\ FlattenSeq(s) = g[Len(s)]
<1> DEFINE n == Len(s)
           IsFlat(g) == g = [i \in 1 .. n |-> IF i = 1 THEN s[i] ELSE g[i - 1] \o s[i]]
           G == CHOOSE g : IsFlat(g)
<1>1. n \in Nat /\ n # 0 /\ n \in 1 .. n
  BY EmptySeq
<1>2. PICK h \in [1 .. n -> Seq(B)] : Joins(s, h, n)
  BY <1>1, JoinsExist
<1>3. IsFlat(h)
  BY <1>2 DEF Joins
<1>4. IsFlat(G)
  BY <1>3, Zenon
<1>5. FlattenSeq(s) = G[n]
  BY <1>1 DEF FlattenSeq
<1> HIDE DEF G
<1>6. Joins(s, G, n)
  BY <1>4 DEF Joins
<1>7. G[n] = h[n]
  <2>1. \A i \in 1 .. n : s[i] = s[i]
    OBVIOUS
  <2>2. JoinsAgree(s, s, G, h, n)
    BY <1>1, JoinsSame, Zenon
  <2> QED BY <1>1, <1>2, <1>6, <2>1, <2>2, Zenon DEF JoinsAgree
<1> QED BY <1>1, <1>2, <1>5, <1>7

LEMMA FlattenEmpty == FlattenSeq(<<>>) = <<>>
BY DEF FlattenSeq

LEMMA FlattenType ==
  ASSUME NEW B, NEW s \in Seq(Seq(B))
  PROVE  FlattenSeq(s) \in Seq(B)
<1>1. CASE s = <<>>
  BY <1>1, FlattenEmpty, EmptySeq
<1>2. CASE s # <<>>
  <2>1. PICK g \in [1 .. Len(s) -> Seq(B)] : FlattenSeq(s) = g[Len(s)]
    BY <1>2, FlattenJoins, Zenon
  <2>2. Len(s) \in Nat \ {0}
    BY <1>2, EmptySeq, Zenon
  <2>3. Len(s) \in 1 .. Len(s)
    BY <2>2
  <2> QED BY <2>1, <2>3
<1> QED BY <1>1, <1>2

LEMMA FlattenAppend ==
  ASSUME NEW B, NEW s \in Seq(Seq(B)), NEW f \in Seq(B)
  PROVE  FlattenSeq(Append(s, f)) = FlattenSeq(s) \o f
<1> SUFFICES ASSUME NEW t \in Seq(Seq(B)), t = Append(s, f)
             PROVE  FlattenSeq(t) = FlattenSeq(s) \o f
  BY AppendProperties
<1>0. PICK n \in Nat : n = Len(s)
  BY LenProperties
<1>1. n + 1 \in 1 .. n + 1 /\ (n + 1) - 1 = n
  OBVIOUS
<1>2. Len(t) = n + 1 /\ t[n + 1] = f /\ t # <<>> /\ \A i \in 1 .. n : t[i] = s[i]
  BY <1>0, AppendProperties
<1>3. s # <<>> => n # 0 /\ n \in 1 .. n
  BY <1>0, EmptySeq
<1>4. PICK h \in [1 .. n + 1 -> Seq(B)] : Joins(t, h, n + 1) /\ FlattenSeq(t) = h[n + 1]
  <2>1. \E h \in [1 .. Len(t) -> Seq(B)] : Joins(t, h, Len(t)) /\ FlattenSeq(t) = h[Len(t)]
    BY <1>2, FlattenJoins, Zenon
  <2> QED BY <1>2, <2>1, Zenon
<1>5. h[n + 1] = IF n + 1 = 1 THEN f ELSE h[n] \o f
  BY <1>1, <1>2, <1>4 DEF Joins
<1>6. CASE s = <<>>
  <2>1. n = 0 /\ FlattenSeq(s) = <<>>
    BY <1>0, <1>6, FlattenEmpty, EmptySeq
  <2> QED BY <1>4, <1>5, <2>1, ConcatEmptySeq
<1>7. CASE s # <<>>
  <2>1. PICK g \in [1 .. n -> Seq(B)] : Joins(s, g, n) /\ FlattenSeq(s) = g[n]
    BY <1>0, <1>7, FlattenJoins, Zenon
  <2>2. Joins(t, h, n)
    <3>1. \A i \in 1 .. n : i \in 1 .. n + 1
      BY <1>1
    <3> QED BY <1>4, <3>1 DEF Joins
  <2>3. \A i \in 1 .. n : g[i] = h[i]
    <3>1. \A i \in 1 .. n : s[i] = t[i]
      BY <1>2
    <3>2. JoinsAgree(s, t, g, h, n)
      BY JoinsSame, Zenon
    <3> QED BY <2>1, <2>2, <3>1, <3>2, Zenon DEF JoinsAgree
  <2>4. n + 1 # 1 /\ g[n] = h[n]
    BY <1>1, <1>3, <1>7, <2>3
  <2> QED BY <1>4, <1>5, <2>1, <2>4
<1> QED BY <1>6, <1>7

JoinsAnyWay(B) == \A x, y, z \in Seq(B) : (x \o y) \o z = x \o (y \o z)

LEMMA JoinThree == \A B : JoinsAnyWay(B)
BY ConcatAssociative, SMT DEF JoinsAnyWay

LEMMA FlattenHead ==
  ASSUME NEW B, NEW s \in Seq(Seq(B)), s # <<>>
  PROVE  FlattenSeq(s) = Head(s) \o FlattenSeq(Tail(s))
<1>0. /\ Head(s) \in Seq(B) /\ Tail(s) \in Seq(Seq(B)) /\ Len(Tail(s)) = Len(s) - 1
      /\ Head(s) = s[1] /\ Len(s) \in Nat
      /\ \A i \in 1 .. Len(Tail(s)) : Tail(s)[i] = s[i + 1]
  <2>1. Head(s) = s[1]
    OBVIOUS
  <2> QED BY <2>1, HeadTailProperties, LenProperties
<1> SUFFICES ASSUME NEW t \in Seq(Seq(B)), NEW f \in Seq(B), t = Tail(s), f = Head(s)
             PROVE  FlattenSeq(s) = f \o FlattenSeq(t)
  BY <1>0
<1>7. PICK m \in Nat : m = Len(t)
  BY LenProperties
<1>1. Len(s) = m + 1 /\ f = s[1] /\ \A i \in 1 .. m : t[i] = s[i + 1]
  <2>1. Len(t) = Len(s) - 1 /\ Len(s) \in Nat /\ f = s[1]
    BY <1>0
  <2>2. Len(s) = m + 1
    BY <1>7, <2>1
  <2>3. \A i \in 1 .. Len(t) : t[i] = s[i + 1]
    BY <1>0, Zenon
  <2>4. ASSUME NEW i \in 1 .. m PROVE t[i] = s[i + 1]
    <3>1. i \in 1 .. Len(t)
      BY <1>7
    <3> QED BY <2>3, <3>1, Zenon
  <2> QED BY <2>1, <2>2, <2>4, Zenon
<1>2. t # <<>> => m # 0 /\ m \in 1 .. m
  <2>1. t # <<>> => m # 0
    BY <1>7, EmptySeq, Zenon
  <2> QED BY <2>1
<1>3. PICK g \in [1 .. m + 1 -> Seq(B)] : Joins(s, g, m + 1) /\ FlattenSeq(s) = g[m + 1]
  <2>1. \E g \in [1 .. Len(s) -> Seq(B)] : Joins(s, g, Len(s)) /\ FlattenSeq(s) = g[Len(s)]
    BY FlattenJoins, Zenon
  <2> QED BY <1>1, <2>1, Zenon
<1>4. g[1] = f
  <2>1. 1 \in 1 .. m + 1
    BY <1>1
  <2> QED BY <1>1, <1>3, <2>1 DEF Joins
<1>5. CASE t = <<>>
  <2>1. m = 0 /\ FlattenSeq(t) = <<>>
    BY <1>7, <1>5, FlattenEmpty, EmptySeq
  <2>2. FlattenSeq(s) = f /\ f \o <<>> = f
    BY <1>3, <1>4, <2>1, ConcatEmptySeq
  <2> QED BY <2>1, <2>2
<1>6. CASE t # <<>>
  <2>1. PICK h \in [1 .. m -> Seq(B)] : Joins(t, h, m) /\ FlattenSeq(t) = h[m]
    BY <1>7, <1>6, FlattenJoins, Zenon
  <2> DEFINE T == {i \in 1 .. m : g[i + 1] # f \o h[i]}
  <2>2. T = {}
    <3> SUFFICES ASSUME T # {} PROVE FALSE
      OBVIOUS
    <3>1. PICK i \in T : \A j \in T : i <= j
      <4>1. T \subseteq Nat
        BY <1>1
      <4> QED BY <4>1, LeastNumber
    <3>2. i \in 1 .. m /\ g[i + 1] # f \o h[i]
      OBVIOUS
    <3>3. i + 1 \in 1 .. m + 1 /\ i + 1 # 1 /\ (i + 1) - 1 = i /\ t[i] = s[i + 1]
      <4>1. i + 1 \in 1 .. m + 1 /\ i + 1 # 1 /\ (i + 1) - 1 = i
        BY <3>2
      <4>2. t[i] = s[i + 1]
        BY <1>1, <3>2, Zenon
      <4> QED BY <4>1, <4>2
    <3>4. g[i + 1] = g[i] \o t[i]
      BY <1>3, <3>3 DEF Joins
    <3>5. CASE i = 1
      <4>1. h[1] = t[1]
        BY <2>1, <3>2, <3>5 DEF Joins
      <4> QED BY <1>4, <3>2, <3>4, <3>5, <4>1
    <3>6. CASE i # 1
      <4>1. i - 1 \in 1 .. m /\ (i - 1) + 1 = i /\ ~(i <= i - 1)
        BY <1>1, <3>2, <3>6
      <4>2. g[i] = f \o h[i - 1]
        <5>1. i - 1 \notin T
          BY <3>1, <4>1
        <5> QED BY <4>1, <5>1
      <4> HIDE DEF T
      <4>3. h[i] = h[i - 1] \o t[i]
        BY <2>1, <3>2, <3>6 DEF Joins
      <4>4. h[i - 1] \in Seq(B) /\ t[i] \in Seq(B)
        BY <1>7, <2>1, <3>2, <4>1, ElementOfSeq
      <4>5. (f \o h[i - 1]) \o t[i] = f \o (h[i - 1] \o t[i])
        <5>1. JoinsAnyWay(B)
          BY JoinThree, Zenon
        <5> QED BY <4>4, <5>1, Zenon DEF JoinsAnyWay
      <4> QED BY <3>2, <3>4, <4>2, <4>3, <4>5
    <3> QED BY <3>5, <3>6
  <2>3. g[m + 1] = f \o h[m]
    BY <1>2, <1>6, <2>2
  <2> QED BY <1>3, <2>1, <2>3
<1> QED BY <1>5, <1>6

(***************************************************************************)
(* The channel: types.                                                     *)
(***************************************************************************)

\* While the writer's loop runs it is at a byte of its frame.
Storing == w_pc \in {"store", "test", "first", "move"}
AtAByte == Storing => w_frame \in Frame /\ w_pos \in 1 .. Len(w_frame)

ChannelTypes == ChannelTypeOK /\ AtAByte

LEMMA FrameIsBytes ==
  ASSUME NEW f \in Frame
  PROVE  /\ f \in Seq(Byte) /\ f # <<>> /\ Len(f) \in Nat \ {0}
         /\ f[1] \in Nat /\ Len(f) = FrameSize(f[1])
<1>1. f \in Seq(Byte) /\ f # <<>> /\ Len(f) = f[1] + Header
  BY FrameAssumption
<1>2. Len(f) \in Nat \ {0}
  BY <1>1, EmptySeq
<1>3. f[1] \in Byte
  <2>1. 1 \in 1 .. Len(f)
    BY <1>2
  <2> QED BY <1>1, <2>1, ElementOfSeq
<1> QED BY <1>1, <1>2, <1>3, ByteAssumption DEF FrameSize

LEMMA SizeIsNat ==
  ASSUME ChannelTypeOK
  PROVE  get_size \in Nat
BY QueueSizeAssumption DEF ChannelTypeOK, Index, get_size, SizeOf

LEMMA WriteTypes ==
  ASSUME ChannelTypes, Write, UNCHANGED reader_first
  PROVE  ChannelTypes'
<1> USE DEF ChannelTypes, ChannelTypeOK, AtAByte, Storing
<1>1. CASE \E f \in Frame : WriteFrame(f)
  <2>1. PICK f \in Frame : WriteFrame(f)
    BY <1>1
  <2>2. Len(f) \in Nat \ {0}
    BY FrameIsBytes
  <2> QED BY <2>1, <2>2 DEF WriteFrame, ring, reader, history
<1>2. CASE Store
  <2>1. w_frame \in Frame /\ w_pos \in 1 .. Len(w_frame)
    BY <1>2 DEF Store
  <2>2. w_frame[w_pos] \in Byte
    BY <2>1, FrameIsBytes, ElementOfSeq
  <2>3. queue_p' \in [Index -> Byte]
    BY <1>2, <2>2 DEF Store
  <2> QED BY <1>2, <2>1, <2>3 DEF Store, reader
<1>3. CASE TestEmpty
  BY <1>3 DEF TestEmpty, ring, reader, history
<1>4. CASE SetTail
  BY <1>4 DEF SetTail, Oldest, reader, history
<1>5. CASE MoveHead
  <2>1. w_frame \in Frame /\ w_pos \in 1 .. Len(w_frame) /\ Len(w_frame) \in Nat
    BY <1>5, FrameIsBytes DEF MoveHead
  <2>2. head' \in Index /\ held' \in 0 .. QueueSize
    BY <1>5, AdvanceIndex, QueueSizeAssumption DEF MoveHead
  <2>3. pending' \in Seq(Frame)
    <3>1. Append(pending, w_frame) \in Seq(Frame) /\ <<>> \in Seq(Frame)
      BY <2>1, AppendProperties, EmptySeq
    <3> QED BY <1>5, <3>1 DEF MoveHead
  <2>4. /\ w_pc' \in {"store", "send"} /\ w_frame' = w_frame
        /\ w_pos' \in Nat \ {0}
        /\ w_pc' = "store" => w_pos' \in 1 .. Len(w_frame)
    BY <1>5, <2>1 DEF MoveHead
  <2> QED BY <1>5, <2>1, <2>2, <2>3, <2>4 DEF MoveHead, reader
<1>6. CASE SendMsg
  <2>1. msgs' \in 0 .. MsgSlots /\ dropped' \in Nat
    BY <1>6, SizeAssumption DEF SendMsg
  <2> QED BY <1>6, <2>1 DEF SendMsg, ring
<1> QED BY <1>1, <1>2, <1>3, <1>4, <1>5, <1>6 DEF Write

LEMMA ReadTypes ==
  ASSUME ChannelTypes, Read, UNCHANGED reader_first
  PROVE  ChannelTypes'
<1> USE DEF ChannelTypes, ChannelTypeOK, AtAByte, Storing
<1>1. CASE Receive
  <2>1. msgs' \in 0 .. MsgSlots
    BY <1>1, SizeAssumption DEF Receive
  <2> QED BY <1>1, <2>1 DEF Receive, ring, writer, history
<1>2. CASE PreviewSize
  <2>1. r_need' \in Nat
    <3>1. (IF tail = -1 THEN 0 ELSE queue_p[tail]) \in Nat
      BY ByteAssumption
    <3> QED BY <1>2, <3>1, SizeAssumption DEF PreviewSize, FrameSize
  <2> QED BY <1>2, <2>1 DEF PreviewSize, ring, writer, history
<1>3. CASE Refuse
  BY <1>3 DEF Refuse, ring, writer, history
<1>4. CASE Accept
  BY <1>4 DEF Accept, ring, writer, history
<1>5. CASE Count
  <2>1. r_left' \in Nat /\ gff_frame' \in Seq(Byte)
    BY <1>5, SizeIsNat, EmptySeq DEF Count
  <2> QED BY <1>5, <2>1 DEF Count, ring, writer, history
<1>6. CASE TakeNothing
  <2>1. r_left' \in Nat /\ gff_frame' \in Seq(Byte)
    BY <1>6, AppendProperties, ByteAssumption DEF TakeNothing
  <2> QED BY <1>6, <2>1 DEF TakeNothing, ring, writer, history
<1>7. CASE Take
  <2>1. tail \in Index /\ queue_p[tail] \in Byte
    BY <1>7 DEF Take
  <2>2. r_left' \in Nat /\ tail' \in Index /\ held' \in 0 .. QueueSize
    BY <1>7, <2>1, AdvanceIndex, QueueSizeAssumption DEF Take
  <2>3. gff_frame' \in Seq(Byte)
    BY <1>7, <2>1, AppendProperties DEF Take
  <2> QED BY <1>7, <2>2, <2>3 DEF Take, writer
<1>8. CASE TestLast
  BY <1>8 DEF TestLast, ring, writer, history
<1>9. CASE MarkEmpty
  BY <1>9 DEF MarkEmpty, writer
<1>10. CASE HandOn
  <2>1. pending' \in Seq(Frame)
    BY <1>10, HeadTailProperties, EmptySeq DEF HandOn
  <2> QED BY <1>10, <2>1 DEF HandOn, ring, writer
<1>11. CASE Wake
  BY <1>11 DEF Wake, ring, writer, history
<1> QED BY <1>1, <1>2, <1>3, <1>4, <1>5, <1>6, <1>7, <1>8, <1>9, <1>10, <1>11 DEF Read

LEMMA InitTypes == ChannelInit => ChannelTypes
<1> SUFFICES ASSUME ChannelInit PROVE ChannelTypes
  OBVIOUS
<1>1. <<>> \in Seq(Byte) /\ <<>> \in Seq(Frame)
  BY EmptySeq
<1>2. 0 \in Index /\ queue_p \in [Index -> Byte]
  BY QueueSizeAssumption, ByteAssumption DEF ChannelInit, Index
<1>3. 0 \in 0 .. MsgSlots /\ 0 \in 0 .. QueueSize
  BY SizeAssumption, QueueSizeAssumption
<1> QED BY <1>1, <1>2, <1>3 DEF ChannelInit, ChannelTypes, ChannelTypeOK, AtAByte, Storing

LEMMA StepTypes ==
  ASSUME ChannelTypes, [ChannelNext]_ChannelVars
  PROVE  ChannelTypes'
<1>1. CASE ChannelNext
  BY <1>1, WriteTypes, ReadTypes DEF ChannelNext
<1>2. CASE UNCHANGED ChannelVars
  BY <1>2 DEF ChannelVars, ChannelTypes, ChannelTypeOK, AtAByte, Storing
<1> QED BY <1>1, <1>2

(***************************************************************************)
(* Joining sequences.                                                      *)
(***************************************************************************)

LEMMA JoinAppend ==
  ASSUME NEW B, NEW s \in Seq(B), NEW t \in Seq(B), NEW e \in B
  PROVE  s \o Append(t, e) = Append(s \o t, e)
<1>1. s \o t \in Seq(B) /\ <<e>> \in Seq(B)
  BY ConcatProperties
<1>2. Append(t, e) = t \o <<e>> /\ Append(s \o t, e) = (s \o t) \o <<e>>
  BY <1>1, AppendIsConcat
<1>3. (s \o t) \o <<e>> = s \o (t \o <<e>>)
  <2>1. JoinsAnyWay(B)
    BY JoinThree, Zenon
  <2> QED BY <1>1, <2>1, Zenon DEF JoinsAnyWay
<1> QED BY <1>2, <1>3, Zenon

LEMMA JoinBetween ==
  ASSUME NEW B, NEW s \in Seq(B), NEW t \in Seq(B), NEW e \in B
  PROVE  s \o (<<e>> \o t) = Append(s, e) \o t
<1>1. <<e>> \in Seq(B)
  OBVIOUS
<1>2. Append(s, e) = s \o <<e>>
  BY AppendIsConcat
<1>3. (s \o <<e>>) \o t = s \o (<<e>> \o t)
  <2>1. JoinsAnyWay(B)
    BY JoinThree, Zenon
  <2> QED BY <1>1, <2>1, Zenon DEF JoinsAnyWay
<1> QED BY <1>2, <1>3, Zenon

\* Two sequences that are the same once joined and start with parts as long.
LEMMA SameStart ==
  ASSUME NEW B, NEW s \in Seq(B), NEW t \in Seq(B), NEW k \in Seq(B), NEW b \in Seq(B),
         s \o t = k \o b, Len(s) = Len(k)
  PROVE  s = k /\ t = b
<1>1. PICK n \in Nat : n = Len(s)
  BY LenProperties
<1>2. ASSUME NEW i \in 1 .. n PROVE s[i] = k[i]
  <2>1. /\ i \in 1 .. Len(s) + Len(t) /\ i \in 1 .. Len(k) + Len(b)
        /\ i <= Len(s) /\ i <= Len(k)
    BY <1>1, LenProperties
  <2>2. (s \o t)[i] = s[i] /\ (k \o b)[i] = k[i]
    BY <2>1, ConcatProperties
  <2> QED BY <2>2
<1>3. s = k
  BY <1>1, <1>2, SeqEqual
<1> QED BY <1>3, ConcatSimplifications

\* The start of a sequence.
LEMMA StartOf ==
  ASSUME NEW B, NEW s \in Seq(B), NEW t \in Seq(B), s # <<>>
  PROVE  /\ Len(s) \in Nat \ {0} /\ Len(s \o t) \in Nat
         /\ Len(s) <= Len(s \o t) /\ (s \o t)[1] = s[1]
<1>1. Len(s) \in Nat \ {0} /\ Len(t) \in Nat
  BY EmptySeq, LenProperties
<1>2. 1 \in 1 .. Len(s) + Len(t) /\ 1 <= Len(s)
  BY <1>1
<1> QED BY <1>1, <1>2, ConcatProperties

(***************************************************************************)
(* The bytes below head.                                                   *)
(***************************************************************************)

\* The position n below h, and the n bytes of array p that end there.
Back(h, n) == IF h >= n THEN h - n ELSE h + QueueSize - n
LastBytes(p, h, n) == [i \in 1 .. n |-> p[Back(h, n + 1 - i)]]

\* HeldBytes and Below are these, for the ring as it is.
LEMMA HeldAreLast ==
  /\ HeldBytes = LastBytes(queue_p, head, held)
  /\ \A n : Below(n) = Back(head, n)
BY DEF HeldBytes, LastBytes, Below, Back

LEMMA BackInRing ==
  ASSUME NEW h \in Index, NEW n \in 1 .. QueueSize
  PROVE  /\ Back(h, n) \in Index
         /\ n < QueueSize => Back(h, n) # h
         /\ n < QueueSize => Back(Advance(h), n + 1) = Back(h, n)
         /\ Advance(Back(h, n)) = IF n = 1 THEN h ELSE Back(h, n - 1)
         /\ SizeOf(h, Back(h, n)) = n
BY QueueSizeAssumption DEF Index, Back, Advance, SizeOf

LEMMA BackOne ==
  ASSUME NEW h \in Index
  PROVE  Back(Advance(h), 1) = h
BY QueueSizeAssumption DEF Index, Back, Advance

LEMMA LastBytesType ==
  ASSUME NEW p \in [Index -> Byte], NEW h \in Index, NEW n \in 0 .. QueueSize
  PROVE  /\ LastBytes(p, h, n) \in Seq(Byte)
         /\ Len(LastBytes(p, h, n)) = n
         /\ \A i \in 1 .. n : LastBytes(p, h, n)[i] = p[Back(h, n + 1 - i)]
<1>1. ASSUME NEW i \in 1 .. n PROVE p[Back(h, n + 1 - i)] \in Byte
  <2>1. n + 1 - i \in 1 .. QueueSize
    BY QueueSizeAssumption
  <2> QED BY <2>1, BackInRing
<1>2. LastBytes(p, h, n) \in [1 .. n -> Byte]
  BY <1>1 DEF LastBytes
<1>3. n \in Nat
  BY QueueSizeAssumption
<1>4. LastBytes(p, h, n) \in Seq(Byte) /\ Len(LastBytes(p, h, n)) = n
  BY <1>2, <1>3
<1> QED BY <1>4 DEF LastBytes

\* A byte written at head while the ring has room leaves the held ones alone.
LEMMA LastAfterStore ==
  ASSUME NEW p \in [Index -> Byte], NEW h \in Index, NEW n \in 0 .. QueueSize - 1,
         NEW b \in Byte
  PROVE  LastBytes([p EXCEPT ![h] = b], h, n) = LastBytes(p, h, n)
<1>1. ASSUME NEW i \in 1 .. n PROVE [p EXCEPT ![h] = b][Back(h, n + 1 - i)] = p[Back(h, n + 1 - i)]
  <2>1. n + 1 - i \in 1 .. QueueSize - 1
    BY QueueSizeAssumption
  <2>2. Back(h, n + 1 - i) \in Index /\ Back(h, n + 1 - i) # h
    BY <2>1, BackInRing, QueueSizeAssumption
  <2> QED BY <2>2
<1> QED BY <1>1 DEF LastBytes

\* The byte at head is the youngest as soon as head moves.
LEMMA LastAfterMove ==
  ASSUME NEW p \in [Index -> Byte], NEW h \in Index, NEW n \in 0 .. QueueSize - 1
  PROVE  LastBytes(p, Advance(h), n + 1) = Append(LastBytes(p, h, n), p[h])
<1>1. Advance(h) \in Index /\ n \in Nat /\ n \in 0 .. QueueSize /\ n + 1 \in 0 .. QueueSize
  BY AdvanceIndex, QueueSizeAssumption
<1> DEFINE s == LastBytes(p, Advance(h), n + 1)
           t == Append(LastBytes(p, h, n), p[h])
<1>2. s \in Seq(Byte) /\ Len(s) = n + 1
  BY <1>1, LastBytesType
<1>3. /\ LastBytes(p, h, n) \in Seq(Byte) /\ Len(LastBytes(p, h, n)) = n /\ p[h] \in Byte
      /\ \A i \in 1 .. n : LastBytes(p, h, n)[i] = p[Back(h, n + 1 - i)]
  BY <1>1, LastBytesType
<1>4. t \in Seq(Byte) /\ Len(t) = n + 1 /\ t[n + 1] = p[h]
      /\ \A i \in 1 .. n : t[i] = LastBytes(p, h, n)[i]
  BY <1>3, AppendProperties
<1>5. ASSUME NEW i \in 1 .. n + 1 PROVE s[i] = t[i]
  <2>1. s[i] = p[Back(Advance(h), n + 2 - i)]
    BY <1>1 DEF LastBytes
  <2> HIDE DEF s, t
  <2>2. CASE i = n + 1
    <3>1. n + 2 - i = 1
      BY <1>1, <2>2
    <3> QED BY <1>4, <2>1, <2>2, <3>1, BackOne
  <2>3. CASE i # n + 1
    <3>1. PICK k \in 1 .. QueueSize - 1 : k = n + 1 - i /\ i \in 1 .. n /\ n + 2 - i = k + 1
      <4>1. /\ n + 1 - i \in 1 .. QueueSize - 1 /\ i \in 1 .. n
            /\ n + 2 - i = (n + 1 - i) + 1
        BY <1>1, <2>3, QueueSizeAssumption
      <4> QED BY <4>1
    <3>2. Back(Advance(h), k + 1) = Back(h, k)
      BY BackInRing, QueueSizeAssumption
    <3> QED BY <1>3, <1>4, <2>1, <3>1, <3>2
  <2> QED BY <2>2, <2>3
<1> HIDE DEF s, t
<1>6. s = t
  BY <1>2, <1>4, <1>5, SeqEqual
<1> QED BY <1>6 DEF s, t

\* The oldest byte comes first.
LEMMA LastAfterTake ==
  ASSUME NEW p \in [Index -> Byte], NEW h \in Index, NEW n \in 1 .. QueueSize
  PROVE  LastBytes(p, h, n) = <<p[Back(h, n)]>> \o LastBytes(p, h, n - 1)
<1>1. n - 1 \in Nat /\ n \in Nat /\ n \in 0 .. QueueSize /\ n - 1 \in 0 .. QueueSize
  BY QueueSizeAssumption
<1>2. PICK b \in Byte : b = p[Back(h, n)]
  BY BackInRing
<1> DEFINE s == LastBytes(p, h, n)
           r == LastBytes(p, h, n - 1)
           t == <<b>> \o r
<1>3. /\ s \in Seq(Byte) /\ Len(s) = n
      /\ \A i \in 1 .. n : s[i] = p[Back(h, n + 1 - i)]
  BY <1>1, LastBytesType
<1>4. /\ r \in Seq(Byte) /\ Len(r) = n - 1
      /\ \A i \in 1 .. n - 1 : r[i] = p[Back(h, n - 1 + 1 - i)]
  BY <1>1, LastBytesType
<1>5. /\ t \in Seq(Byte) /\ Len(t) = n
      /\ \A i \in 1 .. n : t[i] = IF i <= 1 THEN b ELSE r[i - 1]
  <2>1. <<b>> \in Seq(Byte) /\ Len(<<b>>) = 1 /\ <<b>>[1] = b
    OBVIOUS
  <2> HIDE DEF r
  <2>2. /\ <<b>> \o r \in Seq(Byte) /\ Len(<<b>> \o r) = 1 + (n - 1)
        /\ \A i \in 1 .. 1 + (n - 1) : (<<b>> \o r)[i] = IF i <= 1 THEN <<b>>[i] ELSE r[i - 1]
    BY <1>4, <2>1, ConcatProperties
  <2>3. 1 + (n - 1) = n
    BY <1>1
  <2> QED BY <2>1, <2>2, <2>3
<1> HIDE DEF s, r, t
<1>6. ASSUME NEW i \in 1 .. n PROVE s[i] = t[i]
  <2>1. CASE i = 1
    <3>1. n + 1 - i = n
      BY <1>1, <2>1
    <3> QED BY <1>2, <1>3, <1>5, <2>1, <3>1
  <2>2. CASE i # 1
    <3>1. i - 1 \in 1 .. n - 1 /\ ~(i <= 1) /\ n - 1 + 1 - (i - 1) = n + 1 - i
      BY <1>1, <2>2
    <3>2. r[i - 1] = p[Back(h, n + 1 - i)]
      BY <1>4, <3>1
    <3> QED BY <1>3, <1>5, <3>1, <3>2
  <2> QED BY <2>1, <2>2
<1>7. s = t
  BY <1>3, <1>5, <1>6, SeqEqual
<1> QED BY <1>2, <1>7 DEF s, r, t

(***************************************************************************)
(* The invariant of the channel.                                           *)
(***************************************************************************)

\* tail leads to the oldest byte; in an empty ring it is unset or at head.
TailInv ==
  /\ held > 0 => tail = Below(held)
  /\ held = 0 => tail \in {-1, head}
  /\ w_pc = "first" => tail = -1

\* The byte being added is at head, which no held byte is at.
AddInv ==
  w_pc \in {"test", "first", "move"} => held < QueueSize /\ queue_p[head] = w_frame[w_pos]

\* The reader knows the size of the oldest frame, then takes just that many bytes.
TakeInv ==
  /\ r_pc \in {"check", "count"} => pending # <<>> /\ r_need = Len(Head(pending))
  /\ r_pc \in {"take", "test", "mark"} =>
       pending # <<>> /\ Len(gff_frame) + r_left = Len(Head(pending))

\* What the frames and the part of one being added come to, and what is taken and held.
Added == FlattenSeq(pending) \o Adding
SameBytes == Added = Taken \o HeldBytes

FrameCount == Len(pending) = Announced + dropped

ChannelParts == TailInv /\ AddInv /\ TakeInv /\ SameBytes /\ FrameCount
ChannelInv == ChannelTypes /\ (~Broken => ChannelParts)

\* Everything that is joined is a sequence of bytes.
LEMMA BytesTypes ==
  ASSUME ChannelTypes
  PROVE  /\ FlattenSeq(pending) \in Seq(Byte) /\ Adding \in Seq(Byte)
         /\ Taken \in Seq(Byte) /\ Len(Taken) \in Nat
         /\ HeldBytes \in Seq(Byte) /\ Len(HeldBytes) = held /\ held \in 0 .. QueueSize
         /\ Added \in Seq(Byte)
<1>1. pending \in Seq(Seq(Byte))
  <2>1. Frame \subseteq Seq(Byte)
    BY FrameIsBytes
  <2> QED BY <2>1, SeqMonotonic DEF ChannelTypes, ChannelTypeOK
<1>2. FlattenSeq(pending) \in Seq(Byte)
  BY <1>1, FlattenType
<1>3. Adding \in Seq(Byte)
  <2>1. CASE Storing
    <3>1. w_frame \in Seq(Byte) /\ w_pos \in 1 .. Len(w_frame) /\ Len(w_frame) \in Nat
      BY <2>1, FrameIsBytes DEF ChannelTypes, AtAByte
    <3>2. \A i \in 1 .. w_pos - 1 : w_frame[i] \in Byte
      BY <3>1, ElementOfSeq
    <3>3. w_pos - 1 \in Int /\ 1 \in Int
      BY <3>1
    <3>4. SubSeq(w_frame, 1, w_pos - 1) \in Seq(Byte)
      BY <3>2, <3>3, SubSeqProperties
    <3> QED BY <2>1, <3>4 DEF Adding, Storing
  <2>2. CASE ~Storing
    BY <2>2, EmptySeq DEF Adding, Storing
  <2> QED BY <2>1, <2>2
<1>4. Taken \in Seq(Byte) /\ Len(Taken) \in Nat
  BY EmptySeq, LenProperties DEF Taken, ChannelTypes, ChannelTypeOK
<1>5. HeldBytes \in Seq(Byte) /\ Len(HeldBytes) = held
  BY HeldAreLast, LastBytesType DEF ChannelTypes, ChannelTypeOK
<1> QED BY <1>2, <1>3, <1>4, <1>5, ConcatProperties DEF Added, ChannelTypes, ChannelTypeOK

\* The oldest frame is the start of what was added.
LEMMA OldestFrame ==
  ASSUME ChannelTypes, pending # <<>>
  PROVE  /\ Head(pending) \in Frame /\ Tail(pending) \in Seq(Frame)
         /\ FlattenSeq(Tail(pending)) \o Adding \in Seq(Byte)
         /\ Added = Head(pending) \o (FlattenSeq(Tail(pending)) \o Adding)
<1>1. Head(pending) \in Frame /\ Tail(pending) \in Seq(Frame)
  BY HeadTailProperties DEF ChannelTypes, ChannelTypeOK
<1>2. pending \in Seq(Seq(Byte)) /\ Tail(pending) \in Seq(Seq(Byte)) /\ Head(pending) \in Seq(Byte)
  <2>1. Frame \subseteq Seq(Byte)
    BY FrameIsBytes
  <2> QED BY <1>1, <2>1, SeqMonotonic DEF ChannelTypes, ChannelTypeOK
<1>3. FlattenSeq(pending) = Head(pending) \o FlattenSeq(Tail(pending))
  BY <1>2, FlattenHead
<1>4. PICK f \in Seq(Byte), r \in Seq(Byte), a \in Seq(Byte) :
        f = Head(pending) /\ r = FlattenSeq(Tail(pending)) /\ a = Adding
  BY <1>2, FlattenType, BytesTypes
<1>5. (f \o r) \o a = f \o (r \o a)
  <2>1. JoinsAnyWay(Byte)
    BY JoinThree, Zenon
  <2> QED BY <2>1, Zenon DEF JoinsAnyWay
<1>6. r \o a \in Seq(Byte)
  BY ConcatProperties
<1> QED BY <1>1, <1>3, <1>4, <1>5, <1>6 DEF Added

\* There are at least as many bytes as the oldest frame has left, and a held one is there.
LEMMA EnoughHeld ==
  ASSUME ChannelTypes, SameBytes, pending # <<>>
  PROVE  /\ Len(Head(pending)) \in Nat \ {0}
         /\ Len(Head(pending)) <= Len(Taken) + held
<1>1. /\ Head(pending) \in Seq(Byte) /\ Head(pending) # <<>>
      /\ FlattenSeq(Tail(pending)) \o Adding \in Seq(Byte)
      /\ Added = Head(pending) \o (FlattenSeq(Tail(pending)) \o Adding)
  BY OldestFrame, FrameIsBytes
<1>2. Len(Head(pending)) \in Nat \ {0} /\ Len(Head(pending)) <= Len(Added)
  BY <1>1, StartOf
<1>3. Len(Added) = Len(Taken) + held
  BY BytesTypes, ConcatProperties DEF SameBytes
<1> QED BY <1>2, <1>3

\* A held byte is where tail is, and get_size counts them.
LEMMA HeldAreCounted ==
  ASSUME ChannelTypes, TailInv, held > 0
  PROVE  /\ held \in 1 .. QueueSize
         /\ tail \in Index /\ tail # -1 /\ tail = Back(head, held)
         /\ get_size = held
<1>1. held \in 1 .. QueueSize /\ head \in Index
  BY QueueSizeAssumption DEF ChannelTypes, ChannelTypeOK
<1>2. tail = Back(head, held)
  BY HeldAreLast DEF TailInv
<1>3. tail \in Index /\ get_size = held
  BY <1>1, <1>2, BackInRing DEF get_size
<1> QED BY <1>1, <1>2, <1>3 DEF Index

(***************************************************************************)
(* What the writer does.                                                   *)
(***************************************************************************)

LEMMA BeginKeeps ==
  ASSUME ChannelTypes, ChannelParts, NEW f \in Frame, WriteFrame(f)
  PROVE  ChannelParts'
<1>1. TailInv'
  BY DEF ChannelParts, TailInv, Below, WriteFrame, ring, history
<1>2. AddInv'
  BY DEF AddInv, WriteFrame
<1>3. TakeInv'
  BY DEF ChannelParts, TakeInv, WriteFrame, reader, history
<1>4. SameBytes'
  <2>1. HeldBytes' = HeldBytes /\ Taken' = Taken /\ pending' = pending
    BY DEF WriteFrame, HeldBytes, Below, Taken, ring, reader, history
  <2>2. SubSeq(f, 1, 1 - 1) = <<>>
    BY SubSeqEmpty
  <2>3. Adding' = <<>> /\ Adding = <<>>
    BY <2>2 DEF Adding, WriteFrame
  <2> QED BY <2>1, <2>3 DEF ChannelParts, SameBytes, Added
<1>5. FrameCount'
  BY DEF ChannelParts, FrameCount, Announced, WriteFrame, reader, history
<1> QED BY <1>1, <1>2, <1>3, <1>4, <1>5 DEF ChannelParts

LEMMA StoreKeeps ==
  ASSUME ChannelTypes, ChannelParts, Store, ~overrun'
  PROVE  ChannelParts'
<1>1. held \in 0 .. QueueSize - 1
  <2>1. held # QueueSize
    BY Zenon DEF Store
  <2> QED BY <2>1, QueueSizeAssumption DEF ChannelTypes, ChannelTypeOK
<1>2. TailInv'
  BY DEF ChannelParts, TailInv, Below, Store
<1>3. AddInv'
  BY <1>1, QueueSizeAssumption DEF AddInv, Store, ChannelTypes, ChannelTypeOK
<1>4. TakeInv'
  BY DEF ChannelParts, TakeInv, Store, reader
<1>5. SameBytes'
  <2>1. w_frame[w_pos] \in Byte
    <3>1. w_frame \in Frame /\ w_pos \in 1 .. Len(w_frame)
      BY DEF Store, ChannelTypes, AtAByte, Storing
    <3> QED BY <3>1, FrameIsBytes, ElementOfSeq
  <2>2. HeldBytes' = LastBytes([queue_p EXCEPT ![head] = w_frame[w_pos]], head, held)
    BY DEF Store, HeldBytes, Below, LastBytes, Back
  <2>3. HeldBytes' = HeldBytes
    BY <1>1, <2>1, <2>2, LastAfterStore, HeldAreLast DEF ChannelTypes, ChannelTypeOK
  <2>4. Taken' = Taken /\ Adding' = Adding /\ pending' = pending
    BY DEF Store, Taken, Adding, reader
  <2> QED BY <2>3, <2>4 DEF ChannelParts, SameBytes, Added
<1>6. FrameCount'
  BY DEF ChannelParts, FrameCount, Announced, Store, reader
<1> QED BY <1>2, <1>3, <1>4, <1>5, <1>6 DEF ChannelParts

LEMMA TestEmptyKeeps ==
  ASSUME ChannelTypes, ChannelParts, TestEmpty
  PROVE  ChannelParts'
<1>1. TailInv'
  BY DEF ChannelParts, TailInv, Below, TestEmpty, ring, history
<1>2. AddInv'
  BY DEF ChannelParts, AddInv, TestEmpty, ring, history
<1>3. TakeInv'
  BY DEF ChannelParts, TakeInv, TestEmpty, reader, history
<1>4. SameBytes'
  <2>1. HeldBytes' = HeldBytes /\ Taken' = Taken /\ pending' = pending
    BY DEF TestEmpty, HeldBytes, Below, Taken, ring, reader, history
  <2>2. Adding' = Adding
    BY DEF Adding, TestEmpty
  <2> QED BY <2>1, <2>2 DEF ChannelParts, SameBytes, Added
<1>5. FrameCount'
  BY DEF ChannelParts, FrameCount, Announced, TestEmpty, reader, history
<1> QED BY <1>1, <1>2, <1>3, <1>4, <1>5 DEF ChannelParts

LEMMA SetTailKeeps ==
  ASSUME ChannelTypes, ChannelParts, SetTail
  PROVE  ChannelParts'
<1>1. held = 0
  <2>1. tail = -1 /\ held \in Nat
    BY QueueSizeAssumption DEF SetTail, ChannelParts, TailInv, ChannelTypes, ChannelTypeOK
  <2> QED BY <2>1, HeldAreCounted DEF ChannelParts
<1>2. TailInv'
  BY <1>1 DEF TailInv, SetTail, Oldest, history
<1>3. AddInv'
  BY DEF ChannelParts, AddInv, SetTail, history
<1>4. TakeInv'
  BY DEF ChannelParts, TakeInv, SetTail, reader, history
<1>5. SameBytes'
  <2>1. HeldBytes' = HeldBytes /\ Taken' = Taken /\ pending' = pending
    BY DEF SetTail, HeldBytes, Below, Taken, reader, history
  <2>2. Adding' = Adding
    BY DEF Adding, SetTail
  <2> QED BY <2>1, <2>2 DEF ChannelParts, SameBytes, Added
<1>6. FrameCount'
  BY DEF ChannelParts, FrameCount, Announced, SetTail, reader, history
<1> QED BY <1>2, <1>3, <1>4, <1>5, <1>6 DEF ChannelParts

\* A frame ends with its last byte, and has one more behind any other.
LEMMA FrameSoFar ==
  ASSUME NEW f \in Frame, NEW i \in 1 .. Len(f)
  PROVE  /\ SubSeq(f, 1, i - 1) \in Seq(Byte) /\ f[i] \in Byte
         /\ SubSeq(f, 1, i) = Append(SubSeq(f, 1, i - 1), f[i])
         /\ i = Len(f) => SubSeq(f, 1, i) = f
<1>1. f \in Seq(Byte) /\ Len(f) \in Nat
  BY FrameIsBytes
<1>2. f[i] \in Byte
  BY <1>1, ElementOfSeq
<1>3. SubSeq(f, 1, i - 1) \in Seq(Byte)
  <2>1. \A j \in 1 .. i - 1 : f[j] \in Byte
    BY <1>1, ElementOfSeq
  <2>2. 1 \in Int /\ i - 1 \in Int
    BY <1>1
  <2> QED BY <2>1, <2>2, SubSeqProperties
<1>4. SubSeq(f, 1, i) = SubSeq(f, 1, i - 1) \o <<f[i]>>
  <2>1. 1 \in 1 .. Len(f) /\ i \in 1 .. Len(f)
    BY <1>1
  <2> QED BY <1>1, <2>1, SubSeqRecursiveSecond
<1>5. SubSeq(f, 1, Len(f)) = f
  BY <1>1, SubSeqFull
<1> QED BY <1>2, <1>3, <1>4, <1>5, AppendIsConcat

\* What was added has grown by the byte that moving head adds.
LEMMA MoveAdds ==
  ASSUME ChannelTypes, MoveHead, ~overrun, ~raced'
  PROVE  /\ w_frame[w_pos] \in Byte
         /\ Added' = Append(Added, w_frame[w_pos])
<1>1. w_frame \in Frame /\ w_pos \in 1 .. Len(w_frame) /\ Len(w_frame) \in Nat
  BY FrameIsBytes DEF MoveHead, ChannelTypes, AtAByte, Storing
<1>2. PICK f \in Seq(Byte), a \in Seq(Byte), b \in Byte :
        f = FlattenSeq(pending) /\ a = SubSeq(w_frame, 1, w_pos - 1) /\ b = w_frame[w_pos]
  BY <1>1, BytesTypes, FrameSoFar
<1>3. Added = f \o a /\ f \o Append(a, b) = Append(f \o a, b)
  <2>1. Adding = a
    BY <1>2 DEF MoveHead, Adding
  <2> QED BY <1>2, <2>1, JoinAppend DEF Added
<1>4. SubSeq(w_frame, 1, w_pos) = Append(a, b)
  BY <1>1, <1>2, FrameSoFar
<1>5. CASE w_pos < Len(w_frame)
  <2>1. pending' = pending /\ w_pc' = "store" /\ w_pos' = w_pos + 1 /\ w_frame' = w_frame
    BY <1>5 DEF MoveHead
  <2>2. (w_pos + 1) - 1 = w_pos
    BY <1>1
  <2>3. Adding' = Append(a, b)
    BY <1>4, <2>1, <2>2 DEF Adding
  <2>4. FlattenSeq(pending') = f
    BY <1>2, <2>1
  <2> QED BY <1>2, <1>3, <2>3, <2>4 DEF Added
<1>6. CASE ~(w_pos < Len(w_frame))
  <2>1. pending' = Append(pending, w_frame) /\ w_pc' = "send"
    BY <1>6 DEF MoveHead
  <2>2. w_frame = Append(a, b)
    BY <1>1, <1>4, <1>6, FrameSoFar
  <2>3. Adding' = <<>>
    BY <2>1 DEF Adding
  <2>4. FlattenSeq(pending') = f \o Append(a, b)
    <3>1. pending \in Seq(Seq(Byte)) /\ w_frame \in Seq(Byte)
      <4>1. Frame \subseteq Seq(Byte)
        BY FrameIsBytes
      <4> QED BY <1>1, <4>1, SeqMonotonic DEF ChannelTypes, ChannelTypeOK
    <3>2. FlattenSeq(Append(pending, w_frame)) = FlattenSeq(pending) \o w_frame
      BY <3>1, FlattenAppend
    <3> QED BY <1>2, <2>1, <2>2, <3>2
  <2>5. (f \o Append(a, b)) \o <<>> = f \o Append(a, b)
    <3>1. f \o Append(a, b) \in Seq(Byte)
      BY AppendProperties, ConcatProperties
    <3> QED BY <3>1, ConcatEmptySeq
  <2> QED BY <1>2, <1>3, <2>3, <2>4, <2>5 DEF Added
<1> QED BY <1>2, <1>5, <1>6

LEMMA MoveHeadKeeps ==
  ASSUME ChannelTypes, ChannelParts, MoveHead, ~overrun, ~raced'
  PROVE  ChannelParts'
<1>1. held \in 0 .. QueueSize - 1 /\ held' = held + 1 /\ queue_p[head] = w_frame[w_pos]
  BY QueueSizeAssumption DEF ChannelParts, AddInv, MoveHead, ChannelTypes, ChannelTypeOK
<1>2. head \in Index /\ head' = Advance(head) /\ queue_p' = queue_p
  BY DEF MoveHead, ChannelTypes, ChannelTypeOK
<1>3. TailInv'
  <2>1. tail # -1 /\ tail' = tail /\ w_pc' # "first"
    BY DEF MoveHead
  <2>2. Below(held)' = Back(Advance(head), held + 1)
    BY <1>1, <1>2 DEF Below, Back
  <2>3. CASE held = 0
    <3>1. tail = head /\ held + 1 = 1
      BY <2>1, <2>3 DEF ChannelParts, TailInv
    <3> QED BY <1>1, <1>2, <2>1, <2>2, <3>1, BackOne DEF TailInv
  <2>4. CASE held # 0
    <3>1. held > 0 /\ held \in 1 .. QueueSize /\ held < QueueSize /\ held' # 0
      BY <1>1, <2>4, QueueSizeAssumption
    <3>2. tail = Back(head, held)
      BY <3>1, HeldAreCounted DEF ChannelParts
    <3> QED BY <1>2, <2>1, <2>2, <3>1, <3>2, BackInRing DEF TailInv
  <2> QED BY <2>3, <2>4
<1>4. AddInv'
  BY DEF AddInv, MoveHead
<1>5. TakeInv'
  <2>1. r_pc' = r_pc /\ r_need' = r_need /\ r_left' = r_left /\ gff_frame' = gff_frame
    BY DEF MoveHead, reader
  <2>2. pending # <<>> => pending' # <<>> /\ Head(pending') = Head(pending)
    <3>1. CASE w_pos < Len(w_frame)
      BY <3>1 DEF MoveHead
    <3>2. CASE ~(w_pos < Len(w_frame))
      <4>1. w_frame \in Frame
        BY DEF MoveHead, ChannelTypes, AtAByte, Storing
      <4>2. pending' = Append(pending, w_frame) /\ pending \in Seq(Frame)
        BY <3>2 DEF MoveHead, ChannelTypes, ChannelTypeOK
      <4> QED BY <4>1, <4>2, AppendProperties, HeadTailAppend
    <3> QED BY <3>1, <3>2
  <2> QED BY <2>1, <2>2 DEF ChannelParts, TakeInv
<1>6. SameBytes'
  <2>1. PICK b \in Byte, k \in Seq(Byte), h \in Seq(Byte) :
          b = w_frame[w_pos] /\ k = Taken /\ h = HeldBytes
    BY MoveAdds, BytesTypes
  <2>2. Added' = Append(k \o h, b)
    BY <2>1, MoveAdds DEF ChannelParts, SameBytes
  <2>3. HeldBytes' = LastBytes(queue_p, Advance(head), held + 1)
    BY <1>1, <1>2 DEF HeldBytes, Below, LastBytes, Back
  <2>4. HeldBytes' = Append(h, b)
    BY <1>1, <1>2, <2>1, <2>3, LastAfterMove, HeldAreLast DEF ChannelTypes, ChannelTypeOK
  <2>5. Taken' = k
    BY <2>1 DEF MoveHead, Taken, reader
  <2>6. k \o Append(h, b) = Append(k \o h, b)
    BY JoinAppend
  <2> QED BY <2>2, <2>4, <2>5, <2>6 DEF SameBytes
<1>7. FrameCount'
  <2>1. msgs' = msgs /\ dropped' = dropped /\ r_pc' = r_pc /\ w_pc = "move" /\ pending \in Seq(Frame)
        /\ Len(pending) \in Nat /\ msgs \in Nat /\ dropped \in Nat
    BY LenProperties, SizeAssumption DEF MoveHead, reader, ChannelTypes, ChannelTypeOK
  <2>2. CASE w_pos < Len(w_frame)
    BY <2>1, <2>2 DEF MoveHead, ChannelParts, FrameCount, Announced
  <2>3. CASE ~(w_pos < Len(w_frame))
    <3>1. w_frame \in Frame /\ pending' = Append(pending, w_frame) /\ w_pc' = "send"
      BY <2>3 DEF MoveHead, ChannelTypes, AtAByte, Storing
    <3>2. Len(pending') = Len(pending) + 1
      BY <2>1, <3>1, AppendProperties
    <3> QED BY <2>1, <3>1, <3>2 DEF ChannelParts, FrameCount, Announced
  <2> QED BY <2>2, <2>3
<1> QED BY <1>3, <1>4, <1>5, <1>6, <1>7 DEF ChannelParts

LEMMA SendMsgKeeps ==
  ASSUME ChannelTypes, ChannelParts, ~Broken, SendMsg
  PROVE  ChannelParts'
<1>1. TailInv'
  BY DEF ChannelParts, TailInv, Below, SendMsg, ring
<1>2. AddInv'
  BY DEF AddInv, SendMsg
<1>3. TakeInv'
  BY DEF ChannelParts, TakeInv, SendMsg
<1>4. SameBytes'
  <2>1. HeldBytes' = HeldBytes /\ Taken' = Taken /\ pending' = pending
    BY DEF SendMsg, HeldBytes, Below, Taken, ring
  <2>2. Adding' = <<>> /\ Adding = <<>>
    BY DEF Adding, SendMsg
  <2> QED BY <2>1, <2>2 DEF ChannelParts, SameBytes, Added
<1>5. FrameCount'
  <2>1. msgs \in Nat /\ dropped \in Nat
    BY SizeAssumption DEF ChannelTypes, ChannelTypeOK
  <2> QED BY <2>1 DEF ChannelParts, FrameCount, Announced, SendMsg
<1> QED BY <1>1, <1>2, <1>3, <1>4, <1>5 DEF ChannelParts

(***************************************************************************)
(* What the reader does.                                                   *)
(***************************************************************************)

\* Steps that only change where the reader is, and its message queue.
LEMMA ReaderMoves ==
  ASSUME ChannelTypes, ChannelParts, UNCHANGED <<ring, writer, r_left, gff_frame, history>>,
         Taken' = Taken, TakeInv', FrameCount'
  PROVE  ChannelParts'
<1>1. TailInv'
  BY DEF ChannelParts, TailInv, Below, ring, writer, history
<1>2. AddInv'
  BY DEF ChannelParts, AddInv, ring, writer, history
<1>3. SameBytes'
  <2>1. HeldBytes' = HeldBytes /\ Adding' = Adding /\ pending' = pending
    BY DEF HeldBytes, Below, Adding, ring, writer, history
  <2> QED BY <2>1 DEF ChannelParts, SameBytes, Added
<1> QED BY <1>1, <1>2, <1>3 DEF ChannelParts

LEMMA ReceiveKeeps ==
  ASSUME ChannelTypes, ChannelParts, Receive
  PROVE  ChannelParts'
<1>1. TakeInv' /\ Taken' = Taken
  BY DEF TakeInv, Taken, Receive
<1>2. FrameCount'
  <2>1. msgs \in Nat /\ dropped \in Nat
    BY SizeAssumption DEF ChannelTypes, ChannelTypeOK
  <2> QED BY <2>1 DEF ChannelParts, FrameCount, Announced, Receive, writer, history
<1> QED BY <1>1, <1>2, ReaderMoves DEF Receive

LEMMA PreviewKeeps ==
  ASSUME ChannelTypes, ChannelParts, PreviewSize
  PROVE  ChannelParts'
<1>1. pending # <<>>
  <2>1. msgs \in Nat /\ dropped \in Nat /\ r_pc = "preview"
    BY SizeAssumption DEF PreviewSize, ChannelTypes, ChannelTypeOK
  <2>2. Len(pending) > 0
    BY <2>1 DEF ChannelParts, FrameCount, Announced
  <2> QED BY <2>2
<1>2. Taken = <<>> /\ SameBytes /\ TailInv
  BY DEF PreviewSize, Taken, ChannelParts
<1>3. held > 0
  <2>1. Len(Taken) = 0
    BY <1>2
  <2> QED BY <1>1, <1>2, <2>1, EnoughHeld, BytesTypes
<1>4. tail # -1 /\ tail = Back(head, held) /\ held \in 1 .. QueueSize
  BY <1>2, <1>3, HeldAreCounted
<1>5. r_need' = Len(Head(pending))
  <2>1. PICK f \in Frame : f = Head(pending)
    BY <1>1, OldestFrame
  <2>2. Added[1] = f[1]
    <3>1. /\ f \in Seq(Byte) /\ f # <<>>
          /\ FlattenSeq(Tail(pending)) \o Adding \in Seq(Byte)
          /\ Added = f \o (FlattenSeq(Tail(pending)) \o Adding)
      BY <1>1, <2>1, OldestFrame, FrameIsBytes
    <3> QED BY <3>1, StartOf
  <2>3. Added = HeldBytes
    BY <1>2, BytesTypes, ConcatEmptySeq DEF SameBytes
  <2>4. HeldBytes[1] = queue_p[tail]
    <3>1. 1 \in 1 .. held /\ held + 1 - 1 = held /\ held \in 0 .. QueueSize
      BY <1>4, QueueSizeAssumption
    <3>2. LastBytes(queue_p, head, held)[1] = queue_p[Back(head, held + 1 - 1)]
      BY <3>1, LastBytesType DEF ChannelTypes, ChannelTypeOK
    <3> QED BY <1>4, <3>1, <3>2, HeldAreLast
  <2>5. r_need' = FrameSize(f[1])
    BY <1>4, <2>2, <2>3, <2>4 DEF PreviewSize
  <2> QED BY <2>1, <2>5, FrameIsBytes
<1>6. TakeInv' /\ Taken' = Taken
  BY <1>1, <1>5 DEF TakeInv, Taken, PreviewSize, history
<1>7. FrameCount'
  BY DEF ChannelParts, FrameCount, Announced, PreviewSize, writer, history
<1> QED BY <1>6, <1>7, ReaderMoves DEF PreviewSize

\* The frame is there whenever the reader looks for it.
LEMMA FrameIsThere ==
  ASSUME ChannelTypes, ChannelParts, r_pc \in {"check", "count"}
  PROVE  /\ Taken = <<>> /\ pending # <<>> /\ r_need = Len(Head(pending))
         /\ r_need \in Nat /\ get_size \in Nat /\ get_size >= r_need
<1>1. Taken = <<>> /\ pending # <<>> /\ r_need = Len(Head(pending))
  BY DEF Taken, ChannelParts, TakeInv
<1>2. Len(Taken) = 0
  BY <1>1
<1>3. r_need \in Nat \ {0} /\ r_need <= held /\ held \in Nat
  BY <1>1, <1>2, EnoughHeld, BytesTypes, QueueSizeAssumption DEF ChannelParts
<1>4. get_size = held
  BY <1>3, HeldAreCounted DEF ChannelParts
<1> QED BY <1>1, <1>3, <1>4

\* So the reader never goes back to wait for the rest of a frame,
LEMMA NeverRefused ==
  ASSUME ChannelTypes, ChannelParts, Refuse
  PROVE  FALSE
BY FrameIsThere DEF Refuse, IsThere

LEMMA AcceptKeeps ==
  ASSUME ChannelTypes, ChannelParts, Accept
  PROVE  ChannelParts'
<1>1. TakeInv' /\ Taken' = Taken
  BY DEF ChannelParts, TakeInv, Taken, Accept, history
<1>2. FrameCount'
  BY DEF ChannelParts, FrameCount, Announced, Accept, writer, history
<1> QED BY <1>1, <1>2, ReaderMoves DEF Accept

LEMMA CountKeeps ==
  ASSUME ChannelTypes, ChannelParts, Count
  PROVE  ChannelParts'
<1>1. /\ Taken = <<>> /\ pending # <<>> /\ r_need = Len(Head(pending))
      /\ r_need \in Nat /\ get_size \in Nat /\ get_size >= r_need
  BY FrameIsThere DEF Count
<1>2. r_left' = r_need
  BY <1>1 DEF Count
<1>3. TakeInv' /\ Taken' = <<>>
  <2>1. r_pc' = "take" /\ gff_frame' = <<>> /\ pending' = pending /\ Len(<<>>) = 0
    BY DEF Count, history
  <2>2. Len(gff_frame') + r_left' = Len(Head(pending'))
    BY <1>1, <1>2, <2>1
  <2> QED BY <1>1, <2>1, <2>2 DEF TakeInv, Taken
<1>4. TailInv'
  BY DEF ChannelParts, TailInv, Below, Count, ring, writer, history
<1>5. AddInv'
  BY DEF ChannelParts, AddInv, Count, ring, writer, history
<1>6. SameBytes'
  <2>1. HeldBytes' = HeldBytes /\ Adding' = Adding /\ pending' = pending
    BY DEF Count, HeldBytes, Below, Adding, ring, writer, history
  <2> QED BY <1>1, <1>3, <2>1 DEF ChannelParts, SameBytes, Added
<1>7. FrameCount'
  BY DEF ChannelParts, FrameCount, Announced, Count, writer, history
<1> QED BY <1>3, <1>4, <1>5, <1>6, <1>7 DEF ChannelParts

\* As long as the loop has bytes to take, there are some.
LEMMA ByteIsThere ==
  ASSUME ChannelTypes, ChannelParts, r_pc = "take", r_left > 0
  PROVE  held > 0
<1>1. /\ Taken = gff_frame /\ pending # <<>>
      /\ Len(gff_frame) + r_left = Len(Head(pending))
  BY DEF Taken, ChannelParts, TakeInv
<1>2. Len(Head(pending)) <= Len(gff_frame) + held /\ Len(gff_frame) \in Nat
  BY <1>1, EnoughHeld, BytesTypes DEF ChannelParts
<1> QED BY <1>1, <1>2, BytesTypes, QueueSizeAssumption DEF ChannelTypes, ChannelTypeOK

\* and get_data() never returns a byte out of an empty ring.
LEMMA NeverTakesNothing ==
  ASSUME ChannelTypes, ChannelParts, TakeNothing
  PROVE  FALSE
BY ByteIsThere, HeldAreCounted DEF TakeNothing, ChannelParts

LEMMA TakeKeeps ==
  ASSUME ChannelTypes, ChannelParts, Take
  PROVE  ChannelParts'
<1>1. held > 0
  BY ByteIsThere DEF Take
<1>2. held \in 1 .. QueueSize /\ tail \in Index /\ tail = Back(head, held) /\ head \in Index
      /\ queue_p \in [Index -> Byte]
  BY <1>1, HeldAreCounted DEF ChannelParts, ChannelTypes, ChannelTypeOK
<1>3. /\ held' = held - 1 /\ head' = head /\ queue_p' = queue_p /\ tail' = Advance(tail)
      /\ w_pc' = w_pc /\ w_frame' = w_frame /\ w_pos' = w_pos /\ pending' = pending
      /\ gff_frame' = Append(gff_frame, queue_p[tail])
  BY <1>1 DEF Take, writer
<1>4. TailInv'
  <2>1. w_pc # "first"
    BY DEF Take, ChannelParts, TailInv
  <2>2. tail' = IF held = 1 THEN head ELSE Back(head, held - 1)
    BY <1>2, <1>3, BackInRing
  <2>3. Below(held)' = Back(head, held - 1)
    BY <1>3 DEF Below, Back
  <2>4. held' = 0 <=> held = 1
    BY <1>2, <1>3, QueueSizeAssumption
  <2>5. held' > 0 => held # 1
    BY <1>2, <1>3, QueueSizeAssumption
  <2> QED BY <1>3, <2>1, <2>2, <2>3, <2>4, <2>5 DEF TailInv
<1>5. AddInv'
  <2>1. held < QueueSize => held - 1 < QueueSize
    BY <1>2, QueueSizeAssumption
  <2> QED BY <1>3, <2>1 DEF ChannelParts, AddInv
<1>6. queue_p[tail] \in Byte /\ gff_frame \in Seq(Byte) /\ Len(gff_frame) \in Nat
  BY <1>2, LenProperties DEF ChannelTypes, ChannelTypeOK
<1>7. TakeInv'
  <2>1. Len(gff_frame') = Len(gff_frame) + 1
    BY <1>3, <1>6, AppendProperties
  <2>2. r_left' = r_left - 1 /\ r_left \in Nat /\ r_pc' = "test" /\ r_pc = "take"
    BY DEF Take, ChannelTypes, ChannelTypeOK
  <2> QED BY <1>3, <1>6, <2>1, <2>2 DEF ChannelParts, TakeInv
<1>8. SameBytes'
  <2>1. PICK b \in Byte, k \in Seq(Byte) : b = queue_p[tail] /\ k = gff_frame
    BY <1>6
  <2>2. HeldBytes = <<b>> \o LastBytes(queue_p, head, held - 1)
    BY <1>2, <2>1, LastAfterTake, HeldAreLast
  <2>3. HeldBytes' = LastBytes(queue_p, head, held - 1)
    BY <1>3 DEF HeldBytes, Below, LastBytes, Back
  <2>4. HeldBytes' \in Seq(Byte)
    <3>1. held - 1 \in 0 .. QueueSize
      BY <1>2, QueueSizeAssumption
    <3> QED BY <1>2, <2>3, <3>1, LastBytesType
  <2>5. PICK h \in Seq(Byte) : h = HeldBytes'
    BY <2>4
  <2>6. k \o (<<b>> \o h) = Append(k, b) \o h
    BY JoinBetween
  <2>7. Taken = k /\ Taken' = Append(k, b)
    BY <1>3, <2>1 DEF Taken, Take
  <2>8. Added' = Added
    BY <1>3 DEF Added, Adding
  <2> QED BY <2>2, <2>3, <2>5, <2>6, <2>7, <2>8 DEF ChannelParts, SameBytes
<1>9. FrameCount'
  BY DEF ChannelParts, FrameCount, Announced, Take, writer
<1> QED BY <1>4, <1>5, <1>7, <1>8, <1>9 DEF ChannelParts

LEMMA TestLastKeeps ==
  ASSUME ChannelTypes, ChannelParts, TestLast
  PROVE  ChannelParts'
<1>1. TakeInv' /\ Taken' = Taken
  BY DEF ChannelParts, TakeInv, Taken, TestLast, history
<1>2. FrameCount'
  BY DEF ChannelParts, FrameCount, Announced, TestLast, writer, history
<1> QED BY <1>1, <1>2, ReaderMoves DEF TestLast

LEMMA MarkEmptyKeeps ==
  ASSUME ChannelTypes, ChannelParts, MarkEmpty, ~raced'
  PROVE  ChannelParts'
<1>1. held = 0
  <2>1. ~(held > 0)
    BY Zenon DEF MarkEmpty
  <2> QED BY <2>1, QueueSizeAssumption DEF ChannelTypes, ChannelTypeOK
<1>2. TailInv'
  BY <1>1 DEF TailInv, MarkEmpty, writer
<1>3. AddInv'
  BY DEF ChannelParts, AddInv, MarkEmpty, writer
<1>4. TakeInv'
  BY DEF ChannelParts, TakeInv, MarkEmpty
<1>5. SameBytes'
  <2>1. HeldBytes' = HeldBytes /\ Adding' = Adding /\ pending' = pending /\ Taken' = Taken
    BY DEF MarkEmpty, HeldBytes, Below, Adding, Taken, writer
  <2> QED BY <2>1 DEF ChannelParts, SameBytes, Added
<1>6. FrameCount'
  BY DEF ChannelParts, FrameCount, Announced, MarkEmpty, writer
<1> QED BY <1>2, <1>3, <1>4, <1>5, <1>6 DEF ChannelParts

\* The frame handed on is the oldest one, and what is held is the rest.
LEMMA HandsOldest ==
  ASSUME ChannelTypes, ChannelParts, HandOn
  PROVE  /\ pending # <<>> /\ gff_frame = Head(pending) /\ pending' = Tail(pending)
         /\ FlattenSeq(Tail(pending)) \o Adding = HeldBytes
<1>1. pending # <<>> /\ Taken = gff_frame /\ r_left = 0 /\ Len(gff_frame) + r_left = Len(Head(pending))
  BY DEF HandOn, Taken, ChannelParts, TakeInv
<1>2. PICK f \in Seq(Byte), r \in Seq(Byte), k \in Seq(Byte), h \in Seq(Byte) :
        /\ f = Head(pending) /\ r = FlattenSeq(Tail(pending)) \o Adding
        /\ k = gff_frame /\ h = HeldBytes
  BY <1>1, OldestFrame, FrameIsBytes, BytesTypes
<1>3. f \o r = k \o h
  BY <1>1, <1>2, OldestFrame DEF ChannelParts, SameBytes
<1>4. Len(k) \in Nat /\ Len(f) = Len(k)
  BY <1>1, <1>2, LenProperties
<1>5. f = k /\ r = h
  BY <1>3, <1>4, SameStart
<1> QED BY <1>1, <1>2, <1>5 DEF HandOn

LEMMA HandOnKeeps ==
  ASSUME ChannelTypes, ChannelParts, HandOn
  PROVE  ChannelParts'
<1>1. /\ pending # <<>> /\ pending' = Tail(pending) /\ pending \in Seq(Frame)
      /\ FlattenSeq(Tail(pending)) \o Adding = HeldBytes
  BY HandsOldest DEF ChannelTypes, ChannelTypeOK
<1>2. TailInv'
  BY DEF ChannelParts, TailInv, Below, HandOn, ring, writer
<1>3. AddInv'
  BY DEF ChannelParts, AddInv, HandOn, ring, writer
<1>4. TakeInv'
  BY DEF TakeInv, HandOn
<1>5. SameBytes'
  <2>1. HeldBytes' = HeldBytes /\ Adding' = Adding /\ Taken' = <<>>
    BY DEF HandOn, HeldBytes, Below, Adding, Taken, ring, writer
  <2>2. Added' = HeldBytes
    BY <1>1, <2>1 DEF Added
  <2> QED BY <2>1, <2>2, BytesTypes, ConcatEmptySeq DEF SameBytes
<1>6. FrameCount'
  <2>1. Len(pending') = Len(pending) - 1 /\ Len(pending) \in Nat
    BY <1>1, HeadTailProperties, LenProperties
  <2>2. msgs \in Nat /\ dropped \in Nat
    BY SizeAssumption DEF ChannelTypes, ChannelTypeOK
  <2> QED BY <2>1, <2>2 DEF ChannelParts, FrameCount, Announced, HandOn, writer
<1> QED BY <1>2, <1>3, <1>4, <1>5, <1>6 DEF ChannelParts

LEMMA WakeKeeps ==
  ASSUME ChannelTypes, ChannelParts, Wake
  PROVE  ChannelParts'
<1>1. TakeInv' /\ Taken' = Taken
  BY DEF TakeInv, Taken, Wake
<1>2. FrameCount'
  BY DEF ChannelParts, FrameCount, Announced, Wake, writer, history
<1> QED BY <1>1, <1>2, ReaderMoves DEF Wake

(***************************************************************************)
(* The theorems about the channel.                                         *)
(***************************************************************************)

\* A step after which nothing is broken keeps every part of the invariant.
LEMMA StepKeepsParts ==
  ASSUME ChannelTypes, ~Broken => ChannelParts, [ChannelNext]_ChannelVars, ~Broken'
  PROVE  ~Broken /\ ChannelParts /\ ChannelParts'
<1>1. ~Broken
  BY Zenon DEF ChannelVars, ChannelNext, Write, Read, Broken, history, WriteFrame, Store, TestEmpty,
     SetTail, MoveHead, SendMsg, Receive, PreviewSize, Refuse, Accept, Count, TakeNothing,
     Take, TestLast, MarkEmpty, HandOn, Wake
<1>2. ChannelParts /\ ~overrun /\ ~overrun' /\ ~raced'
  BY <1>1, Zenon DEF Broken
<1>3. CASE Write
  <2>1. CASE \E f \in Frame : WriteFrame(f)
    BY <1>1, <1>2, <2>1, BeginKeeps, Zenon
  <2>2. CASE Store
    BY <1>1, <1>2, <2>2, StoreKeeps, Zenon
  <2>3. CASE TestEmpty
    BY <1>1, <1>2, <2>3, TestEmptyKeeps, Zenon
  <2>4. CASE SetTail
    BY <1>1, <1>2, <2>4, SetTailKeeps, Zenon
  <2>5. CASE MoveHead
    BY <1>1, <1>2, <2>5, MoveHeadKeeps, Zenon
  <2>6. CASE SendMsg
    BY <1>1, <1>2, <2>6, SendMsgKeeps, Zenon
  <2> QED BY <1>1, <1>2, <1>3, <2>1, <2>2, <2>3, <2>4, <2>5, <2>6, Zenon DEF Write
<1>4. CASE Read
  <2>1. CASE Receive
    BY <1>1, <1>2, <2>1, ReceiveKeeps, Zenon
  <2>2. CASE PreviewSize
    BY <1>1, <1>2, <2>2, PreviewKeeps, Zenon
  <2>3. CASE Refuse
    BY <1>1, <1>2, <2>3, NeverRefused, Zenon
  <2>4. CASE Accept
    BY <1>1, <1>2, <2>4, AcceptKeeps, Zenon
  <2>5. CASE Count
    BY <1>1, <1>2, <2>5, CountKeeps, Zenon
  <2>6. CASE TakeNothing
    BY <1>1, <1>2, <2>6, NeverTakesNothing, Zenon
  <2>7. CASE Take
    BY <1>1, <1>2, <2>7, TakeKeeps, Zenon
  <2>8. CASE TestLast
    BY <1>1, <1>2, <2>8, TestLastKeeps, Zenon
  <2>9. CASE MarkEmpty
    BY <1>1, <1>2, <2>9, MarkEmptyKeeps, Zenon
  <2>10. CASE HandOn
    BY <1>1, <1>2, <2>10, HandOnKeeps, Zenon
  <2>11. CASE Wake
    BY <1>1, <1>2, <2>11, WakeKeeps, Zenon
  <2> QED BY <1>4, <2>1, <2>2, <2>3, <2>4, <2>5, <2>6, <2>7, <2>8, <2>9, <2>10, <2>11, Zenon DEF Read
<1>5. CASE UNCHANGED ChannelVars
  <2>1. UNCHANGED <<ring, writer, r_left, gff_frame, history>>
    BY <1>5 DEF ChannelVars, ring, writer, history
  <2>2. Taken' = Taken /\ TakeInv' /\ FrameCount'
    BY <1>2, <1>5 DEF ChannelVars, Taken, TakeInv, FrameCount, Announced, ChannelParts
  <2>3. ChannelParts'
    BY <1>2, <2>1, <2>2, ReaderMoves, Zenon
  <2> QED BY <1>1, <1>2, <2>3
<1> QED BY <1>1, <1>2, <1>3, <1>4, <1>5 DEF ChannelNext

LEMMA InitParts == ChannelInit => ChannelParts
<1> SUFFICES ASSUME ChannelInit PROVE ChannelParts
  OBVIOUS
<1>1. TailInv /\ AddInv /\ TakeInv
  BY DEF ChannelInit, TailInv, AddInv, TakeInv
<1>2. SameBytes
  <2>1. HeldBytes = <<>> /\ Taken = <<>> /\ Adding = <<>> /\ FlattenSeq(pending) = <<>>
    BY FlattenEmpty DEF ChannelInit, HeldBytes, Taken, Adding
  <2> QED BY <2>1 DEF SameBytes, Added
<1>3. FrameCount
  BY DEF ChannelInit, FrameCount, Announced
<1> QED BY <1>1, <1>2, <1>3 DEF ChannelParts

\* ChannelInv is inductive.
LEMMA ChannelInvariant == ChannelSpec => []ChannelInv
<1>1. ChannelInit => ChannelInv
  BY InitTypes, InitParts DEF ChannelInv
<1>2. ChannelInv /\ [ChannelNext]_ChannelVars => ChannelInv'
  BY StepTypes, StepKeepsParts DEF ChannelInv
<1> QED BY <1>1, <1>2, PTL DEF ChannelSpec

\* The ring holds every byte of the frames not yet handed on, in order, with tail
\* at the oldest, however writer and reader preempt each other.
THEOREM ChannelHoldsFrames == ChannelSpec => []RingHoldsFrames
<1>1. ChannelInv => RingHoldsFrames
  BY DEF ChannelInv, ChannelParts, SameBytes, Added, TailInv, RingHoldsFrames
<1> QED BY <1>1, ChannelInvariant, PTL

\* Frames that have no message on their way are as many as messages were refused.
THEOREM LagIsWhatWasDropped == ChannelSpec => []LagIsDropped
<1>1. ChannelInv => LagIsDropped
  BY DEF ChannelInv, ChannelParts, FrameCount, LagIsDropped
<1> QED BY <1>1, ChannelInvariant, PTL

\* The types of the channel.
THEOREM ChannelTypeCorrect == ChannelSpec => []ChannelTypeOK
<1>1. ChannelInv => ChannelTypeOK
  BY DEF ChannelInv, ChannelTypes
<1> QED BY <1>1, ChannelInvariant, PTL

\* The frames come out whole, once and in order: the channel implements FrameFifo.
THEOREM ChannelImplementsFifo == ChannelSpec => FramesInOrder
<1>1. ChannelInit => Frames!Init
  BY DEF ChannelInit, Frames!Init, Broken
<1>2. ChannelInv /\ [ChannelNext]_ChannelVars => [Frames!Next]_Frames!vars
  <2> SUFFICES ASSUME ChannelInv, [ChannelNext]_ChannelVars PROVE [Frames!Next]_Frames!vars
    OBVIOUS
  <2>1. CASE Broken'
    BY <2>1, Zenon DEF Frames!Next, Frames!Break
  <2>2. CASE ~Broken'
    <3>1. ~Broken /\ ChannelTypes /\ ChannelParts
      BY <2>2, StepKeepsParts DEF ChannelInv
    <3>2. Broken' = Broken
      BY <2>2, <3>1, Zenon DEF Broken
    <3>3. CASE MoveHead
      <4>1. w_frame \in Frame
        BY <3>1, <3>3 DEF MoveHead, ChannelTypes, AtAByte, Storing
      <4>2. handed' = handed
        BY <3>3 DEF MoveHead
      <4>3. pending' \in {pending, Append(pending, w_frame)}
        <5>1. ~overrun /\ ~raced'
          BY <2>2, <3>1, Zenon DEF Broken
        <5> QED BY <3>3, <5>1 DEF MoveHead
      <4>4. CASE pending' = pending
        BY <3>2, <4>2, <4>4, Zenon DEF Frames!vars
      <4>5. CASE pending' = Append(pending, w_frame)
        BY <3>1, <3>2, <4>1, <4>2, <4>5, Zenon DEF Frames!Next, Frames!Send
      <4> QED BY <4>3, <4>4, <4>5
    <3>4. CASE HandOn
      <4>1. pending # <<>> /\ handed' = Head(pending) /\ pending' = Tail(pending)
        BY <3>1, <3>4, HandsOldest DEF HandOn
      <4> QED BY <3>1, <3>2, <4>1, Zenon DEF Frames!Next, Frames!Receive
    <3>5. CASE ~MoveHead /\ ~HandOn
      <4>1. pending' = pending /\ handed' = handed
        BY <3>5, Zenon DEF ChannelVars, ChannelNext, Write, Read, history, WriteFrame, Store,
           TestEmpty, SetTail, SendMsg, Receive, PreviewSize, Refuse, Accept, Count,
           TakeNothing, Take, TestLast, MarkEmpty, Wake
      <4> QED BY <3>2, <4>1, Zenon DEF Frames!vars
    <3> QED BY <3>3, <3>4, <3>5
  <2> QED BY <2>1, <2>2
<1> QED BY <1>1, <1>2, ChannelInvariant, PTL DEF ChannelSpec, FramesInOrder, Frames!Spec
=============================================================================
