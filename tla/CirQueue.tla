------------------------------ MODULE CirQueue ------------------------------
(***************************************************************************)
(* class cir_queue (libs/misc/cir_queue.cpp): the ring of bytes through    *)
(* which every pair of threads of the two applications exchanges frames.   *)
(*                                                                         *)
(* One call of the byte primitives add_data(byte), get_data() and          *)
(* preview_data(false) is one step; the buffer operations add_data(buf, n) *)
(* and get_data(buf, n) are loops of those primitives, so one writer and   *)
(* one reader can be interleaved between any two bytes.  GffChannel goes   *)
(* one level down, to the statements of the primitives.                    *)
(***************************************************************************)
EXTENDS Ring

CONSTANTS
  Zero,    \* byte 0
  MaxBuf   \* longest buffer a caller passes (bounds the model)

ASSUME ZeroAssumption == Zero \in Byte
ASSUME MaxBufAssumption == MaxBuf \in Nat \ {0}

VARIABLES
  preview_pos,  \* read position of preview_data
  overflowed,   \* error indicator
  adding,       \* bytes the loop of add_data(buf, n) has still to add
  getting,      \* bytes the loop of get_data(buf, n) has still to get
  retdata,      \* byte returned by the latest get_data() or preview_data()
  lost          \* history: an add has discarded queued bytes

vars == <<queue_p, head, tail, preview_pos, overflowed,
          adding, getting, retdata, lost>>

-----------------------------------------------------------------------------
(* What is queued.                                                         *)

\* Array position of the i-th oldest byte.
Pos(t, i) ==
  IF t + i - 1 < QueueSize THEN t + i - 1 ELSE t + i - 1 - QueueSize

\* The bytes queued in array p, oldest first.
BytesIn(p, h, t) == [i \in 1 .. SizeOf(h, t) |-> p[Pos(t, i)]]

Contents == BytesIn(queue_p, head, tail)

-----------------------------------------------------------------------------
Init ==
  /\ queue_p = [i \in Index |-> Zero]
  /\ head = 0
  /\ tail = -1
  /\ preview_pos = -1
  /\ overflowed = FALSE
  /\ adding = <<>>
  /\ getting = 0
  /\ retdata = Zero
  /\ lost = FALSE

\* add_data(byte).  Nothing stops a caller from adding to a full queue.
add_byte(b) ==
  LET start == IF tail = -1 THEN head ELSE tail
      next  == Advance(head)
  IN  /\ queue_p' = [queue_p EXCEPT ![head] = b]
      /\ tail' = start
      /\ head' = next
      /\ overflowed' = (overflowed \/ (head < start /\ next >= start))
      /\ lost' = (lost \/ tail = head)
      /\ UNCHANGED <<preview_pos, retdata>>

\* A fault: the emptied ring is not marked empty.
AfterTakeNoMark(t) == Advance(t)

\* tail after one byte has been taken
AfterTake(t) == IF Advance(t) = head THEN -1 ELSE Advance(t)

\* get_data() of one byte
get_byte ==
  /\ IF tail = -1
       THEN /\ retdata' = Zero
            /\ UNCHANGED tail
       ELSE /\ retdata' = queue_p[tail]
            /\ tail' = AfterTake(tail)
  /\ UNCHANGED <<queue_p, head, preview_pos, overflowed, lost>>

-----------------------------------------------------------------------------
(* The operations of the interface.                                        *)

\* add_data(buf, n): a caller starts to add a buffer (n < 1 returns at once)
AddStart ==
  /\ adding = <<>>
  /\ \E n \in 1 .. MaxBuf : \E buf \in [1 .. n -> Byte] : adding' = buf
  /\ UNCHANGED <<ring, preview_pos, overflowed, getting, retdata, lost>>

AddNext ==
  /\ adding # <<>>
  /\ add_byte(Head(adding))
  /\ adding' = Tail(adding)
  /\ UNCHANGED getting

\* A fault: the loop trusts the caller's n, not the size of the queue.
GetCountUnbounded(n, size) == n

\* number of turns of the loop of get_data(buf, n)
GetCount(n, size) == IF size > n THEN n ELSE size

\* get_data(buf, n): the size is read once, before the loop
GetStart ==
  /\ getting = 0
  /\ \E n \in 1 .. MaxBuf : getting' = GetCount(n, get_size)
  /\ UNCHANGED <<ring, preview_pos, overflowed, adding, retdata, lost>>

GetNext ==
  /\ getting > 0
  /\ get_byte
  /\ getting' = getting - 1
  /\ UNCHANGED adding

\* get_data(): one byte, outside a loop
GetOne ==
  /\ getting = 0
  /\ get_byte
  /\ UNCHANGED <<adding, getting>>

\* preview_data(false), the only form the callers use
Preview ==
  /\ getting = 0
  /\ IF tail = -1
       THEN /\ retdata' = Zero
            /\ UNCHANGED preview_pos
       ELSE /\ retdata' = queue_p[tail]
            /\ preview_pos' = Advance(tail)
  /\ UNCHANGED <<queue_p, head, tail, overflowed, adding, getting, lost>>

Next ==
  \/ AddStart
  \/ AddNext
  \/ GetStart
  \/ GetNext
  \/ GetOne
  \/ Preview

Spec == Init /\ [][Next]_vars

-----------------------------------------------------------------------------
(* Properties.                                                             *)

\* Every variable keeps its type; head and tail stay inside the array.
TypeOK ==
  /\ queue_p \in [Index -> Byte]
  /\ head \in Index
  /\ tail \in Index \cup {-1}
  /\ preview_pos \in Index \cup {-1}
  /\ overflowed \in BOOLEAN
  /\ adding \in Seq(Byte)
  /\ getting \in 0 .. QueueSize
  /\ retdata \in Byte
  /\ lost \in BOOLEAN

\* A get_data(buf, n) that has read the size before its loop finds a byte on
\* every turn of it, whatever the writer adds meanwhile, as long as no add
\* has met a full queue: the bytes it counted are still there.
CountedBytesStay == ~lost => getting <= get_size

\* The ring implements the first-in first-out queue of ByteFifo: bytes come
\* out once, in the order they went in, and an add to a full queue is the
\* only thing that discards any.
Fifo == INSTANCE ByteFifo
          WITH Capacity <- QueueSize, fifo <- Contents, out <- retdata
RingIsFifo == Fifo!Spec
=============================================================================
