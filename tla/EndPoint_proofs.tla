-------------------------- MODULE EndPoint_proofs ---------------------------
(***************************************************************************)
(* Proofs about the end points of the host, for any devices, values and    *)
(* commands and any capacity of the message queue.                         *)
(***************************************************************************)
EXTENDS EndPoint, TLAPS

(***************************************************************************)
(* Outputs.                                                                *)
(***************************************************************************)
OutRec == [level : Nat, blinks : BOOLEAN, table : BOOLEAN, freq : 0 .. 255, old : 0 .. 255]

\* An output the interrupt knows is blinking: the destructor and dev_turn_off
\* look at the one to undo the other.
Owned(o) == o \in OutRec /\ (o.table => o.blinks)

\* Turning a blinking output on or off takes it out of the table.
LEMMA SetToOwned ==
  ASSUME NEW o, Owned(o), NEW level \in Nat
  PROVE  Owned(SetTo(o, level)) /\ SetTo(o, level).table = FALSE
<1>1. LeavesTable(o) = FALSE
  BY DEF LeavesTable, Owned, OutRec
<1>2. SetTo(o, level) \in OutRec /\ SetTo(o, level).table = FALSE
  BY <1>1 DEF SetTo, Owned, OutRec
<1> QED BY <1>2 DEF Owned

LEMMA BlinkOwned ==
  ASSUME NEW o, Owned(o), NEW freq \in 0 .. 255
  PROVE  Owned(Blink(o, freq))
<1>1. CASE Period(freq) < 2
  BY <1>1 DEF Blink, Owned, OutRec
<1>2. CASE ~(Period(freq) < 2)
  BY <1>2 DEF Blink, Owned, OutRec
<1> QED BY <1>1, <1>2

LEMMA OldOwned ==
  ASSUME NEW o, Owned(o), NEW b \in 0 .. 255
  PROVE  Owned([o EXCEPT !.old = b])
BY DEF Owned, OutRec

\* A value as one byte
LEMMA ByteRange == \A v \in Nat : v % 256 \in 0 .. 255
OBVIOUS

LEMMA OnOffOwned ==
  ASSUME NEW o, Owned(o), NEW v \in Nat
  PROVE  Owned(OnOffSet(o, v))
<1>1. CASE v \in {0, 1}
  <2>1. OnOffSet(o, v) = SetTo(o, v)
    BY <1>1 DEF OnOffSet
  <2> QED BY <2>1, SetToOwned
<1>2. CASE v = 2
  <2>1. Toggled(o) \in Nat
    BY DEF Toggled
  <2>2. OnOffSet(o, v) = SetTo(o, Toggled(o))
    BY <1>2 DEF OnOffSet
  <2> QED BY <2>1, <2>2, SetToOwned
<1>3. CASE v > 100
  <2>1. v - 100 \in Nat
    BY <1>3
  <2>2. v % 256 \in 0 .. 255 /\ (v - 100) % 256 \in 0 .. 255
    BY <2>1, ByteRange
  <2>3. OnOffSet(o, v) = Blink([o EXCEPT !.old = v % 256], (v - 100) % 256)
    BY <1>3 DEF OnOffSet
  <2>4. Owned([o EXCEPT !.old = v % 256])
    BY <2>2, OldOwned
  <2> QED BY <2>2, <2>3, <2>4, BlinkOwned
<1>4. CASE v \notin {0, 1, 2} /\ ~(v > 100)
  <2>1. OnOffSet(o, v) = o
    BY <1>4 DEF OnOffSet
  <2> QED BY <2>1
<1> QED BY <1>1, <1>2, <1>3, <1>4

LEMMA LevelOwned ==
  ASSUME NEW o, Owned(o), NEW v \in Nat
  PROVE  Owned(LevelSet(o, v))
<1> DEFINE w == v % 256
           p == [o EXCEPT !.old = w]
<1>1. w \in 0 .. 255 /\ Owned(p)
  BY ByteRange, OldOwned
<1>2. LevelSet(o, v) = IF w <= 100 THEN SetTo(p, w) ELSE Blink(p, w - 100)
  BY DEF LevelSet
<1> HIDE DEF w, p
<1>3. CASE w <= 100
  <2>1. w \in Nat /\ LevelSet(o, v) = SetTo(p, w)
    BY <1>1, <1>2, <1>3
  <2> QED BY <1>1, <2>1, SetToOwned
<1>4. CASE ~(w <= 100)
  <2>1. w - 100 \in 0 .. 255
    BY <1>1, <1>4
  <2> QED BY <1>1, <1>2, <1>4, <2>1, BlinkOwned
<1> QED BY <1>3, <1>4

LEMMA FreshOwned == \A d : Fresh(d) \in OutRec /\ Fresh(d).table = FALSE
BY DEF Fresh, OutRec

(***************************************************************************)
(* Messages.                                                               *)
(***************************************************************************)
QueueType == msg \in Message \cup {NoMsg} /\ msgs \in Seq(Message) /\ Len(msgs) <= QueueSize

LEMMA ReceiveType ==
  ASSUME QueueType, Receive
  PROVE  Received \in Message /\ QueueType'
<1>1. CASE msg # NoMsg
  BY <1>1 DEF QueueType, Receive, Received
<1>2. CASE msg = NoMsg
  <2>1. msgs # <<>> /\ msgs' = Tail(msgs) /\ msg' = NoMsg /\ Received = Head(msgs)
    BY <1>2 DEF Receive, Received
  <2> QED BY <2>1, QueueAssumption DEF QueueType
<1> QED BY <1>1, <1>2

LEMMA SendType ==
  ASSUME QueueType, NEW m \in Message, Send(m)
  PROVE  QueueType'
<1>1. CASE Blocked
  BY <1>1 DEF QueueType, Send
<1>2. CASE ~Blocked
  <2>1. msg' = msg /\ msgs' = IF Len(msgs) < QueueSize THEN Append(msgs, m) ELSE msgs
    BY <1>2 DEF Send
  <2> QED BY <2>1, QueueAssumption DEF QueueType
<1> QED BY <1>1, <1>2

\* What messages carry
LEMMA MessageFields ==
  ASSUME NEW m \in Message
  PROVE  /\ m.type \in {"new", "value", "set", "alive"}
         /\ m.type = "new" => m.dev \in Device \cup {NoDevice}
         /\ m.type = "value" => m.val \in Value /\ m.old \in BOOLEAN
         /\ m.type = "set" => m.val \in Command
BY DEF Message

(***************************************************************************)
(* Types and the table, together: what the table holds depends on the      *)
(* types of an output, and nothing else on either.                         *)
(***************************************************************************)
RestType ==
  /\ {listed, ran, dev} \subseteq Device \cup {NoDevice}
  /\ pc \in {"outer", "first", "serve", "again", "leave"}
  /\ again \in Message \cup {NoMsg}
  /\ pc = "again" => again \in Message
  /\ status \in Value
  /\ reported \in Nat
  /\ {sampled, failed, lost, missed, squeezed, stale} \subseteq BOOLEAN
TableType == Owned(out) /\ (out.table => dev \in Output)
TypeInv == QueueType /\ RestType /\ TableType

LEMMA TypeInit == Init => TypeInv
<1> SUFFICES ASSUME Init PROVE TypeInv
  OBVIOUS
<1>1. QueueType
  BY QueueAssumption DEF Init, QueueType
<1>2. RestType
  BY ValueAssumption DEF Init, RestType
<1>3. TableType
  BY FreshOwned DEF Init, TableType, Owned
<1> QED BY <1>1, <1>2, <1>3 DEF TypeInv

LEMMA OuterType ==
  ASSUME TypeInv, Ignore \/ ConfigFails \/ Configure \/ FirstReport
  PROVE  TypeInv'
<1>1. CASE Ignore
  <2>1. QueueType'
    BY <1>1, ReceiveType DEF TypeInv, Ignore
  <2> QED BY <1>1, <2>1 DEF TypeInv, Ignore, RestType, TableType, instance, history
<1>2. CASE ConfigFails
  <2>1. QueueType'
    BY <1>2, ReceiveType DEF TypeInv, ConfigFails
  <2> QED BY <1>2, <2>1 DEF TypeInv, ConfigFails, RestType, TableType, instance
<1>3. CASE Configure
  <2>1. QueueType' /\ Received \in Message
    BY <1>3, ReceiveType DEF TypeInv, Configure
  <2>2. Received.dev \in Device
    BY <1>3, <2>1, MessageFields DEF Configure
  <2>3. RestType'
    BY <1>3, <2>2, ValueAssumption DEF TypeInv, Configure, RestType, history
  <2>4. TableType'
    BY <1>3, FreshOwned DEF Configure, TableType, Owned
  <2> QED BY <2>1, <2>3, <2>4 DEF TypeInv
<1>4. CASE FirstReport
  <2>1. QueueType'
    BY <1>4 DEF TypeInv, FirstReport, queue, QueueType
  <2>2. reported' \in Nat
    BY <1>4, ValueAssumption DEF TypeInv, FirstReport, RestType, TableType, Owned, OutRec
  <2> QED BY <1>4, <2>1, <2>2 DEF TypeInv, FirstReport, RestType, TableType, instance
<1> QED BY <1>1, <1>2, <1>3, <1>4

LEMMA ServeType ==
  ASSUME TypeInv, ServeValue \/ ServeSet \/ ServeAlive \/ ServeNew
  PROVE  TypeInv'
<1>1. CASE ServeValue
  <2>1. QueueType' /\ Received \in Message
    BY <1>1, ReceiveType DEF TypeInv, ServeValue
  <2>2. reported' \in Nat /\ stale' \in BOOLEAN
    BY <1>1, <2>1, MessageFields, ValueAssumption DEF TypeInv, ServeValue, RestType
  <2> QED BY <1>1, <2>1, <2>2 DEF TypeInv, ServeValue, RestType, TableType, instance
<1>2. CASE ServeSet
  <2>1. QueueType' /\ Received \in Message
    BY <1>2, ReceiveType DEF TypeInv, ServeSet
  <2>2. Received.val \in Nat
    BY <1>2, <2>1, MessageFields, ValueAssumption DEF ServeSet
  <2>3. Owned(out') /\ (dev \notin Output => out' = out)
    BY <1>2, <2>2, OnOffOwned, LevelOwned DEF ServeSet, TypeInv, TableType
  <2>4. TableType'
    BY <1>2, <2>3 DEF ServeSet, TypeInv, TableType
  <2>5. reported' \in Nat
    BY <1>2, <2>3 DEF ServeSet, TypeInv, RestType, Feedback, Owned, OutRec
  <2>6. RestType'
    BY <1>2, <2>5 DEF ServeSet, TypeInv, RestType
  <2> QED BY <2>1, <2>4, <2>6 DEF TypeInv
<1>3. CASE ServeAlive
  <2>1. QueueType'
    BY <1>3, ReceiveType DEF TypeInv, ServeAlive
  <2> QED BY <1>3, <2>1 DEF TypeInv, ServeAlive, RestType, TableType, instance, history
<1>4. CASE ServeNew
  <2>1. QueueType' /\ Received \in Message
    BY <1>4, ReceiveType DEF TypeInv, ServeNew
  <2>2. TableType'
    BY <1>4, SetToOwned DEF ServeNew, TypeInv, TableType, Owned
  <2> QED BY <1>4, <2>1, <2>2 DEF TypeInv, ServeNew, RestType
<1> QED BY <1>1, <1>2, <1>3, <1>4

\* The values of an instance that is gone are marked in a queue of the same length.
OldMsg(m) == IF m.type = "value" THEN [m EXCEPT !.old = TRUE] ELSE m
LEMMA OldMsgType == \A m \in Message : OldMsg(m) \in Message
BY DEF OldMsg, Message

LEMMA LeaveType ==
  ASSUME TypeInv, Requeue \/ Leave
  PROVE  TypeInv'
<1>1. CASE Requeue
  <2>1. again \in Message
    BY <1>1 DEF TypeInv, RestType, Requeue
  <2>2. QueueType'
    BY <1>1, <2>1, QueueAssumption DEF TypeInv, QueueType, Requeue, Requeued
  <2>3. RestType'
    BY <1>1 DEF TypeInv, RestType, Requeue, instance
  <2> QED BY <1>1, <2>2, <2>3 DEF TypeInv, TableType, Requeue, instance
<1>2. CASE Leave
  <2>1. msgs' = [i \in DOMAIN msgs |-> OldMsg(msgs[i])]
    BY <1>2 DEF Leave, OldMsg
  <2>2. msgs' \in Seq(Message) /\ Len(msgs') = Len(msgs)
    BY <2>1, OldMsgType DEF TypeInv, QueueType
  <2>3. QueueType'
    BY <1>2, <2>2 DEF TypeInv, QueueType, Leave
  <2>4. LeavesTable(out) = FALSE
    BY DEF TypeInv, TableType, Owned, OutRec, LeavesTable
  <2>5. out' \in OutRec /\ out'.table = FALSE
    <3>1. out' = [Fresh(NoDevice) EXCEPT !.table = FALSE]
      BY <1>2, <2>4 DEF Leave
    <3>2. Fresh(NoDevice) \in OutRec
      BY FreshOwned
    <3> QED BY <3>1, <3>2 DEF OutRec
  <2>6. TableType'
    BY <2>5 DEF TableType, Owned
  <2>7. RestType'
    BY <1>2, ValueAssumption DEF TypeInv, RestType, Leave
  <2> QED BY <2>3, <2>6, <2>7 DEF TypeInv
<1> QED BY <1>1, <1>2

LEMMA OthersType ==
  ASSUME TypeInv, Others \/ UNCHANGED vars
  PROVE  TypeInv'
<1>1. ASSUME NEW v \in Value, Sample(v) PROVE TypeInv'
  <2>1. ValueMsg(v) \in Message
    BY DEF ValueMsg, Message
  <2>2. QueueType'
    BY <1>1, <2>1, SendType DEF Sample, TypeInv
  <2>3. RestType'
    BY <1>1 DEF Sample, TypeInv, RestType, HasRoom
  <2> QED BY <1>1, <2>2, <2>3 DEF Sample, TypeInv, TableType
<1>2. CASE SendAlive
  <2>1. AliveMsg \in Message
    BY DEF AliveMsg, Message
  <2>2. QueueType'
    BY <1>2, <2>1, SendType DEF SendAlive, TypeInv
  <2> QED BY <1>2, <2>2 DEF SendAlive, TypeInv, RestType, TableType, instance, history
<1>3. ASSUME NEW d \in Output, NEW v \in Command, SetDevVal(d, v) PROVE TypeInv'
  <2>1. SetMsg(d, v) \in Message
    BY DEF SetMsg, Message
  <2>2. QueueType'
    BY <1>3, <2>1, SendType DEF SetDevVal, TypeInv
  <2> QED BY <1>3, <2>2 DEF SetDevVal, TypeInv, RestType, TableType, instance, history
<1>4. ASSUME NEW d \in Device \cup {NoDevice}, List(d) PROVE TypeInv'
  BY <1>4 DEF List, TypeInv, QueueType, RestType, TableType, queue, instance, history
<1>5. CASE RunEndpoint
  <2>1. NewDevice(listed) \in Message
    BY DEF NewDevice, Message, TypeInv, RestType
  <2>2. QueueType'
    BY <1>5, <2>1, SendType DEF RunEndpoint, TypeInv
  <2> QED BY <1>5, <2>2 DEF RunEndpoint, TypeInv, RestType, TableType, instance
<1>6. CASE UNCHANGED vars
  BY <1>6 DEF vars, TypeInv, QueueType, RestType, TableType
<1> QED BY <1>1, <1>2, <1>3, <1>4, <1>5, <1>6 DEF Others

LEMMA TypeStep == TypeInv /\ [Next]_vars => TypeInv'
BY OuterType, ServeType, LeaveType, OthersType DEF Next, Thread

\* Every variable keeps its type, and the message queue its capacity.
THEOREM TypeCorrect == Spec => []TypeOK
<1>1. TypeInv => TypeOK
  BY DEF TypeInv, QueueType, RestType, TableType, Owned, OutRec, TypeOK
<1> QED BY TypeInit, TypeStep, <1>1, PTL DEF Spec

\* on_off_output_instance and level_bulb_instance are never left in the table of
\* the blink interrupt when they are destroyed, whatever they were told last.
THEOREM TableOwned == Spec => []TableIsOwned
<1>1. TypeInv => TableIsOwned
  BY DEF TypeInv, TableType, Owned, TableIsOwned
<1> QED BY TypeInit, TypeStep, <1>1, PTL DEF Spec

(***************************************************************************)
(* The end point settles on the device it was run for.  At any moment at   *)
(* most one NEW_DEVICE is on its way, for the device run last; where the   *)
(* thread is says what it means that there is one or none.                 *)
(***************************************************************************)
IsNew(m) == m # NoMsg /\ m.type = "new"
NewAt == {i \in DOMAIN msgs : msgs[i].type = "new"}

OnItsWay == IsNew(msg) \/ NewAt # {}

OneForRan ==
  /\ IsNew(msg) => msg.dev = ran /\ NewAt = {}
  /\ \A i \in NewAt : msgs[i].dev = ran
  /\ \A i, j \in NewAt : i = j

PlaceInv ==
  /\ pc = "outer" =>
       /\ dev = NoDevice
       /\ OnItsWay => ~failed /\ ~lost
       /\ ~OnItsWay => failed \/ lost \/ ran = NoDevice
  /\ pc = "first" => dev = ran /\ ~failed /\ ~lost /\ ~OnItsWay
  /\ pc = "serve" => ~failed /\ ~lost /\ (~OnItsWay => dev = ran)
  /\ pc = "again" => IsNew(again) /\ again.dev = ran /\ ~failed /\ ~lost /\ ~OnItsWay
  /\ pc = "leave" => /\ OnItsWay => ~failed /\ ~lost
                     /\ ~OnItsWay => lost

RunInv == TypeInv /\ OneForRan /\ PlaceInv

\* The NEW_DEVICE that is received is for the device run last, and the only one.
LEMMA ReceiveNew ==
  ASSUME QueueType, OneForRan, Receive, Received.type = "new"
  PROVE  Received.dev = ran /\ OnItsWay /\ ~OnItsWay'
<1>1. CASE msg # NoMsg
  BY <1>1 DEF Receive, Received, OneForRan, OnItsWay, IsNew, NewAt
<1>2. CASE msg = NoMsg
  <2>1. msgs # <<>> /\ msgs' = Tail(msgs) /\ msg' = NoMsg /\ Received = msgs[1]
    BY <1>2 DEF Receive, Received, QueueType
  <2>2. 1 \in NewAt
    BY <2>1 DEF NewAt, QueueType
  <2>3. \A i \in DOMAIN msgs' : i + 1 \in DOMAIN msgs /\ i + 1 # 1 /\ msgs'[i] = msgs[i + 1]
    BY <2>1 DEF QueueType
  <2>4. \A i \in DOMAIN msgs' : msgs'[i].type # "new"
    BY <2>2, <2>3 DEF OneForRan, NewAt
  <2> QED BY <2>1, <2>2, <2>4 DEF OnItsWay, IsNew, NewAt, OneForRan
<1> QED BY <1>1, <1>2

\* Receiving another message leaves it where it is, one place nearer.
LEMMA ReceiveOther ==
  ASSUME QueueType, OneForRan, Receive, Received.type # "new", ran' = ran
  PROVE  OneForRan' /\ (OnItsWay' <=> OnItsWay)
<1>1. CASE msg # NoMsg
  BY <1>1 DEF Receive, Received, OneForRan, OnItsWay, IsNew, NewAt
<1>2. CASE msg = NoMsg
  <2>1. msgs # <<>> /\ msgs' = Tail(msgs) /\ msg' = NoMsg /\ Received = msgs[1]
    BY <1>2 DEF Receive, Received, QueueType
  <2>2. \A i \in DOMAIN msgs' : i + 1 \in DOMAIN msgs /\ msgs'[i] = msgs[i + 1]
    BY <2>1 DEF QueueType
  <2>3. \A i \in DOMAIN msgs : i = 1 \/ (i - 1 \in DOMAIN msgs' /\ msgs'[i - 1] = msgs[i])
    BY <2>1 DEF QueueType
  <2>4. 1 \notin NewAt
    BY <2>1 DEF NewAt
  <2>5. \A i \in NewAt' : i + 1 \in NewAt /\ msgs'[i] = msgs[i + 1]
    BY <2>2 DEF NewAt
  <2>6. \A i \in NewAt : i - 1 \in NewAt'
    BY <2>3, <2>4 DEF NewAt
  <2>7. NewAt' # {} <=> NewAt # {}
    BY <2>5, <2>6
  <2>8. \A i \in NewAt' : i \in Nat
    BY <2>1 DEF NewAt, QueueType
  <2>9. \A i, j \in NewAt' : i = j
    <3> TAKE i, j \in NewAt'
    <3>1. i + 1 = j + 1
      BY <2>5 DEF OneForRan
    <3> QED BY <2>8, <3>1
  <2> QED BY <1>2, <2>1, <2>5, <2>7, <2>9 DEF OneForRan, OnItsWay, IsNew
<1> QED BY <1>1, <1>2

\* So does sending another message, behind it or not at all.
LEMMA SendOther ==
  ASSUME QueueType, OneForRan, NEW m \in Message, m.type # "new", Send(m), ran' = ran
  PROVE  OneForRan' /\ (OnItsWay' <=> OnItsWay)
<1>1. CASE Blocked
  BY <1>1 DEF Send, Blocked, OneForRan, OnItsWay, IsNew, NewAt
<1>2. CASE ~Blocked
  <2>1. msg' = msg /\ msgs' = IF Len(msgs) < QueueSize THEN Append(msgs, m) ELSE msgs
    BY <1>2 DEF Send
  <2>2. CASE msgs' = msgs
    BY <2>1, <2>2 DEF OneForRan, OnItsWay, IsNew, NewAt
  <2>3. CASE msgs' = Append(msgs, m)
    <3>1. \A i \in DOMAIN msgs : i \in DOMAIN msgs' /\ msgs'[i] = msgs[i]
      BY <2>3 DEF QueueType
    <3>2. \A i \in DOMAIN msgs' : i \in DOMAIN msgs \/ msgs'[i] = m
      BY <2>3 DEF QueueType
    <3>3. NewAt' = NewAt /\ \A i \in NewAt : msgs'[i] = msgs[i]
      BY <3>1, <3>2 DEF NewAt
    <3> QED BY <2>1, <3>3 DEF OneForRan, OnItsWay, IsNew
  <2> QED BY <2>1, <2>2, <2>3
<1> QED BY <1>1, <1>2

LEMMA RunInit == Init => RunInv
<1> SUFFICES ASSUME Init PROVE RunInv
  OBVIOUS
<1>1. ~OnItsWay /\ OneForRan
  BY DEF Init, OnItsWay, OneForRan, IsNew, NewAt
<1>2. PlaceInv
  BY <1>1 DEF Init, PlaceInv
<1> QED BY <1>1, <1>2, TypeInit DEF RunInv

\* None on its way is one at most.
LEMMA NoneIsOne == ~OnItsWay' => OneForRan'
BY DEF OnItsWay, OneForRan

LEMMA OuterRun ==
  ASSUME RunInv, Ignore \/ ConfigFails \/ Configure \/ FirstReport
  PROVE  OneForRan' /\ PlaceInv'
<1> USE DEF RunInv, TypeInv
<1>1. CASE Ignore
  <2>1. CASE Received.type = "new"
    <3>1. Received.dev = ran /\ ~OnItsWay'
      BY <1>1, <2>1, ReceiveNew DEF Ignore
    <3>2. ran = NoDevice
      BY <1>1, <2>1, <3>1 DEF Ignore
    <3> QED BY <1>1, <3>1, <3>2, NoneIsOne DEF Ignore, PlaceInv, instance, history
  <2>2. CASE Received.type # "new"
    <3>1. OneForRan' /\ (OnItsWay' <=> OnItsWay)
      BY <1>1, <2>2, ReceiveOther DEF Ignore, history
    <3> QED BY <1>1, <3>1 DEF Ignore, PlaceInv, instance, history
  <2> QED BY <2>1, <2>2
<1>2. CASE ConfigFails
  <2>1. ~OnItsWay'
    BY <1>2, ReceiveNew DEF ConfigFails
  <2> QED BY <1>2, <2>1, NoneIsOne DEF ConfigFails, PlaceInv, instance
<1>3. CASE Configure
  <2>1. Received.dev = ran /\ OnItsWay /\ ~OnItsWay'
    BY <1>3, ReceiveNew DEF Configure
  <2> QED BY <1>3, <2>1, NoneIsOne DEF Configure, PlaceInv, history
<1>4. CASE FirstReport
  <2>1. OneForRan' /\ (OnItsWay' <=> OnItsWay)
    BY <1>4 DEF FirstReport, queue, OneForRan, OnItsWay, IsNew, NewAt
  <2> QED BY <1>4, <2>1 DEF FirstReport, PlaceInv, instance
<1> QED BY <1>1, <1>2, <1>3, <1>4

LEMMA ServeRun ==
  ASSUME RunInv, ServeValue \/ ServeSet \/ ServeAlive \/ ServeNew
  PROVE  OneForRan' /\ PlaceInv'
<1> USE DEF RunInv, TypeInv
<1>1. CASE ServeValue \/ ServeSet \/ ServeAlive
  <2>1. /\ Receive /\ Received.type # "new" /\ pc = "serve"
        /\ UNCHANGED <<pc, dev, ran, failed, lost>>
    BY <1>1 DEF ServeValue, ServeSet, ServeAlive, instance, history
  <2>2. OneForRan' /\ (OnItsWay' <=> OnItsWay)
    BY <2>1, ReceiveOther
  <2> QED BY <2>1, <2>2 DEF PlaceInv
<1>2. CASE ServeNew
  <2>1. Received.dev = ran /\ ~OnItsWay' /\ Received \in Message
    BY <1>2, ReceiveNew, ReceiveType DEF ServeNew
  <2>2. IsNew(again')
    BY <1>2, <2>1, NoMsgAssumption DEF ServeNew, IsNew
  <2> QED BY <1>2, <2>1, <2>2, NoneIsOne DEF ServeNew, PlaceInv
<1> QED BY <1>1, <1>2

LEMMA LeaveRun ==
  ASSUME RunInv, Requeue \/ Leave
  PROVE  OneForRan' /\ PlaceInv'
<1> USE DEF RunInv, TypeInv
<1>1. CASE Requeue
  <2>1. ~OnItsWay /\ IsNew(again) /\ again.dev = ran /\ ~failed /\ again \in Message
    BY <1>1 DEF Requeue, PlaceInv, RestType
  <2>2. msg' = msg /\ ran' = ran /\ failed' = failed
    BY <1>1 DEF Requeue
  <2>3. CASE Len(msgs) < QueueSize
    <3>1. msgs' = Append(msgs, again) /\ ~lost'
      <4>1. ~(Len(msgs) >= QueueSize)
        BY <2>3, QueueAssumption DEF QueueType
      <4>2. msgs' = Append(msgs, again)
        BY <1>1, <2>3 DEF Requeue, Requeued
      <4> QED BY <1>1, <4>1, <4>2 DEF Requeue
    <3>2. \A i \in DOMAIN msgs' : i = Len(msgs) + 1 \/ (i \in DOMAIN msgs /\ msgs'[i] = msgs[i])
      BY <3>1 DEF QueueType
    <3>3. Len(msgs) + 1 \in DOMAIN msgs' /\ msgs'[Len(msgs) + 1] = again
      BY <2>1, <3>1 DEF QueueType
    <3>4. NewAt' = {Len(msgs) + 1}
      BY <2>1, <3>2, <3>3 DEF NewAt, OnItsWay, IsNew
    <3>5. OnItsWay' /\ OneForRan'
      BY <2>1, <2>2, <3>3, <3>4 DEF OnItsWay, OneForRan, IsNew
    <3> QED BY <1>1, <2>1, <2>2, <3>1, <3>5 DEF Requeue, PlaceInv
  <2>4. CASE ~(Len(msgs) < QueueSize)
    <3>1. msgs' = msgs /\ lost'
      <4>1. Len(msgs) >= QueueSize
        BY <2>4, QueueAssumption DEF QueueType
      <4>2. msgs' = msgs
        BY <1>1, <2>4 DEF Requeue, Requeued
      <4> QED BY <1>1, <4>1, <4>2 DEF Requeue
    <3>2. ~OnItsWay'
      BY <2>1, <2>2, <3>1 DEF OnItsWay, IsNew, NewAt
    <3> QED BY <1>1, <3>1, <3>2, NoneIsOne DEF Requeue, PlaceInv
  <2> QED BY <2>3, <2>4
<1>2. CASE Leave
  <2>1. msgs' = [i \in DOMAIN msgs |-> OldMsg(msgs[i])]
    BY <1>2 DEF Leave, OldMsg
  <2>2. \A m \in Message : OldMsg(m).type = m.type /\ (m.type = "new" => OldMsg(m) = m)
    BY DEF OldMsg, Message
  <2>3. DOMAIN msgs' = DOMAIN msgs /\ \A i \in DOMAIN msgs : msgs[i] \in Message
    BY <2>1 DEF QueueType
  <2>4. NewAt' = NewAt /\ \A i \in NewAt : msgs'[i] = msgs[i]
    BY <2>1, <2>2, <2>3 DEF NewAt
  <2>5. OneForRan' /\ (OnItsWay' <=> OnItsWay)
    BY <1>2, <2>4 DEF Leave, OneForRan, OnItsWay, IsNew
  <2> QED BY <1>2, <2>5 DEF Leave, PlaceInv
<1> QED BY <1>1, <1>2

LEMMA OthersRun ==
  ASSUME RunInv, Others \/ UNCHANGED vars
  PROVE  OneForRan' /\ PlaceInv'
<1> USE DEF RunInv, TypeInv
<1>1. ASSUME NEW m \in Message, m.type # "new", Send(m), UNCHANGED <<again, pc, dev, ran, failed, lost>>
      PROVE  OneForRan' /\ PlaceInv'
  <2>1. OneForRan' /\ (OnItsWay' <=> OnItsWay)
    BY <1>1, SendOther
  <2> QED BY <1>1, <2>1 DEF PlaceInv
<1>2. ASSUME NEW v \in Value, Sample(v) PROVE OneForRan' /\ PlaceInv'
  <2>1. ValueMsg(v) \in Message /\ ValueMsg(v).type # "new"
    BY DEF ValueMsg, Message
  <2> QED BY <1>1, <1>2, <2>1 DEF Sample
<1>3. CASE SendAlive
  <2>1. AliveMsg \in Message /\ AliveMsg.type # "new"
    BY DEF AliveMsg, Message
  <2> QED BY <1>1, <1>3, <2>1 DEF SendAlive, instance, history
<1>4. ASSUME NEW d \in Output, NEW v \in Command, SetDevVal(d, v) PROVE OneForRan' /\ PlaceInv'
  <2>1. SetMsg(d, v) \in Message /\ SetMsg(d, v).type # "new"
    BY DEF SetMsg, Message
  <2> QED BY <1>1, <1>4, <2>1 DEF SetDevVal, instance, history
<1>5. ASSUME NEW d \in Device \cup {NoDevice}, List(d) PROVE OneForRan' /\ PlaceInv'
  BY <1>5 DEF List, OneForRan, PlaceInv, OnItsWay, IsNew, NewAt, queue, instance, history
<1>6. CASE RunEndpoint
  <2>1. msg' = NewDevice(listed) /\ msgs' = <<>> /\ ran' = listed
    BY <1>6 DEF RunEndpoint, Send, Blocked
  <2>2. NewDevice(listed) \in Message
    BY DEF NewDevice, Message, RestType
  <2>3. OnItsWay' /\ OneForRan'
    BY <2>1, <2>2, NoMsgAssumption DEF OnItsWay, OneForRan, IsNew, NewAt, NewDevice
  <2> QED BY <1>6, <2>3 DEF RunEndpoint, Blocked, PlaceInv, instance
<1>7. CASE UNCHANGED vars
  BY <1>7 DEF vars, OneForRan, PlaceInv, OnItsWay, IsNew, NewAt
<1> QED BY <1>2, <1>3, <1>4, <1>5, <1>6, <1>7 DEF Others

LEMMA RunStep == RunInv /\ [Next]_vars => RunInv'
<1> SUFFICES ASSUME RunInv, [Next]_vars PROVE RunInv'
  OBVIOUS
<1>1. TypeInv'
  BY TypeStep DEF RunInv
<1>2. OneForRan' /\ PlaceInv'
  BY OuterRun, ServeRun, LeaveRun, OthersRun DEF Next, Thread
<1> QED BY <1>1, <1>2 DEF RunInv

\* An end point with nothing more to do works as the device run_endpoint named
\* last, unless its configuration could not be read or the NEW_DEVICE the handler
\* sent to itself found the queue full.
THEOREM SettlesAsRun == Spec => []ServesAsRun
<1>1. RunInv => ServesAsRun
  <2> SUFFICES ASSUME RunInv, Blocked
               PROVE  dev = IF failed \/ lost THEN NoDevice ELSE ran
    BY DEF ServesAsRun
  <2>1. ~OnItsWay
    BY DEF Blocked, OnItsWay, IsNew, NewAt
  <2> QED BY <2>1 DEF RunInv, PlaceInv, Blocked
<1> QED BY RunInit, RunStep, <1>1, PTL DEF Spec

(***************************************************************************)
(* A new device reports no value of the old one.  When NEW_DEVICE is sent  *)
(* again it is behind every value of the old device, and the outer loop    *)
(* throws away what is before it; the instance is not sampled from the     *)
(* destructor on.  Only between the two can a value get behind it.         *)
(***************************************************************************)
IsValue(m) == m # NoMsg /\ m.type = "value"

NoOldValue ==
  /\ IsValue(msg) => ~msg.old
  /\ \A i \in DOMAIN msgs : IsValue(msgs[i]) => ~msgs[i].old

NoValueBehindNew ==
  /\ IsNew(msg) => \A i \in DOMAIN msgs : ~IsValue(msgs[i])
  /\ \A i, j \in DOMAIN msgs : i < j /\ IsNew(msgs[i]) => ~IsValue(msgs[j])

OldInv ==
  /\ stale => squeezed
  /\ pc = "outer" => ~sampled
  /\ ~squeezed /\ pc \in {"first", "serve"} => NoOldValue
  /\ ~squeezed /\ pc \in {"outer", "leave"} => NoValueBehindNew

\* What Receive does to the messages that wait, whichever it takes.
LEMMA ReceiveRest ==
  ASSUME QueueType, Receive
  PROVE  /\ msg' = NoMsg
         /\ NoOldValue => NoOldValue' /\ (IsValue(Received) => ~Received.old)
         /\ NoValueBehindNew => NoValueBehindNew'
         /\ NoValueBehindNew /\ IsNew(Received) => NoOldValue'
<1>1. CASE msg # NoMsg
  BY <1>1 DEF Receive, Received, NoOldValue, NoValueBehindNew, IsValue, IsNew
<1>2. CASE msg = NoMsg
  <2>1. msgs # <<>> /\ msgs' = Tail(msgs) /\ msg' = NoMsg /\ Received = msgs[1]
    BY <1>2 DEF Receive, Received, QueueType
  <2>2. 1 \in DOMAIN msgs /\ \A i \in DOMAIN msgs' :
          i \in Nat /\ 1 < i + 1 /\ i + 1 \in DOMAIN msgs /\ msgs'[i] = msgs[i + 1]
    BY <2>1 DEF QueueType
  <2>3. NoOldValue => NoOldValue' /\ (IsValue(Received) => ~Received.old)
    BY <2>1, <2>2 DEF NoOldValue, IsValue
  <2>4. ASSUME NoValueBehindNew PROVE NoValueBehindNew'
    <3>1. ASSUME NEW i \in DOMAIN msgs', NEW j \in DOMAIN msgs', i < j, IsNew(msgs'[i])
          PROVE  ~IsValue(msgs'[j])
      <4>1. i + 1 < j + 1 /\ IsNew(msgs[i + 1])
        BY <2>2, <3>1 DEF IsNew
      <4>2. ~IsValue(msgs[j + 1])
        BY <2>2, <2>4, <4>1 DEF NoValueBehindNew
      <4> QED BY <2>2, <4>2 DEF IsValue
    <3> QED BY <2>1, <3>1 DEF NoValueBehindNew, IsNew
  <2>5. ASSUME NoValueBehindNew, IsNew(Received) PROVE NoOldValue'
    <3>1. \A i \in DOMAIN msgs' : ~IsValue(msgs[i + 1])
      BY <2>1, <2>2, <2>5 DEF NoValueBehindNew
    <3> QED BY <2>1, <2>2, <3>1 DEF NoOldValue, IsValue
  <2> QED BY <2>1, <2>3, <2>4, <2>5
<1> QED BY <1>1, <1>2

\* What Send does to them.
LEMMA SendRest ==
  ASSUME QueueType, NEW m \in Message, m.type # "new", Send(m)
  PROVE  /\ NoOldValue /\ (IsValue(m) => ~m.old) => NoOldValue'
         /\ NoValueBehindNew /\ m.type # "value" => NoValueBehindNew'
<1>1. CASE Blocked
  BY <1>1 DEF Send, Blocked, NoOldValue, NoValueBehindNew, IsValue, IsNew
<1>2. CASE ~Blocked
  <2>1. msg' = msg /\ msgs' = IF Len(msgs) < QueueSize THEN Append(msgs, m) ELSE msgs
    BY <1>2 DEF Send
  <2>2. CASE msgs' = msgs
    BY <2>1, <2>2 DEF NoOldValue, NoValueBehindNew, IsValue, IsNew
  <2>3. CASE msgs' = Append(msgs, m)
    <3>1. \A i \in DOMAIN msgs' :
            \/ i \in DOMAIN msgs /\ msgs'[i] = msgs[i]
            \/ msgs'[i] = m
      BY <2>3 DEF QueueType
    <3>2. NoOldValue /\ (IsValue(m) => ~m.old) => NoOldValue'
      BY <2>1, <3>1 DEF NoOldValue, IsValue
    <3>3. ASSUME NoValueBehindNew, m.type # "value" PROVE NoValueBehindNew'
      BY <2>1, <3>1, <3>3 DEF NoValueBehindNew, IsValue, IsNew
    <3> QED BY <3>2, <3>3
  <2> QED BY <2>1, <2>2, <2>3
<1> QED BY <1>1, <1>2

LEMMA OldInit == Init => OldInv
BY DEF Init, OldInv, NoValueBehindNew, IsNew

LEMMA OuterOld ==
  ASSUME RunInv, OldInv, Ignore \/ ConfigFails \/ Configure \/ FirstReport
  PROVE  OldInv'
<1> USE DEF RunInv, TypeInv
<1>1. CASE Ignore
  BY <1>1, ReceiveRest DEF Ignore, OldInv, instance, history
<1>2. CASE ConfigFails
  BY <1>2, ReceiveRest DEF ConfigFails, OldInv, instance
<1>3. CASE Configure
  <2>1. IsNew(Received)
    BY <1>3, ReceiveType, NoMsgAssumption DEF Configure, IsNew
  <2> QED BY <1>3, <2>1, ReceiveRest DEF Configure, OldInv, history
<1>4. CASE FirstReport
  BY <1>4 DEF FirstReport, OldInv, NoOldValue, IsValue, queue, instance
<1> QED BY <1>1, <1>2, <1>3, <1>4

LEMMA ServeOld ==
  ASSUME RunInv, OldInv, ServeValue \/ ServeSet \/ ServeAlive \/ ServeNew
  PROVE  OldInv'
<1> USE DEF RunInv, TypeInv
<1>1. CASE ServeValue
  <2>1. IsValue(Received)
    BY <1>1, ReceiveType, NoMsgAssumption DEF ServeValue, IsValue
  <2>2. ~squeezed => ~Received.old /\ NoOldValue'
    BY <1>1, <2>1, ReceiveRest DEF ServeValue, OldInv
  <2> QED BY <1>1, <2>2 DEF ServeValue, OldInv
<1>2. CASE ServeSet
  BY <1>2, ReceiveRest DEF ServeSet, OldInv
<1>3. CASE ServeAlive
  BY <1>3, ReceiveRest DEF ServeAlive, OldInv, instance, history
<1>4. CASE ServeNew
  BY <1>4 DEF ServeNew, OldInv
<1> QED BY <1>1, <1>2, <1>3, <1>4

LEMMA LeaveOld ==
  ASSUME RunInv, OldInv, Requeue \/ Leave
  PROVE  OldInv'
<1> USE DEF RunInv, TypeInv
<1>1. CASE Requeue
  <2>1. ~OnItsWay /\ again \in Message
    BY <1>1 DEF Requeue, PlaceInv, RestType
  <2>2. ~IsNew(msg) /\ \A i \in DOMAIN msgs : ~IsNew(msgs[i])
    BY <2>1 DEF OnItsWay, NewAt, IsNew
  <2>3. msg' = msg /\ (msgs' = msgs \/ msgs' = Append(msgs, again))
    BY <1>1 DEF Requeue, Requeued
  <2>4. \A i, j \in DOMAIN msgs' : i < j => i \in DOMAIN msgs /\ msgs'[i] = msgs[i]
    BY <2>1, <2>3 DEF QueueType
  <2>5. NoValueBehindNew'
    BY <2>2, <2>3, <2>4 DEF NoValueBehindNew, IsNew
  <2> QED BY <1>1, <2>5 DEF Requeue, OldInv
<1>2. CASE Leave
  <2>1. msgs' = [i \in DOMAIN msgs |-> OldMsg(msgs[i])]
    BY <1>2 DEF Leave, OldMsg
  <2>2. DOMAIN msgs' = DOMAIN msgs /\ \A i \in DOMAIN msgs : msgs[i] \in Message
    BY <2>1 DEF QueueType
  <2>3. \A m \in Message : m # NoMsg /\ OldMsg(m).type = m.type
    BY NoMsgAssumption DEF OldMsg, Message
  <2>4. \A i \in DOMAIN msgs :
          (IsNew(msgs'[i]) => IsNew(msgs[i])) /\ (IsValue(msgs'[i]) => IsValue(msgs[i]))
    BY <2>1, <2>2, <2>3 DEF IsNew, IsValue
  <2>5. NoValueBehindNew => NoValueBehindNew'
    BY <1>2, <2>2, <2>4 DEF Leave, NoValueBehindNew, IsNew
  <2> QED BY <1>2, <2>5 DEF Leave, OldInv
<1> QED BY <1>1, <1>2

LEMMA OthersOld ==
  ASSUME RunInv, OldInv, Others \/ UNCHANGED vars
  PROVE  OldInv'
<1> USE DEF RunInv, TypeInv
<1>1. ASSUME NEW m \in Message, m.type \notin {"new", "value"}, Send(m),
             UNCHANGED <<pc, sampled, squeezed, stale>>
      PROVE  OldInv'
  <2>1. ~IsValue(m)
    BY <1>1 DEF IsValue
  <2> QED BY <1>1, <2>1, SendRest DEF OldInv
<1>2. ASSUME NEW v \in Value, Sample(v) PROVE OldInv'
  <2>1. ValueMsg(v) \in Message /\ ValueMsg(v).type # "new" /\ ~ValueMsg(v).old
    BY DEF ValueMsg, Message
  <2>2. NoOldValue => NoOldValue'
    BY <1>2, <2>1, SendRest DEF Sample
  <2>3. pc # "outer" /\ pc' = pc /\ (squeezed' <=> squeezed \/ pc = "leave")
        /\ stale' = stale
    BY <1>2 DEF Sample, OldInv
  <2> QED BY <2>2, <2>3 DEF OldInv
<1>3. CASE SendAlive
  <2>1. AliveMsg \in Message /\ AliveMsg.type \notin {"new", "value"}
    BY DEF AliveMsg, Message
  <2> QED BY <1>1, <1>3, <2>1 DEF SendAlive, instance, history
<1>4. ASSUME NEW d \in Output, NEW v \in Command, SetDevVal(d, v) PROVE OldInv'
  <2>1. SetMsg(d, v) \in Message /\ SetMsg(d, v).type \notin {"new", "value"}
    BY DEF SetMsg, Message
  <2> QED BY <1>1, <1>4, <2>1 DEF SetDevVal, instance, history
<1>5. ASSUME NEW d \in Device \cup {NoDevice}, List(d) PROVE OldInv'
  BY <1>5 DEF List, OldInv, NoOldValue, NoValueBehindNew, IsValue, IsNew, queue, instance, history
<1>6. CASE RunEndpoint
  <2>1. msg' = NewDevice(listed) /\ msgs' = <<>>
    BY <1>6 DEF RunEndpoint, Send, Blocked
  <2>2. NoOldValue' /\ NoValueBehindNew'
    BY <2>1 DEF NoOldValue, NoValueBehindNew, IsValue, NewDevice
  <2> QED BY <1>6, <2>2 DEF RunEndpoint, OldInv, instance
<1>7. CASE UNCHANGED vars
  BY <1>7 DEF vars, OldInv, NoOldValue, NoValueBehindNew, IsValue, IsNew
<1> QED BY <1>2, <1>3, <1>4, <1>5, <1>6, <1>7 DEF Others

\* A new device reports a value of the old one only if the timer interrupt came
\* between msg_send_to_self and the destructor.
THEOREM OldStay == Spec => []OldValuesStay
<1>1. RunInv /\ OldInv /\ [Next]_vars => OldInv'
  BY OuterOld, ServeOld, LeaveOld, OthersOld DEF Next, Thread
<1>2. OldInv => OldValuesStay
  BY DEF OldInv, OldValuesStay
<1> QED BY RunInit, RunStep, OldInit, <1>1, <1>2, PTL DEF Spec

(***************************************************************************)
(* The control centre's last value of a device is its state.               *)
(***************************************************************************)

\* An output that blinks is in the table of the blink interrupt, with the
\* frequency its last command named; any other is not in it.
TrueOut(o) ==
  /\ Owned(o)
  /\ o.blinks => o.table /\ o.old = 100 + o.freq

\* What is fed back then is what the output does.
LEMMA FeedbackIsShown ==
  ASSUME NEW o, TrueOut(o)
  PROVE  Feedback(o) = Shown(o)
BY DEF TrueOut, Owned, OutRec, Feedback, Shown

LEMMA SetToTrue ==
  ASSUME NEW o, Owned(o), NEW level \in Nat
  PROVE  TrueOut(SetTo(o, level)) /\ SetTo(o, level).blinks = FALSE
<1>1. Owned(SetTo(o, level))
  BY SetToOwned
<1>2. SetTo(o, level).blinks = FALSE
  BY DEF SetTo, Owned, OutRec
<1> QED BY <1>1, <1>2 DEF TrueOut

\* Half a period of at least two milliseconds for every frequency a byte over
\* 100 can name.
LEMMA PeriodIsLong ==
  ASSUME NEW freq \in 1 .. 155
  PROVE  Period(freq) >= 2
<1>1. 1000 \div freq >= 2
  OBVIOUS
<1> QED BY <1>1 DEF Period

LEMMA BlinkTrue ==
  ASSUME NEW o, Owned(o), NEW v \in 101 .. 255, o.old = v
  PROVE  TrueOut(Blink(o, v - 100))
<1> DEFINE freq == v - 100
<1>1. freq \in 1 .. 155 /\ freq \in 0 .. 255 /\ v = 100 + freq
  OBVIOUS
<1> HIDE DEF freq
<1>2. Period(freq) >= 2 /\ Period(freq) \in Nat
  BY <1>1, PeriodIsLong DEF Period
<1>3. Blink(o, freq) = [o EXCEPT !.blinks = TRUE, !.table = TRUE, !.freq = freq]
  BY <1>2 DEF Blink
<1>4. Owned(Blink(o, freq))
  BY <1>1, BlinkOwned
<1>5. Blink(o, freq).table /\ Blink(o, freq).old = v /\ Blink(o, freq).freq = freq
  BY <1>3 DEF Owned, OutRec
<1>6. TrueOut(Blink(o, freq))
  BY <1>1, <1>4, <1>5 DEF TrueOut
<1> QED BY <1>6 DEF freq

\* The handlers leave an output true, an on/off output if the command fits in a
\* byte.
LEMMA OnOffTrue ==
  ASSUME NEW o, TrueOut(o), NEW v \in 0 .. 255
  PROVE  TrueOut(OnOffSet(o, v))
<1>0. Owned(o)
  BY DEF TrueOut
<1>1. CASE v \in {0, 1}
  <2>1. OnOffSet(o, v) = SetTo(o, v) /\ v \in Nat
    BY <1>1 DEF OnOffSet
  <2> QED BY <1>0, <2>1, SetToTrue
<1>2. CASE v = 2
  <2>1. OnOffSet(o, v) = SetTo(o, Toggled(o)) /\ Toggled(o) \in Nat
    BY <1>2 DEF OnOffSet, Toggled
  <2> QED BY <1>0, <2>1, SetToTrue
<1>3. CASE v > 100
  <2>1. v % 256 = v /\ (v - 100) % 256 = v - 100
    BY <1>3
  <2> DEFINE p == [o EXCEPT !.old = v]
  <2>2. OnOffSet(o, v) = Blink(p, v - 100)
    BY <1>3, <2>1 DEF OnOffSet
  <2>3. Owned(p) /\ p.old = v
    BY <1>0, OldOwned DEF Owned, OutRec
  <2>4. v \in 101 .. 255
    BY <1>3
  <2> HIDE DEF p
  <2> QED BY <2>2, <2>3, <2>4, BlinkTrue
<1>4. CASE v \notin {0, 1, 2} /\ ~(v > 100)
  <2>1. OnOffSet(o, v) = o
    BY <1>4 DEF OnOffSet
  <2> QED BY <2>1
<1> QED BY <1>1, <1>2, <1>3, <1>4

LEMMA LevelTrue ==
  ASSUME NEW o, TrueOut(o), NEW v \in Nat
  PROVE  TrueOut(LevelSet(o, v))
<1> DEFINE w == v % 256
           p == [o EXCEPT !.old = w]
<1>1. w \in 0 .. 255
  BY ByteRange
<1>2. Owned(p) /\ p.old = w
  <2>1. Owned(o) /\ o \in OutRec
    BY DEF TrueOut, Owned
  <2> HIDE DEF w
  <2>2. p.old = w
    BY <2>1 DEF OutRec
  <2>3. Owned(p)
    BY <1>1, <2>1, OldOwned
  <2> QED BY <2>2, <2>3
<1>3. LevelSet(o, v) = IF w <= 100 THEN SetTo(p, w) ELSE Blink(p, w - 100)
  BY DEF LevelSet
<1> HIDE DEF w, p
<1>4. CASE w <= 100
  <2>1. LevelSet(o, v) = SetTo(p, w) /\ w \in Nat
    BY <1>1, <1>3, <1>4
  <2> QED BY <1>2, <2>1, SetToTrue
<1>5. CASE ~(w <= 100)
  <2>1. LevelSet(o, v) = Blink(p, w - 100) /\ w \in 101 .. 255
    BY <1>1, <1>3, <1>5
  <2> QED BY <1>2, <2>1, BlinkTrue
<1> QED BY <1>4, <1>5

(***************************************************************************)
(* Values on their way.  Of those of a button that wait, the last that is  *)
(* not of an earlier instance is the status of the button.                 *)
(***************************************************************************)
NoValues == ~IsValue(msg) /\ \A i \in DOMAIN msgs : ~IsValue(msgs[i])

Good(m, s) == m.old \/ m.val = s

LastIsGood(s) ==
  /\ IsValue(msg) /\ (\A i \in DOMAIN msgs : ~IsValue(msgs[i])) => Good(msg, s)
  /\ \A i \in DOMAIN msgs :
       IsValue(msgs[i]) /\ (\A j \in DOMAIN msgs : i < j => ~IsValue(msgs[j])) => Good(msgs[i], s)

AllOld ==
  /\ IsValue(msg) => msg.old
  /\ \A i \in DOMAIN msgs : IsValue(msgs[i]) => msgs[i].old

LEMMA AllOldIsGood == \A s : AllOld => LastIsGood(s)
BY DEF AllOld, LastIsGood, Good

\* What Receive does to them.
LEMMA ReceiveLast ==
  ASSUME QueueType, Receive, NEW s
  PROVE  /\ LastIsGood(s) => LastIsGood(s)'
         /\ LastIsGood(s) /\ IsValue(Received) /\ NoValues' => Good(Received, s)
         /\ ~IsValue(Received) /\ NoValues' => NoValues
         /\ AllOld => AllOld'
<1>1. CASE msg # NoMsg
  <2>1. msg' = NoMsg /\ msgs' = msgs /\ Received = msg
    BY <1>1 DEF Receive, Received
  <2> QED BY <2>1 DEF LastIsGood, NoValues, AllOld, IsValue
<1>2. CASE msg = NoMsg
  <2>1. msgs # <<>> /\ msgs' = Tail(msgs) /\ msg' = NoMsg /\ Received = msgs[1]
    BY <1>2 DEF Receive, Received, QueueType
  <2>2. /\ 1 \in DOMAIN msgs
        /\ \A i \in DOMAIN msgs' :
             i \in Nat /\ 1 < i + 1 /\ i + 1 \in DOMAIN msgs /\ msgs'[i] = msgs[i + 1]
        /\ \A i \in DOMAIN msgs : i \in Nat /\
             (i = 1 \/ (i - 1 \in DOMAIN msgs' /\ msgs'[i - 1] = msgs[i] /\ 1 < i))
    BY <2>1 DEF QueueType
  <2>3. ASSUME LastIsGood(s) PROVE LastIsGood(s)'
    <3>1. ASSUME NEW i \in DOMAIN msgs', IsValue(msgs'[i]),
                 \A j \in DOMAIN msgs' : i < j => ~IsValue(msgs'[j])
          PROVE  Good(msgs'[i], s)
      <4>1. IsValue(msgs[i + 1]) /\ i + 1 \in DOMAIN msgs /\ msgs'[i] = msgs[i + 1]
        BY <2>2, <3>1
      <4>2. ASSUME NEW j \in DOMAIN msgs, i + 1 < j PROVE ~IsValue(msgs[j])
        <5>1. j - 1 \in DOMAIN msgs' /\ i < j - 1 /\ msgs'[j - 1] = msgs[j]
          BY <2>2, <4>2
        <5> QED BY <3>1, <5>1
      <4> QED BY <2>3, <4>1, <4>2 DEF LastIsGood
    <3> QED BY <2>1, <3>1 DEF LastIsGood, IsValue, Good
  <2>4. (\A i \in DOMAIN msgs' : ~IsValue(msgs'[i])) =>
          \A i \in DOMAIN msgs : 1 < i => ~IsValue(msgs[i])
    BY <2>2
  <2>5. LastIsGood(s) /\ IsValue(Received) /\ NoValues' => Good(Received, s)
    <3> SUFFICES ASSUME LastIsGood(s), IsValue(Received), NoValues' PROVE Good(Received, s)
      OBVIOUS
    <3>1. \A i \in DOMAIN msgs : 1 < i => ~IsValue(msgs[i])
      BY <2>4 DEF NoValues, IsValue
    <3> QED BY <2>1, <2>2, <3>1 DEF LastIsGood
  <2>6. ~IsValue(Received) /\ NoValues' => NoValues
    <3> SUFFICES ASSUME ~IsValue(Received), NoValues' PROVE NoValues
      OBVIOUS
    <3>1. \A i \in DOMAIN msgs : 1 < i => ~IsValue(msgs[i])
      BY <2>4 DEF NoValues, IsValue
    <3> QED BY <1>2, <2>1, <2>2, <3>1 DEF NoValues, IsValue
  <2>7. AllOld => AllOld'
    BY <2>1, <2>2 DEF AllOld, IsValue
  <2> QED BY <2>3, <2>5, <2>6, <2>7
<1> QED BY <1>1, <1>2

\* What Send of another message does to them.
LEMMA SendLast ==
  ASSUME QueueType, NEW m \in Message, m.type # "value", Send(m), NEW s
  PROVE  /\ LastIsGood(s) => LastIsGood(s)'
         /\ NoValues' => NoValues
         /\ AllOld => AllOld'
<1>0. ~IsValue(m)
  BY DEF IsValue
<1>1. CASE Blocked
  BY <1>0, <1>1 DEF Send, Blocked, LastIsGood, NoValues, AllOld, IsValue
<1>2. CASE ~Blocked
  <2>1. msg' = msg /\ msgs' = IF Len(msgs) < QueueSize THEN Append(msgs, m) ELSE msgs
    BY <1>2 DEF Send
  <2>2. CASE msgs' = msgs
    BY <2>1, <2>2 DEF LastIsGood, NoValues, AllOld, IsValue, Good
  <2>3. CASE msgs' = Append(msgs, m)
    <3>1. /\ \A i \in DOMAIN msgs : i \in DOMAIN msgs' /\ msgs'[i] = msgs[i]
          /\ \A i \in DOMAIN msgs' : (i \in DOMAIN msgs /\ msgs'[i] = msgs[i]) \/ msgs'[i] = m
      BY <2>3 DEF QueueType
    <3>2. \A i \in DOMAIN msgs' : IsValue(msgs'[i]) => i \in DOMAIN msgs /\ msgs'[i] = msgs[i]
      BY <1>0, <3>1
    <3>3. NoValues' => NoValues
      BY <2>1, <3>1 DEF NoValues, IsValue
    <3>4. AllOld => AllOld'
      BY <2>1, <3>2 DEF AllOld, IsValue
    <3>5. LastIsGood(s) => LastIsGood(s)'
      BY <2>1, <3>1, <3>2 DEF LastIsGood, IsValue, Good
    <3> QED BY <3>3, <3>4, <3>5
  <2> QED BY <2>1, <2>2, <2>3
<1> QED BY <1>1, <1>2

\* A value that is sent is the last one.
LEMMA SampleLast ==
  ASSUME QueueType, NEW v \in Value, Send(ValueMsg(v)), HasRoom
  PROVE  LastIsGood(v)' /\ ~NoValues'
<1> DEFINE m == ValueMsg(v)
<1>0. m \in Message /\ m.type = "value" /\ m.val = v
  BY DEF ValueMsg, Message
<1>1. m \in Message /\ IsValue(m) /\ Good(m, v)
  BY <1>0, NoMsgAssumption DEF IsValue, Good
<1> HIDE DEF m
<1>2. CASE Blocked
  <2>1. msg' = m /\ msgs' = <<>>
    BY <1>2 DEF Send, Blocked, m
  <2> QED BY <1>1, <2>1 DEF LastIsGood, NoValues, IsValue
<1>3. CASE ~Blocked
  <2>1. msgs' = Append(msgs, m)
    BY <1>3 DEF Send, HasRoom, m
  <2>2. /\ \A i \in DOMAIN msgs' : i < Len(msgs) + 1 \/ i = Len(msgs) + 1
        /\ Len(msgs) + 1 \in DOMAIN msgs' /\ msgs'[Len(msgs) + 1] = m
    BY <1>1, <2>1 DEF QueueType
  <2>3. IsValue(msgs'[Len(msgs) + 1]) /\ Good(msgs'[Len(msgs) + 1], v)
    BY <1>1, <2>2
  <2>4. ~NoValues'
    BY <2>2, <2>3 DEF NoValues, IsValue
  <2>5. LastIsGood(v)'
    BY <2>2, <2>3 DEF LastIsGood, IsValue, Good
  <2> QED BY <2>4, <2>5
<1> QED BY <1>2, <1>3

(***************************************************************************)
(* Together.                                                               *)
(***************************************************************************)

\* What a button has reported, or is about to
ButtonInv ==
  dev \in Button /\ ~missed /\ pc \in {"first", "serve"} =>
    /\ LastIsGood(status)
    /\ NoValues => IF pc = "first" THEN status = FirstValue ELSE stale \/ reported = status

\* What an output has reported, or is about to
OutputInv ==
  dev \in Output =>
    /\ TrueOut(out)
    /\ pc = "first" => ~out.blinks
    /\ pc = "serve" => reported = Shown(out)

ReportInv ==
  /\ pc \in {"first", "again", "leave"} => msg = NoMsg
  /\ pc = "outer" => AllOld
  /\ ButtonInv
  /\ OutputInv

LEMMA ReportInit == Init => ReportInv
<1> SUFFICES ASSUME Init PROVE ReportInv
  OBVIOUS
<1>1. AllOld
  BY DEF Init, AllOld, IsValue
<1> QED BY <1>1, DeviceAssumption DEF Init, ReportInv, ButtonInv, OutputInv, Device, Input

LEMMA OuterReport ==
  ASSUME RunInv, OldInv, ReportInv, Ignore \/ ConfigFails \/ Configure \/ FirstReport
  PROVE  ReportInv'
<1> USE DEF RunInv, TypeInv
<1>1. CASE Ignore \/ ConfigFails
  <2>1. /\ Receive /\ pc = "outer" /\ pc' = pc /\ dev' = dev /\ dev = NoDevice
    BY <1>1 DEF Ignore, ConfigFails, instance, PlaceInv
  <2>2. AllOld'
    BY <2>1, ReceiveLast DEF ReportInv
  <2>3. dev' \notin Button /\ dev' \notin Output
    BY <2>1, DeviceAssumption DEF Device, Input
  <2> QED BY <2>1, <2>2, <2>3 DEF ReportInv, ButtonInv, OutputInv
<1>2. CASE Configure
  <2>1. /\ Receive /\ pc = "outer" /\ pc' = "first" /\ status' = FirstValue
        /\ out' = Fresh(dev')
    BY <1>2 DEF Configure
  <2>2. AllOld' /\ msg' = NoMsg
    BY <2>1, ReceiveLast, ReceiveRest DEF ReportInv
  <2>3. LastIsGood(status)'
    BY <2>2 DEF AllOld, LastIsGood, Good
  <2>4. TrueOut(out') /\ ~out'.blinks
    BY <2>1, FreshOwned DEF TrueOut, Owned, Fresh
  <2>5. ButtonInv'
    BY <2>1, <2>3 DEF ButtonInv
  <2>6. OutputInv'
    BY <2>1, <2>4 DEF OutputInv
  <2> QED BY <2>1, <2>2, <2>5, <2>6 DEF ReportInv
<1>3. CASE FirstReport
  <2>1. /\ pc = "first" /\ pc' = "serve"
        /\ UNCHANGED <<dev, missed, status, out, msg, msgs>>
    BY <1>3 DEF FirstReport, instance, queue
  <2>2. dev \in Button => reported' = FirstValue
    BY <1>3, DeviceAssumption DEF FirstReport, Input
  <2>3. dev \in Output => reported' = out.level
    BY <1>3, DeviceAssumption DEF FirstReport, Input
  <2>4. ButtonInv'
    BY <2>1, <2>2 DEF ReportInv, ButtonInv, LastIsGood, NoValues, IsValue, Good
  <2>5. OutputInv'
    BY <2>1, <2>3 DEF ReportInv, OutputInv, TrueOut, Owned, Shown
  <2> QED BY <2>1, <2>4, <2>5 DEF ReportInv
<1> QED BY <1>1, <1>2, <1>3

LEMMA ServeReport ==
  ASSUME \A v \in Command : v <= 255,
         RunInv, OldInv, ReportInv, ServeValue \/ ServeSet \/ ServeAlive \/ ServeNew
  PROVE  ReportInv'
<1> USE DEF RunInv, TypeInv
<1>1. CASE ServeNew
  <2>1. Receive /\ pc' = "again" /\ dev' = dev /\ out' = IF dev \in Output THEN SetTo(out, 0) ELSE out
    BY <1>1 DEF ServeNew
  <2>2. msg' = NoMsg
    BY <2>1, ReceiveRest
  <2>3. dev \in Output => TrueOut(out')
    BY <2>1, SetToTrue DEF TableType
  <2> QED BY <2>1, <2>2, <2>3 DEF ReportInv, ButtonInv, OutputInv
<1>2. ASSUME Receive, pc = "serve", UNCHANGED <<pc, dev, status, missed>>, OutputInv',
             dev \in Button => IF IsValue(Received)
                                  THEN reported' = Received.val /\ stale' = Received.old
                                  ELSE UNCHANGED <<reported, stale>>
      PROVE  ReportInv'
  <2>1. ASSUME dev \in Button, ~missed PROVE LastIsGood(status) /\ (NoValues => stale \/ reported = status)
    BY <1>2, <2>1 DEF ReportInv, ButtonInv
  <2>2. ASSUME dev \in Button, ~missed PROVE LastIsGood(status)'
    <3>1. \A s : LastIsGood(s) => LastIsGood(s)'
      BY <1>2, ReceiveLast
    <3>2. PICK s : s = status
      OBVIOUS
    <3>3. LastIsGood(s)' /\ s = status'
      BY <1>2, <2>1, <2>2, <3>1, <3>2
    <3> QED BY <3>3 DEF LastIsGood
  <2>3. ASSUME dev \in Button, ~missed, NoValues' PROVE stale' \/ reported' = status'
    <3>1. CASE IsValue(Received)
      <4>1. Good(Received, status)
        BY <1>2, <2>1, <2>3, <3>1, ReceiveLast
      <4> QED BY <1>2, <2>3, <3>1, <4>1 DEF Good
    <3>2. CASE ~IsValue(Received)
      <4>1. NoValues
        BY <1>2, <2>3, <3>2, ReceiveLast
      <4> QED BY <1>2, <2>1, <2>3, <3>2, <4>1
    <3> QED BY <3>1, <3>2
  <2>4. ButtonInv'
    BY <1>2, <2>2, <2>3 DEF ButtonInv
  <2> QED BY <1>2, <2>4 DEF ReportInv
<1>3. CASE ServeValue
  <2>1. IsValue(Received)
    BY <1>3, ReceiveType, NoMsgAssumption DEF ServeValue, IsValue
  <2>2. OutputInv'
    BY <1>3, DeviceAssumption DEF ServeValue, ReportInv, OutputInv, instance
  <2> QED BY <1>2, <1>3, <2>1, <2>2 DEF ServeValue, Input, instance
<1>4. CASE ServeSet
  <2>1. ~IsValue(Received) /\ Received \in Message
    BY <1>4, ReceiveType DEF ServeSet, IsValue
  <2>2. Received.val \in 0 .. 255 /\ Received.val \in Nat
    BY <1>4, <2>1, MessageFields, ValueAssumption DEF ServeSet
  <2>3. ASSUME dev \in Output PROVE TrueOut(out') /\ reported' = Shown(out')
    <3>1. TrueOut(out)
      BY <2>3 DEF ReportInv, OutputInv
    <3>2. /\ out' = CASE Received.dev # dev -> out
                      [] dev \in OnOff -> OnOffSet(out, Received.val)
                      [] OTHER         -> LevelSet(out, Received.val)
          /\ reported' = Feedback(out')
      BY <1>4, <2>3 DEF ServeSet
    <3>3. TrueOut(out')
      BY <2>2, <3>1, <3>2, OnOffTrue, LevelTrue
    <3> QED BY <3>2, <3>3, FeedbackIsShown
  <2>4. OutputInv'
    BY <1>4, <2>3 DEF ServeSet, OutputInv
  <2>5. dev \in Button => UNCHANGED <<reported, stale>>
    BY <1>4, DeviceAssumption DEF ServeSet, Input
  <2> QED BY <1>2, <1>4, <2>1, <2>4, <2>5 DEF ServeSet
<1>5. CASE ServeAlive
  <2>1. ~IsValue(Received)
    BY <1>5 DEF ServeAlive, IsValue
  <2>2. OutputInv'
    BY <1>5 DEF ServeAlive, ReportInv, OutputInv, instance, history
  <2> QED BY <1>2, <1>5, <2>1, <2>2 DEF ServeAlive, instance, history
<1> QED BY <1>1, <1>3, <1>4, <1>5

LEMMA LeaveReport ==
  ASSUME RunInv, OldInv, ReportInv, Requeue \/ Leave
  PROVE  ReportInv'
<1> USE DEF RunInv, TypeInv
<1>1. CASE Requeue
  BY <1>1 DEF Requeue, ReportInv, ButtonInv, OutputInv, instance
<1>2. CASE Leave
  <2>1. /\ msg = NoMsg /\ msg' = msg /\ pc' = "outer" /\ dev' = NoDevice
        /\ msgs' = [i \in DOMAIN msgs |-> OldMsg(msgs[i])]
    BY <1>2 DEF Leave, OldMsg, ReportInv
  <2>2. \A m \in Message : IsValue(OldMsg(m)) => OldMsg(m).old
    BY DEF OldMsg, Message, IsValue
  <2>3. \A i \in DOMAIN msgs : msgs[i] \in Message
    BY DEF QueueType
  <2>4. AllOld'
    BY <2>1, <2>2, <2>3 DEF AllOld, IsValue
  <2>5. dev' \notin Button /\ dev' \notin Output
    BY <2>1, DeviceAssumption DEF Device, Input
  <2> QED BY <2>1, <2>4, <2>5 DEF ReportInv, ButtonInv, OutputInv
<1> QED BY <1>1, <1>2

LEMMA OthersReport ==
  ASSUME RunInv, OldInv, ReportInv, Others \/ UNCHANGED vars
  PROVE  ReportInv'
<1> USE DEF RunInv, TypeInv
<1>0. ASSUME NEW m, Send(m), pc \in {"first", "again", "leave"} PROVE msg' = msg
  BY <1>0 DEF Send, Blocked
<1>1. ASSUME NEW m \in Message, m.type # "value", Send(m), UNCHANGED <<pc, instance, reported, missed, stale>>
      PROVE  ReportInv'
  <2>1. \A s : LastIsGood(s) => LastIsGood(s)'
    BY <1>1, SendLast
  <2>2. (NoValues' => NoValues) /\ (AllOld => AllOld')
    BY <1>1, SendLast
  <2>3. PICK s : s = status
    OBVIOUS
  <2>4. LastIsGood(status) => LastIsGood(status)'
    <3>1. LastIsGood(s) => LastIsGood(s)'
      BY <2>1
    <3> QED BY <1>1, <2>3, <3>1 DEF LastIsGood, instance
  <2>5. ButtonInv'
    BY <1>1, <2>2, <2>4 DEF ReportInv, ButtonInv, instance
  <2>6. OutputInv'
    BY <1>1 DEF ReportInv, OutputInv, instance
  <2> QED BY <1>0, <1>1, <2>2, <2>5, <2>6 DEF ReportInv
<1>2. ASSUME NEW v \in Value, Sample(v) PROVE ReportInv'
  <2>1. /\ sampled /\ Send(ValueMsg(v)) /\ status' = v /\ missed' = ~HasRoom
        /\ UNCHANGED <<pc, dev, out, reported>>
    BY <1>2 DEF Sample
  <2>2. pc # "outer"
    BY <2>1 DEF OldInv
  <2>3. ASSUME HasRoom PROVE LastIsGood(status)' /\ ~NoValues'
    <3>1. LastIsGood(v)' /\ ~NoValues'
      BY <2>1, <2>3, SampleLast
    <3> QED BY <2>1, <3>1 DEF LastIsGood
  <2>4. ButtonInv'
    BY <2>1, <2>3 DEF ButtonInv
  <2>5. OutputInv'
    BY <2>1 DEF ReportInv, OutputInv
  <2> QED BY <1>0, <2>1, <2>2, <2>4, <2>5 DEF ReportInv
<1>3. CASE SendAlive
  <2>1. AliveMsg \in Message /\ AliveMsg.type # "value"
    BY DEF AliveMsg, Message
  <2> QED BY <1>1, <1>3, <2>1 DEF SendAlive, instance, history
<1>4. ASSUME NEW d \in Output, NEW v \in Command, SetDevVal(d, v) PROVE ReportInv'
  <2>1. SetMsg(d, v) \in Message /\ SetMsg(d, v).type # "value"
    BY DEF SetMsg, Message
  <2> QED BY <1>1, <1>4, <2>1 DEF SetDevVal, instance, history
<1>5. CASE RunEndpoint
  <2>1. NewDevice(listed) \in Message /\ NewDevice(listed).type # "value"
    BY DEF NewDevice, Message, RestType
  <2> QED BY <1>1, <1>5, <2>1 DEF RunEndpoint, instance
<1>6. CASE (\E d \in Device \cup {NoDevice} : List(d)) \/ UNCHANGED vars
  <2>1. UNCHANGED <<pc, msg, msgs, dev, status, out, reported, missed, stale>>
    BY <1>6 DEF List, queue, instance, history, vars
  <2> QED BY <2>1 DEF ReportInv, ButtonInv, OutputInv, AllOld, LastIsGood, NoValues, IsValue, Good
<1> QED BY <1>2, <1>3, <1>4, <1>5, <1>6 DEF Others

\* Whenever an end point has nothing more to do, the last value the control centre
\* was sent of it is the state of its button, unless the last change was refused
\* by a full queue, or what its output does, blinking or not (ReportIsTrue).  The
\* commands must fit in a byte: the feedback of an on/off output that is told to
\* blink by a larger one is cut to eight bits.
THEOREM ReportsAreTrue ==
  ASSUME \A v \in Command : v <= 255 PROVE Spec => []ReportIsTrue
<1>1. RunInv /\ OldInv /\ ReportInv /\ [Next]_vars => ReportInv'
  BY OuterReport, ServeReport, LeaveReport, OthersReport DEF Next, Thread
<1>2. RunInv /\ OldInv /\ [Next]_vars => OldInv'
  BY OuterOld, ServeOld, LeaveOld, OthersOld DEF Next, Thread
<1>3. RunInv /\ ReportInv => ReportIsTrue
  <2> SUFFICES ASSUME RunInv, ReportInv, Blocked
               PROVE  /\ dev \in Button /\ ~missed /\ ~stale => reported = status
                      /\ dev \in Output => reported = Shown(out)
    BY DEF ReportIsTrue
  <2>1. NoValues
    BY DEF Blocked, NoValues, IsValue
  <2>2. pc = "outer" => dev = NoDevice
    BY DEF RunInv, PlaceInv
  <2>3. dev # NoDevice => pc = "serve"
    BY <2>2 DEF Blocked
  <2>4. dev \in Button \cup Output => pc = "serve"
    BY <2>3, DeviceAssumption DEF Device, Input
  <2> QED BY <2>1, <2>4 DEF ReportInv, ButtonInv, OutputInv
<1> QED BY RunInit, RunStep, OldInit, ReportInit, <1>1, <1>2, <1>3, PTL DEF Spec
=============================================================================
