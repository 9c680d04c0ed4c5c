------------------------------ MODULE EndPoint ------------------------------
(***************************************************************************)
(* An end point of the host (ha_device_handler.cpp): one thread that works *)
(* as the device its line in the device list names.  It receives           *)
(*   - NEW_DEVICE from the shell (run_endpoint), the shell also edits the  *)
(*     list,                                                               *)
(*   - the values of its input from a timer interrupt,                     *)
(*   - SET_DEV_VAL for its output from the 6LoWPAN receiver,               *)
(*   - SEND_ALIVE from the RTC interrupt.                                  *)
(* The handler of a device leaves when it receives NEW_DEVICE, and sends   *)
(* that message to itself for the outer loop, which ignores all others.    *)
(*                                                                         *)
(* Interrupts and the receiver come between any two steps of the thread;   *)
(* the shell, of lower priority, only while the thread waits.              *)
(***************************************************************************)
EXTENDS Integers, Sequences

CONSTANTS
  Button,      \* inputs that report their first value and then every change
  Sensor,      \* inputs that report every value the interrupt sends
  OnOff,       \* ON_OFF_OPUT devices
  Level,       \* LEVEL_BULB devices
  NoDevice,    \* NO_DEVICE; also the state of a thread without a device
  NoMsg,
  Value,       \* values of inputs
  FirstValue,  \* btn_no_pressed, sw_off
  Command,     \* values of SET_DEV_VAL messages
  QueueSize    \* queue_handler_size

Input == Button \cup Sensor
Output == OnOff \cup Level
Device == Input \cup Output

ASSUME DeviceAssumption ==
  /\ NoDevice \notin Device
  /\ Input \cap Output = {} /\ OnOff \cap Level = {} /\ Button \cap Sensor = {}
ASSUME ValueAssumption == FirstValue \in Value /\ Value \subseteq Nat /\ Command \subseteq Nat
ASSUME QueueAssumption == QueueSize \in Nat

VARIABLES
  listed,      \* the device in ha_dev_list_file_name
  pc,          \* where the thread is
  msg,         \* a message delivered to the waiting thread
  msgs,        \* its message queue
  again,       \* the NEW_DEVICE a handler is about to send again
  dev,         \* the device whose instance lives
  sampled,     \* the input is in the table of the timer interrupt
  status,      \* current_status of the input
  out,         \* the output: its level, whether it is blinking, in the table of
               \* the blink interrupt, the frequency there, old_set_dev_val
  reported,    \* history: the last value of dev sent to the control centre
  ran,         \* history: the device run_endpoint sent last
  failed,      \* history: the configuration file of ran could not be read
  lost,        \* history: the NEW_DEVICE of ran was lost
  missed,      \* history: the last value of the input was lost
  squeezed,    \* history: in the last change of device a value came between
               \* msg_send_to_self and the destructor
  stale        \* history: the value reported last was of an earlier instance

queue == <<msg, msgs>>
instance == <<dev, sampled, status, out>>
history == <<reported, ran, failed, lost, missed, squeezed, stale>>
vars == <<listed, pc, msg, msgs, again, dev, sampled, status, out, reported, ran, failed,
          lost, missed, squeezed, stale>>

-----------------------------------------------------------------------------
(* Messages.                                                               *)

Message ==
  [type : {"new"}, dev : Device \cup {NoDevice}]
    \cup [type : {"value"}, val : Value, old : BOOLEAN]
    \cup [type : {"set"}, dev : Output, val : Command]
    \cup [type : {"alive"}]

ASSUME NoMsgAssumption == NoMsg \notin Message

NewDevice(d) == [type |-> "new", dev |-> d]
ValueMsg(v) == [type |-> "value", val |-> v, old |-> FALSE]
SetMsg(d, v) == [type |-> "set", dev |-> d, val |-> v]
AliveMsg == [type |-> "alive"]

\* The thread waits in msg_receive with nothing to receive.
Blocked == pc \in {"outer", "serve"} /\ msg = NoMsg /\ msgs = <<>>

HasRoom == Blocked \/ Len(msgs) < QueueSize

\* msg_send(.., false): to the waiting thread, else into its queue, else lost.
Send(m) ==
  IF Blocked
    THEN msg' = m /\ UNCHANGED msgs
    ELSE /\ msgs' = IF Len(msgs) < QueueSize THEN Append(msgs, m) ELSE msgs
         /\ UNCHANGED msg

\* msg_receive
Received == IF msg # NoMsg THEN msg ELSE Head(msgs)
Receive ==
  /\ msg # NoMsg \/ msgs # <<>>
  /\ msg' = NoMsg
  /\ msgs' = IF msg # NoMsg THEN msgs ELSE Tail(msgs)

-----------------------------------------------------------------------------
(* Outputs: on_off_output_instance and level_bulb_instance.                *)

\* 1000 / freq_in_hz; the division instruction of this processor gives 0 for 0.
Period(freq) == IF freq = 0 THEN 0 ELSE 1000 \div freq

\* A fault: the output stays in the table of the blink interrupt.
StaysInTable(o) == o.table

\* The table after remove_dev, which is called for a blinking output only.
LeavesTable(o) == o.table /\ ~o.blinks

\* dev_turn_on, dev_turn_off, set_percent_intensity, set_level_intensity
SetTo(o, level) ==
  [o EXCEPT !.level = level, !.blinks = FALSE, !.table = LeavesTable(o)]

\* dev_blink, blink
Blink(o, freq) ==
  IF Period(freq) < 2
    THEN [o EXCEPT !.table = FALSE]
    ELSE [o EXCEPT !.blinks = TRUE, !.table = TRUE, !.freq = freq]

Toggled(o) == IF ~o.blinks /\ o.level = 1 THEN 0 ELSE 1

\* on_off_output_handler
OnOffSet(o, v) ==
  CASE v \in {0, 1} -> SetTo(o, v)
    [] v = 2        -> SetTo(o, Toggled(o))
    [] v > 100      -> Blink([o EXCEPT !.old = v % 256], (v - 100) % 256)
    [] OTHER        -> o

\* level_bulb_handler
LevelSet(o, v) ==
  LET w == v % 256
      p == [o EXCEPT !.old = w]
  IN  IF w <= 100 THEN SetTo(p, w) ELSE Blink(p, w - 100)

\* A fault: the feedback of a blinking output is its level.
FeedbackLevel(o) == o.level

\* The feedback to the control centre
Feedback(o) == IF o.blinks THEN o.old ELSE o.level

\* What the output does
Shown(o) == IF o.table THEN 100 + o.freq ELSE o.level

Fresh(d) ==
  [level |-> IF d \in Level THEN 100 ELSE 0, blinks |-> FALSE, table |-> FALSE,
   freq |-> 0, old |-> IF d \in Level THEN 100 ELSE 0]

-----------------------------------------------------------------------------
(* The outer loop, end_point_handler.                                      *)

\* Any message but NEW_DEVICE of a device, and NEW_DEVICE with NO_DEVICE
Ignore ==
  /\ pc = "outer"
  /\ Receive
  /\ Received.type = "new" => Received.dev = NoDevice
  /\ UNCHANGED <<again, listed, pc, instance, history>>

\* The handler is called but cannot read the configuration.
ConfigFails ==
  /\ pc = "outer"
  /\ Receive
  /\ Received.type = "new" /\ Received.dev # NoDevice
  /\ failed' = TRUE
  /\ UNCHANGED <<again, listed, pc, instance, reported, ran, lost, missed, squeezed, stale>>

\* The handler makes and configures the instance.
Configure ==
  /\ pc = "outer"
  /\ Receive
  /\ Received.type = "new" /\ Received.dev # NoDevice
  /\ dev' = Received.dev
  /\ sampled' = (dev' \in Input)
  /\ status' = FirstValue
  /\ out' = Fresh(dev')
  /\ pc' = "first"
  /\ UNCHANGED <<again, listed, history>>

\* It sends the first value, but for a sensor.
FirstReport ==
  /\ pc = "first"
  /\ reported' = CASE dev \in Button -> FirstValue
                   [] dev \in Output -> out.level
                   [] OTHER          -> reported
  /\ stale' = FALSE
  /\ pc' = "serve"
  /\ UNCHANGED <<again, listed, queue, instance, ran, failed, lost, missed, squeezed>>

-----------------------------------------------------------------------------
(* The loop of a handler.                                                  *)

\* BTN_SW_MSG, ADC_SENSOR_MSG: the same number
ServeValue ==
  /\ pc = "serve"
  /\ Receive
  /\ Received.type = "value"
  /\ IF dev \in Input
       THEN /\ reported' = Received.val
            /\ stale' = Received.old
       ELSE UNCHANGED <<reported, stale>>
  /\ UNCHANGED <<again, listed, pc, instance, ran, failed, lost, missed, squeezed>>

\* SET_DEV_VAL: done if it is for this type of device; the feedback always sent.
ServeSet ==
  /\ pc = "serve"
  /\ Receive
  /\ Received.type = "set"
  /\ IF dev \in Output
       THEN /\ out' = CASE Received.dev # dev -> out
                        [] dev \in OnOff -> OnOffSet(out, Received.val)
                        [] OTHER         -> LevelSet(out, Received.val)
            /\ reported' = Feedback(out')
       ELSE UNCHANGED <<out, reported>>
  /\ UNCHANGED <<again, listed, pc, dev, sampled, status, ran, failed, lost, missed,
                 squeezed, stale>>

\* SEND_ALIVE: an ALIVE frame
ServeAlive ==
  /\ pc = "serve"
  /\ Receive
  /\ Received.type = "alive"
  /\ UNCHANGED <<again, listed, pc, instance, history>>

\* NEW_DEVICE: outputs are turned off ...
ServeNew ==
  /\ pc = "serve"
  /\ Receive
  /\ Received.type = "new"
  /\ out' = IF dev \in Output THEN SetTo(out, 0) ELSE out
  /\ pc' = "again"
  /\ again' = Received
  /\ squeezed' = FALSE
  /\ stale' = FALSE
  /\ UNCHANGED <<listed, dev, sampled, status, reported, ran, failed, lost, missed>>

\* A fault: the message goes to the front of the queue.
RequeuedFirst(m) == <<m>> \o msgs

\* A fault: the message is not sent again.
RequeuedNot(m) == msgs

\* msg_send_to_self, into the thread's own queue or nowhere
Requeued(m) == IF Len(msgs) < QueueSize THEN Append(msgs, m) ELSE msgs

\* ... the message is sent again ...
Requeue ==
  /\ pc = "again"
  /\ msgs' = Requeued(again)
  /\ again' = NoMsg
  /\ lost' = (Len(msgs) >= QueueSize)
  /\ pc' = "leave"
  /\ UNCHANGED <<listed, msg, instance, reported, ran, failed, missed, squeezed, stale>>

\* ... and the handler returns, which destroys the instance.  Values of it that
\* wait are old from here on.
Leave ==
  /\ pc = "leave"
  /\ pc' = "outer"
  /\ dev' = NoDevice
  /\ sampled' = FALSE
  /\ status' = FirstValue
  /\ out' = [Fresh(NoDevice) EXCEPT !.table = LeavesTable(out)]
  /\ msgs' = [i \in DOMAIN msgs |->
                IF msgs[i].type = "value" THEN [msgs[i] EXCEPT !.old = TRUE] ELSE msgs[i]]
  /\ reported' = FirstValue
  /\ missed' = FALSE
  /\ UNCHANGED <<again, listed, msg, ran, failed, lost, squeezed, stale>>

-----------------------------------------------------------------------------
(* Interrupts, the receiver and the shell.                                 *)

\* btn_sw_callback_timer_isr, adc_sensor_callback_timer_isr
Sample(v) ==
  /\ sampled
  /\ dev \in Button => v # status
  /\ status' = v
  /\ Send(ValueMsg(v))
  /\ missed' = ~HasRoom
  /\ squeezed' = (squeezed \/ pc = "leave")
  /\ UNCHANGED <<again, listed, pc, dev, sampled, out, reported, ran, failed, lost, stale>>

\* send_alive_callback
SendAlive ==
  /\ Send(AliveMsg)
  /\ UNCHANGED <<again, listed, pc, instance, history>>

\* slp_received_GFF_handler
SetDevVal(d, v) ==
  /\ Send(SetMsg(d, v))
  /\ UNCHANGED <<again, listed, pc, instance, history>>

\* modify_dev_list_file
List(d) ==
  /\ Blocked
  /\ listed' = d
  /\ UNCHANGED <<again, pc, queue, instance, history>>

\* run_endpoint
RunEndpoint ==
  /\ Blocked
  /\ Send(NewDevice(listed))
  /\ ran' = listed
  /\ failed' = FALSE
  /\ lost' = FALSE
  /\ UNCHANGED <<again, listed, pc, instance, reported, missed, squeezed, stale>>

-----------------------------------------------------------------------------
\* The thread waits, and main is about to run the end point.
Init ==
  /\ listed \in Device \cup {NoDevice}
  /\ pc = "outer"
  /\ msg = NoMsg
  /\ msgs = <<>>
  /\ again = NoMsg
  /\ dev = NoDevice
  /\ sampled = FALSE
  /\ status = FirstValue
  /\ out = Fresh(NoDevice)
  /\ reported = FirstValue
  /\ ran = NoDevice
  /\ failed = FALSE /\ lost = FALSE /\ missed = FALSE
  /\ squeezed = FALSE /\ stale = FALSE

Thread ==
  \/ Ignore \/ ConfigFails \/ Configure \/ FirstReport
  \/ ServeValue \/ ServeSet \/ ServeAlive \/ ServeNew \/ Requeue \/ Leave

Others ==
  \/ (\E v \in Value : Sample(v))
  \/ SendAlive
  \/ (\E d \in Output, v \in Command : SetDevVal(d, v))
  \/ (\E d \in Device \cup {NoDevice} : List(d))
  \/ RunEndpoint

Next == Thread \/ Others

Spec == Init /\ [][Next]_vars

\* The thread has priority over the shell, and the 6LoWPAN threads, which have
\* priority over it, wait for frames.
FairSpec == Spec /\ WF_vars(Thread)

-----------------------------------------------------------------------------
(* Properties.                                                             *)

\* Every variable keeps its type, and the queue its capacity.
TypeOK ==
  /\ {listed, ran, dev} \subseteq Device \cup {NoDevice}
  /\ pc \in {"outer", "first", "serve", "again", "leave"}
  /\ {msg, again} \subseteq Message \cup {NoMsg}
  /\ msgs \in Seq(Message)
  /\ Len(msgs) <= QueueSize
  /\ status \in Value
  /\ out \in [level : Nat, blinks : BOOLEAN, table : BOOLEAN, freq : 0 .. 255, old : 0 .. 255]
  /\ reported \in Nat
  /\ {sampled, failed, lost, missed, squeezed, stale} \subseteq BOOLEAN

\* A thread that has nothing more to do works as the device it was last run
\* for, whatever arrived while it changed over, unless the device's
\* configuration could not be read or the message found the queue full.
ServesAsRun ==
  Blocked => dev = IF failed \/ lost THEN NoDevice ELSE ran

\* The control centre's last value of a device is its state: the status of the
\* input unless the last message of it was refused or was of an earlier
\* instance (see OldValuesStay), and what the output does.
ReportIsTrue ==
  Blocked =>
    /\ dev \in Button /\ ~missed /\ ~stale => reported = status
    /\ dev \in Output => reported = Shown(out)

\* Sending NEW_DEVICE again also clears the queue of the old device's values: a
\* new device reports one of them only if it came after the message was sent
\* again and before the destructor.
OldValuesStay == stale => squeezed

\* The table of the blink interrupt never holds an output that has ceased to
\* exist.
TableIsOwned == out.table => dev \in Output /\ out.blinks

\* Every device that is run comes to be served, or its configuration cannot be
\* read, or its message finds the queue full, or another one is run.
RunIsServed ==
  \A d \in Device : (ran = d) ~> (dev = d \/ failed \/ lost \/ ran # d)
=============================================================================
