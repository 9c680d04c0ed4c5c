----------------------------- MODULE DeviceMng -----------------------------
(***************************************************************************)
(* The control centre's device list: class ha_device_mng with the calls    *)
(* the controller thread makes of it (ha_device_mng.cpp, controller.cpp).  *)
(*                                                                         *)
(* The devices sit in the slots of an array in no order.  Reports and      *)
(* alive messages give a device alive_ttl seconds to live, the one second  *)
(* interrupt takes one away, the whole list is written to a file every     *)
(* save period, and read back when the control centre starts.  The three   *)
(* loops that talk to something else (compacting and sending the list to   *)
(* the phone, saving, restoring) take one step per turn, so power can be   *)
(* lost between any two of their turns.                                    *)
(***************************************************************************)
EXTENDS Integers, Sequences, FiniteSets

CONSTANTS
  Device,      \* identifiers of real devices
  NoDevice,    \* no_device_id, the identifier of an empty slot
  Value,       \* values a device can report
  Default,     \* the value a slot is constructed with
  MaxDevs,     \* max_num_of_dev
  AliveTtl,    \* alive_ttl
  SavePeriod,  \* dev_list_save_period
  TtlRange     \* number of values of the type restore() casts a ttl to

ASSUME DeviceAssumption == NoDevice \notin Device
ASSUME ValueAssumption == Default \in Value
ASSUME SizeAssumption ==
  /\ MaxDevs \in Nat \ {0}
  /\ AliveTtl \in Nat \ {0}
  /\ SavePeriod \in Nat
  /\ TtlRange \in Nat \ {0}

VARIABLES
  dev_id,      \* devices_buffer[slot].device_id
  dev_val,     \* devices_buffer[slot].value
  dev_ttl,     \* devices_buffer[slot].ttl
  cur_size,    \* cur_size
  pc,          \* what the controller thread is doing
  count,       \* loop counter of the operation in progress
  time_count,  \* seconds since the last save
  file,        \* lines of the device list file
  answer       \* devices sent to the phone for the latest "all devices"

slots == <<dev_id, dev_val, dev_ttl, cur_size>>
vars == <<dev_id, dev_val, dev_ttl, cur_size, pc, count, time_count, file, answer>>

Slot == 0 .. MaxDevs - 1
Line == [id : Device, value : Value, ttl : Nat]

-----------------------------------------------------------------------------
(* Searching the slots.                                                    *)

Occupied == {s \in Slot : dev_id[s] # NoDevice}
Known == {dev_id[s] : s \in Occupied}

First(S) == CHOOSE s \in S : \A t \in S : s <= t
Last(S) == CHOOSE s \in S : \A t \in S : s >= t

\* find_device
find_device(i) == First({s \in Slot : dev_id[s] = i})

\* The slot add_device takes.
empty_slot == First(Slot \ Occupied)

\* set_ttl: a negative time to live becomes zero
set_ttl(t) == IF t < 0 THEN 0 ELSE t

-----------------------------------------------------------------------------
\* A fault: a device that is already listed is added again.
SlotForAlways(i) == empty_slot

\* The slot set_dev_val stores into: the device's own or a new one.
SlotFor(i) == IF i \in Known THEN find_device(i) ELSE empty_slot

HasRoom(i) == i \in Known \/ Occupied # Slot

\* A fault: the list is counted one device longer on every report.
SizeAfterAlways(i) == cur_size + 1

\* cur_size after set_dev_val
SizeAfter(i) == IF i \in Known THEN cur_size ELSE cur_size + 1

\* set_dev_val(i, v) and then set_dev_ttl(i, t).  When every slot is taken
\* by another device both calls return -1 and change nothing.
set_dev(i, v, t) ==
  IF HasRoom(i)
    THEN LET s == SlotFor(i) IN
         /\ dev_id' = [dev_id EXCEPT ![s] = i]
         /\ dev_val' = [dev_val EXCEPT ![s] = v]
         /\ dev_ttl' = [dev_ttl EXCEPT ![s] = set_ttl(t)]
         /\ cur_size' = SizeAfter(i)
    ELSE UNCHANGED slots

\* Faults: a device is dropped one second late, when its ttl was already 0,
\* or never, as the test comes before set_ttl has clamped the value.
ExpiringNever == {s \in Occupied : set_ttl(dev_ttl[s] - 1) < 0}
ExpiringLate == {s \in Occupied : dev_ttl[s] < 1}

\* The slots whose device has run out of time once a second is taken away.
Expiring == {s \in Occupied : set_ttl(dev_ttl[s] - 1) = 0}

\* dec_all_devs_ttl
dec_all_devs_ttl ==
  /\ dev_ttl' = [s \in Slot |-> IF s \in Occupied THEN set_ttl(dev_ttl[s] - 1)
                                ELSE dev_ttl[s]]
  /\ dev_id' = [s \in Slot |-> IF s \in Expiring THEN NoDevice ELSE dev_id[s]]
  /\ cur_size' = cur_size - Cardinality(Expiring)
  /\ UNCHANGED dev_val

-----------------------------------------------------------------------------
(* Handlers of the controller thread.                                      *)

\* slp_gff_handler, SET_DEV_VAL: a device reports its value.
Report(i, v) ==
  /\ pc = "idle"
  /\ set_dev(i, v, AliveTtl)
  /\ UNCHANGED <<pc, count, time_count, file, answer>>

\* slp_gff_handler, ALIVE: a device without a value is not added.
Alive(i) ==
  /\ pc = "idle"
  /\ IF i \in Known
       THEN dev_ttl' = [dev_ttl EXCEPT ![find_device(i)] = AliveTtl]
       ELSE UNCHANGED dev_ttl
  /\ UNCHANGED <<dev_id, dev_val, cur_size, pc, count, time_count, file, answer>>

\* ONE_SEC_INTERRUPT: age the devices, and save when the period is over.
Second ==
  /\ pc = "idle"
  /\ dec_all_devs_ttl
  /\ IF time_count + 1 > SavePeriod
       THEN /\ time_count' = 0
            /\ pc' = "save_open"
       ELSE /\ time_count' = time_count + 1
            /\ pc' = "idle"
  /\ UNCHANGED <<count, file, answer>>

\* save(): the file is emptied ...
SaveOpen ==
  /\ pc = "save_open"
  /\ file' = <<>>
  /\ pc' = "save"
  /\ count' = 0
  /\ UNCHANGED <<slots, time_count, answer>>

\* ... unless it cannot be opened ...
SaveFails ==
  /\ pc = "save_open"
  /\ pc' = "idle"
  /\ UNCHANGED <<slots, count, time_count, file, answer>>

\* A fault: the save stops one line early.
SaveIsDoneEarly(lines) == Len(lines) + 1 >= cur_size

\* num_of_dev_count == cur_size, after a line has been written
SaveIsDone(lines) == Len(lines) = cur_size

\* ... and gets one synchronised line per device, until cur_size lines are out.
SaveSlot ==
  /\ pc = "save"
  /\ count' = count + 1
  /\ IF count \in Occupied
       THEN file' = Append(file, [id |-> dev_id[count], value |-> dev_val[count],
                                  ttl |-> dev_ttl[count]])
       ELSE file' = file
  /\ pc' = IF \/ count \in Occupied /\ SaveIsDone(file')
              \/ count' = MaxDevs
             THEN "idle" ELSE "save"
  /\ UNCHANGED <<slots, time_count, answer>>

\* A fault: the slot just below cur_size is not looked at.
GapsShort == {s \in Slot \ Occupied : s < cur_size - 1}

\* Empty slots that find_an_empty_slot meets before it has counted cur_size
\* devices: the ones reorder() has to fill.
Gaps == {s \in Slot \ Occupied : s < cur_size}

\* GET_DEV_WITH_INDEXS for all devices calls reorder(), which returns at once
\* when there are fewer than two devices ...
AnswerStart ==
  /\ pc = "idle"
  /\ pc' = IF cur_size < 2 THEN "answer" ELSE "reorder"
  /\ count' = 0
  /\ answer' = <<>>
  /\ UNCHANGED <<slots, time_count, file>>

\* ... and otherwise copies the last device into the first gap until there is
\* none.
ReorderMove ==
  /\ pc = "reorder"
  /\ IF Gaps = {}
       THEN /\ pc' = "answer"
            /\ UNCHANGED <<dev_id, dev_val, dev_ttl>>
       ELSE LET l == Last(Occupied)
                g == First(Gaps)
            IN  /\ dev_id' = [dev_id EXCEPT ![g] = dev_id[l], ![l] = NoDevice]
                /\ dev_val' = [dev_val EXCEPT ![g] = dev_val[l]]
                /\ dev_ttl' = [dev_ttl EXCEPT ![g] = dev_ttl[l]]
                /\ UNCHANGED pc
  /\ UNCHANGED <<cur_size, count, time_count, file, answer>>

\* One SET_DEV_WITH_INDEXS frame per index below cur_size.
AnswerNext ==
  /\ pc = "answer"
  /\ IF count < cur_size
       THEN /\ answer' = Append(answer, dev_id[count])
            /\ count' = count + 1
            /\ pc' = "answer"
       ELSE /\ pc' = "idle"
            /\ UNCHANGED <<answer, count>>
  /\ UNCHANGED <<slots, time_count, file>>

-----------------------------------------------------------------------------
(* Power.                                                                  *)

Cleared ==
  /\ dev_id' = [s \in Slot |-> NoDevice]
  /\ dev_val' = [s \in Slot |-> Default]
  /\ dev_ttl' = [s \in Slot |-> 0]
  /\ cur_size' = 0

\* Power is lost at any moment; the file keeps the lines synchronised so far.
PowerOff ==
  /\ pc # "off"
  /\ pc' = "off"
  /\ Cleared
  /\ count' = 0
  /\ time_count' = 0
  /\ answer' = <<>>
  /\ UNCHANGED file

\* The constructors have cleared the slots; the controller calls restore(),
\* which gives up when it cannot open the file.
PowerOn ==
  /\ pc = "off"
  /\ pc' \in {"restore", "idle"}
  /\ count' = 0
  /\ UNCHANGED <<slots, time_count, file, answer>>

\* A fault: a restart gives every device its whole time to live.
CastTtlAfresh(t) == AliveTtl

\* (int8_t)ttl_i, of a ttl that may be larger than what the type holds
CastTtl(t) ==
  LET m == t % TtlRange IN IF 2 * m >= TtlRange THEN m - TtlRange ELSE m

\* restore() reads one line after the other.
RestoreLine ==
  /\ pc = "restore"
  /\ IF count < Len(file)
       THEN LET l == file[count + 1] IN
            /\ set_dev(l.id, l.value, CastTtl(l.ttl))
            /\ count' = count + 1
            /\ pc' = "restore"
       ELSE /\ pc' = "idle"
            /\ UNCHANGED <<slots, count>>
  /\ UNCHANGED <<time_count, file, answer>>

-----------------------------------------------------------------------------
Init ==
  /\ dev_id = [s \in Slot |-> NoDevice]
  /\ dev_val = [s \in Slot |-> Default]
  /\ dev_ttl = [s \in Slot |-> 0]
  /\ cur_size = 0
  /\ pc = "off"
  /\ count = 0
  /\ time_count = 0
  /\ file = <<>>
  /\ answer = <<>>

Next ==
  \/ \E i \in Device, v \in Value : Report(i, v)
  \/ \E i \in Device : Alive(i)
  \/ Second
  \/ SaveOpen
  \/ SaveFails
  \/ SaveSlot
  \/ AnswerStart
  \/ ReorderMove
  \/ AnswerNext
  \/ PowerOff
  \/ PowerOn
  \/ RestoreLine

Spec == Init /\ [][Next]_vars

\* The controller thread runs to the end of every handler and power returns;
\* its messages are served in order, so the one of the second interrupt is
\* reached however many requests of the phone come between.
Fairness ==
  /\ SF_vars(Second)
  /\ WF_vars(SaveOpen \/ SaveFails)
  /\ WF_vars(SaveSlot)
  /\ WF_vars(ReorderMove)
  /\ WF_vars(AnswerNext)
  /\ WF_vars(PowerOn)
  /\ WF_vars(RestoreLine)

FairSpec == Spec /\ Fairness

-----------------------------------------------------------------------------
(* Properties.                                                             *)

\* Every variable keeps its type.
TypeOK ==
  /\ dev_id \in [Slot -> Device \cup {NoDevice}]
  /\ dev_val \in [Slot -> Value]
  /\ dev_ttl \in [Slot -> Nat]
  /\ cur_size \in Nat
  /\ pc \in {"off", "restore", "idle", "save_open", "save", "reorder", "answer"}
  /\ count \in Nat
  /\ time_count \in 0 .. SavePeriod
  /\ file \in Seq(Line)
  /\ answer \in Seq(Device \cup {NoDevice})

\* cur_size, which every loop over the list trusts for its bound, is the
\* number of occupied slots: whatever mix of reports, expiries, compactions,
\* crashes and restores came before.
CountMatches == cur_size = Cardinality(Occupied)

\* No device is listed twice: not even after a move copied its slot, or after
\* the file of an interrupted save was read back.
NoDuplicates ==
  \A s, t \in Occupied : dev_id[s] = dev_id[t] => s = t

\* When the answer to "all devices" is complete it names every known device
\* once: reorder() has left no gap below cur_size.  It does not look at a list
\* of one device, which may be in any slot while the answer sends slot 0.
AnswerListsAll ==
  pc = "answer" /\ count = cur_size /\ cur_size # 1
    => {answer[k] : k \in DOMAIN answer} = Known /\ Len(answer) = cur_size

\* While restore() reads the file, the devices of the lines read so far are
\* listed with the values they were saved with; a restart lets none live longer
\* than it had left, and no shorter if that fits the type it is cast to.
RestoredFromFile ==
  pc = "restore" =>
    \A k \in 1 .. count :
      \E s \in Occupied :
        /\ dev_id[s] = file[k].id
        /\ dev_val[s] = file[k].value
        /\ dev_ttl[s] <= file[k].ttl
        /\ 2 * file[k].ttl < TtlRange => dev_ttl[s] = file[k].ttl

\* A save that runs to its end has written every listed device: stopping after
\* cur_size lines never leaves one out.
SaveWritesAll ==
  [][pc = "save" /\ pc' = "idle"
       => {file'[k] : k \in DOMAIN file'}
            = {[id |-> dev_id[s], value |-> dev_val[s], ttl |-> dev_ttl[s]] : s \in Occupied}]_vars

\* The slots implement DeviceTable: moving a device to another slot is no step
\* of the table, and everything else acts on one entry, or on all of them when
\* a second passes.
Table == INSTANCE DeviceTable WITH
  Ttl <- 0 .. AliveTtl,
  table <- [i \in Known |-> [value |-> dev_val[find_device(i)],
                             ttl |-> dev_ttl[find_device(i)]]]
SlotsAreTable == Table!Spec

\* A device that is heard no more is in the end forgotten, unless power keeps
\* failing (each restart gives it back the time it had at the latest save).
Silent(i) == ~(\E v \in Value : Report(i, v)) /\ ~Alive(i) /\ ~PowerOff
SilentIsForgotten ==
  \A i \in Device : <>[][Silent(i)]_vars => <>[](i \notin Known)
=============================================================================
