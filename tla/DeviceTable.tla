---------------------------- MODULE DeviceTable ----------------------------
(***************************************************************************)
(* What the device manager of the control centre keeps, whatever the order *)
(* of its slots: a table of at most MaxDevs devices, each with the value   *)
(* it last reported and the seconds it has left to live.                   *)
(***************************************************************************)
EXTENDS Integers, FiniteSets

CONSTANTS
  Device,    \* device identifiers
  Value,     \* reported values
  Ttl,       \* times to live, in seconds
  MaxDevs    \* capacity of the table

VARIABLE table   \* a function from the known devices to their entries

Known == DOMAIN table

Init == table = [i \in {} |-> 0]

\* A report or a restored line: an unknown device needs room.
Set(i, v, t) ==
  /\ i \in Known \/ Cardinality(Known) < MaxDevs
  /\ table' = [j \in Known \cup {i} |->
                 IF j = i THEN [value |-> v, ttl |-> t] ELSE table[j]]

\* An alive message keeps a known device in the table.
Refresh(i, t) ==
  /\ i \in Known
  /\ table' = [table EXCEPT ![i].ttl = t]

\* One second passes: a device with at most one second left is forgotten.
Second ==
  table' = [i \in {j \in Known : table[j].ttl > 1} |->
              [table[i] EXCEPT !.ttl = @ - 1]]

\* Power is lost.
Forget == table' = [i \in {} |-> 0]

Next ==
  \/ \E i \in Device, v \in Value, t \in Ttl : Set(i, v, t)
  \/ \E i \in Device, t \in Ttl : Refresh(i, t)
  \/ Second
  \/ Forget

Spec == Init /\ [][Next]_table
=============================================================================
