-------------------------- MODULE DeviceMng_proofs --------------------------
(***************************************************************************)
(* Proofs about the device list of the control centre, for any number of   *)
(* slots, devices and values and any lengths of time.                      *)
(***************************************************************************)
EXTENDS DeviceMng, FiniteSetTheorems, SequenceTheorems, WellFoundedInduction, TLAPS

(***************************************************************************)
(* First and last slots.                                                   *)
(***************************************************************************)

\* A set of slots that is not empty has a first slot.
LEMMA FirstExists ==
  ASSUME NEW S \in SUBSET Slot, S # {}
  PROVE  First(S) \in S /\ \A t \in S : First(S) <= t
  <1>1. S \subseteq Nat
    BY SizeAssumption DEF Slot
  <1>2. PICK x \in S : \A y \in S : ~ (<<y, x>> \in OpToRel(<, Nat))
    BY <1>1, NatLessThanWellFounded, WFMin
  <1>3. \A y \in S : x <= y
    <2>1. ASSUME NEW y \in S PROVE ~(y < x)
      BY <1>1, <1>2 DEF OpToRel
    <2>2. QED
      BY <1>1, <2>1
  <1>4. QED
    BY <1>3 DEF First

\* A set of slots that is not empty has a last slot.
LEMMA LastExists ==
  ASSUME NEW S \in SUBSET Slot, S # {}
  PROVE  Last(S) \in S /\ \A t \in S : Last(S) >= t
  <1> DEFINE R == {MaxDevs - 1 - s : s \in S}
  <1>1. R \in SUBSET Slot /\ R # {}
    <2>1. ASSUME NEW s \in S PROVE MaxDevs - 1 - s \in Slot
      BY SizeAssumption DEF Slot
    <2>2. QED
      BY <2>1
  <1>2. PICK r \in R : \A t \in R : r <= t
    BY <1>1, FirstExists
  <1>3. PICK x \in S : r = MaxDevs - 1 - x
    BY <1>2
  <1>4. \A t \in S : x >= t
    <2>1. ASSUME NEW t \in S PROVE x >= t
      <3>1. MaxDevs - 1 - t \in R
        OBVIOUS
      <3>2. MaxDevs - 1 - x <= MaxDevs - 1 - t
        BY <1>2, <1>3, <3>1
      <3>3. QED
        BY <3>2, SizeAssumption DEF Slot
    <2>2. QED
      BY <2>1
  <1>5. QED
    BY <1>4 DEF Last

(***************************************************************************)
(* The inductive invariant: the types, and the two facts about the slots   *)
(* that every loop over them relies on.  Neither can be left out: the      *)
(* bound of the loops is cur_size, and a device listed twice would be      *)
(* found in one slot and left to expire in the other.                      *)
(***************************************************************************)

SlotTypes ==
  /\ dev_id \in [Slot -> Device \cup {NoDevice}]
  /\ dev_val \in [Slot -> Value]
  /\ dev_ttl \in [Slot -> Nat]
  /\ cur_size \in Nat

SlotInv == SlotTypes /\ CountMatches /\ NoDuplicates

LEMMA SlotsFinite == IsFiniteSet(Slot) /\ Cardinality(Slot) = MaxDevs
  BY FS_Interval, SizeAssumption DEF Slot

LEMMA OccupiedFinite ==
  /\ Occupied \in SUBSET Slot
  /\ IsFiniteSet(Occupied)
  /\ Cardinality(Occupied) \in 0 .. MaxDevs
  <1>1. IsFiniteSet(Slot) /\ Cardinality(Slot) = MaxDevs
    BY SlotsFinite
  <1>2. Occupied \in SUBSET Slot
    BY DEF Occupied
  <1>3. IsFiniteSet(Occupied) /\ Cardinality(Occupied) <= MaxDevs
    BY <1>1, <1>2, FS_Subset
  <1>4. QED
    BY <1>2, <1>3, FS_CardinalityType, SizeAssumption

\* find_device finds the slot of a known device.
LEMMA FindDevice ==
  ASSUME NEW i \in Known
  PROVE  find_device(i) \in Occupied /\ dev_id[find_device(i)] = i
  <1> DEFINE S == {s \in Slot : dev_id[s] = i}
  <1>1. S \in SUBSET Slot /\ S # {}
    BY DEF Known, Occupied
  <1>2. First(S) \in S
    BY <1>1, FirstExists
  <1>3. i # NoDevice
    BY DEF Known, Occupied
  <1>4. QED
    BY <1>2, <1>3 DEF find_device, Occupied

LEMMA EmptySlot ==
  ASSUME Occupied # Slot
  PROVE  empty_slot \in Slot /\ dev_id[empty_slot] = NoDevice
  <1>1. Slot \ Occupied \in SUBSET Slot /\ Slot \ Occupied # {}
    BY DEF Occupied
  <1>2. empty_slot \in Slot \ Occupied
    BY <1>1, FirstExists DEF empty_slot
  <1>3. QED
    BY <1>2 DEF Occupied

\* Storing a device's value and time to live keeps the slots in order.
LEMMA SetDevInv ==
  ASSUME SlotInv, NEW i \in Device, NEW v \in Value, NEW t \in Int, set_dev(i, v, t)
  PROVE  SlotInv'
  <1> USE DEF SlotInv, SlotTypes
  <1>0. set_ttl(t) \in Nat
    BY DEF set_ttl
  <1>1. CASE ~HasRoom(i)
    BY <1>1 DEF set_dev, slots, CountMatches, NoDuplicates, Occupied
  <1>2. CASE i \in Known
    <2>1. find_device(i) \in Slot /\ dev_id[find_device(i)] = i
      BY <1>2, FindDevice DEF Occupied
    <2>2. dev_id' = dev_id /\ cur_size' = cur_size
      <3>1. /\ dev_id' = [dev_id EXCEPT ![find_device(i)] = i]
            /\ cur_size' = cur_size
        BY <1>2 DEF set_dev, HasRoom, SlotFor, SizeAfter
      <3>2. [dev_id EXCEPT ![find_device(i)] = i] = dev_id
        BY <2>1
      <3>3. QED
        BY <3>1, <3>2
    <2>3. dev_val' \in [Slot -> Value] /\ dev_ttl' \in [Slot -> Nat]
      BY <1>0, <1>2, <2>1 DEF set_dev, HasRoom, SlotFor
    <2>4. QED
      BY <2>2, <2>3 DEF CountMatches, NoDuplicates, Occupied
  <1>3. CASE i \notin Known /\ Occupied # Slot
    <2> DEFINE s == empty_slot
    <2>1. s \in Slot /\ dev_id[s] = NoDevice
      BY <1>3, EmptySlot
    <2>2. /\ dev_id' = [dev_id EXCEPT ![s] = i]
          /\ dev_val' = [dev_val EXCEPT ![s] = v]
          /\ dev_ttl' = [dev_ttl EXCEPT ![s] = set_ttl(t)]
          /\ cur_size' = cur_size + 1
      BY <1>3 DEF set_dev, HasRoom, SlotFor, SizeAfter
    <2>3. SlotTypes'
      BY <1>0, <2>1, <2>2
    <2>4. i # NoDevice
      BY DeviceAssumption
    <2>5. Occupied' = Occupied \cup {s} /\ s \notin Occupied
      BY <2>1, <2>2, <2>4 DEF Occupied
    <2>6. CountMatches'
      BY <2>2, <2>5, OccupiedFinite, FS_AddElement DEF CountMatches
    <2>7. NoDuplicates'
      <3>1. ASSUME NEW a \in Occupied', NEW b \in Occupied', dev_id'[a] = dev_id'[b]
            PROVE  a = b
        <4>1. CASE a = s /\ b # s
          <5>1. dev_id'[a] = i /\ dev_id'[b] = dev_id[b] /\ b \in Occupied
            BY <2>1, <2>2, <2>5, <3>1, <4>1
          <5>2. QED
            BY <1>3, <3>1, <5>1 DEF Known
        <4>2. CASE b = s /\ a # s
          <5>1. dev_id'[b] = i /\ dev_id'[a] = dev_id[a] /\ a \in Occupied
            BY <2>1, <2>2, <2>5, <3>1, <4>2
          <5>2. QED
            BY <1>3, <3>1, <5>1 DEF Known
        <4>3. CASE a # s /\ b # s
          <5>1. dev_id'[a] = dev_id[a] /\ dev_id'[b] = dev_id[b]
            BY <2>2, <4>3
          <5>2. QED
            BY <2>5, <3>1, <4>3, <5>1 DEF NoDuplicates
        <4>4. QED
          BY <4>1, <4>2, <4>3
      <3>2. QED
        BY <3>1 DEF NoDuplicates
    <2>8. QED
      BY <2>3, <2>6, <2>7
  <1>4. QED
    BY <1>1, <1>2, <1>3 DEF HasRoom

\* So does taking a second away from every device.
LEMMA DecAllInv ==
  ASSUME SlotInv, dec_all_devs_ttl
  PROVE  SlotInv'
  <1> USE DEF SlotInv, SlotTypes
  <1>1. Expiring \in SUBSET Occupied
    BY DEF Expiring
  <1>2. Occupied' = Occupied \ Expiring
    BY <1>1 DEF dec_all_devs_ttl, Occupied
  <1>3. IsFiniteSet(Occupied) /\ Occupied \cap Expiring = Expiring
    BY <1>1, OccupiedFinite
  <1>4. CountMatches'
    <2>1. Cardinality(Occupied') = Cardinality(Occupied) - Cardinality(Expiring)
      BY <1>2, <1>3, FS_Difference
    <2>2. QED
      BY <2>1 DEF CountMatches, dec_all_devs_ttl
  <1>5. cur_size' \in Nat
    <2>1. Occupied' \in SUBSET Occupied
      BY <1>2
    <2>2. IsFiniteSet(Occupied')
      BY <1>3, <2>1, FS_Subset
    <2>3. QED
      BY <1>4, <2>2, FS_CardinalityType DEF CountMatches
  <1>6. dev_ttl' \in [Slot -> Nat]
    <2>1. ASSUME NEW s \in Slot PROVE set_ttl(dev_ttl[s] - 1) \in Nat
      BY DEF set_ttl
    <2>2. QED
      BY <2>1 DEF dec_all_devs_ttl
  <1>7. dev_id' \in [Slot -> Device \cup {NoDevice}] /\ dev_val' \in [Slot -> Value]
    BY DEF dec_all_devs_ttl
  <1>8. NoDuplicates'
    <2>1. \A s \in Occupied' : s \in Occupied /\ dev_id'[s] = dev_id[s]
      BY <1>1, <1>2 DEF dec_all_devs_ttl, Occupied
    <2>2. QED
      BY <2>1 DEF NoDuplicates
  <1>9. QED
    BY <1>4, <1>5, <1>6, <1>7, <1>8

\* And so does moving the last device into the first gap.
LEMMA ReorderInv ==
  ASSUME SlotInv, ReorderMove
  PROVE  SlotInv'
  <1> USE DEF SlotInv, SlotTypes
  <1>1. CASE Gaps = {}
    BY <1>1 DEF ReorderMove, CountMatches, NoDuplicates, Occupied
  <1>2. CASE Gaps # {}
    <2> DEFINE l == Last(Occupied)
               g == First(Gaps)
    <2>1. g \in Slot \ Occupied /\ g < cur_size
      <3>1. Gaps \in SUBSET Slot
        BY DEF Gaps
      <3>2. QED
        BY <1>2, <3>1, FirstExists DEF Gaps
    <2>2. Occupied # {}
      <3>1. cur_size > 0
        BY <2>1, SizeAssumption DEF Slot
      <3>2. QED
        BY <3>1, FS_EmptySet DEF CountMatches
    <2>3. l \in Occupied
      BY <2>2, OccupiedFinite, LastExists
    <2>4. l \in Slot /\ g \in Slot /\ l # g /\ dev_id[l] # NoDevice /\ dev_id[g] = NoDevice
      BY <2>1, <2>3 DEF Occupied
    <2>5. /\ dev_id' = [dev_id EXCEPT ![g] = dev_id[l], ![l] = NoDevice]
          /\ dev_val' = [dev_val EXCEPT ![g] = dev_val[l]]
          /\ dev_ttl' = [dev_ttl EXCEPT ![g] = dev_ttl[l]]
          /\ cur_size' = cur_size
      BY <1>2 DEF ReorderMove
    <2>6. SlotTypes'
      BY <2>4, <2>5
    <2>7. /\ dev_id'[g] = dev_id[l]
          /\ dev_id'[l] = NoDevice
          /\ \A s \in Slot : s # g /\ s # l => dev_id'[s] = dev_id[s]
      BY <2>4, <2>5
    <2>8. Occupied' = (Occupied \ {l}) \cup {g}
      BY <2>4, <2>7 DEF Occupied
    <2>9. CountMatches'
      <3>1. IsFiniteSet(Occupied \ {l}) /\ Cardinality(Occupied \ {l}) = cur_size - 1
        BY <2>3, OccupiedFinite, FS_RemoveElement DEF CountMatches
      <3>2. g \notin Occupied \ {l}
        BY <2>1
      <3>3. Cardinality(Occupied') = cur_size - 1 + 1
        BY <2>8, <3>1, <3>2, FS_AddElement
      <3>4. QED
        BY <2>5, <3>3 DEF CountMatches
    <2>10. NoDuplicates'
      <3>1. ASSUME NEW a \in Occupied', NEW b \in Occupied', dev_id'[a] = dev_id'[b]
            PROVE  a = b
        <4> DEFINE Old(s) == IF s = g THEN l ELSE s
        <4>1. Old(a) \in Occupied /\ Old(b) \in Occupied
          BY <2>3, <2>8, <3>1
        <4>2. dev_id[Old(a)] = dev_id'[a] /\ dev_id[Old(b)] = dev_id'[b]
          BY <2>4, <2>7, <2>8, <3>1, OccupiedFinite
        <4>3. Old(a) = Old(b)
          BY <3>1, <4>1, <4>2 DEF NoDuplicates
        <4>4. (a # g => a # l) /\ (b # g => b # l)
          BY <2>8, <3>1
        <4>5. QED
          BY <4>3, <4>4
      <3>2. QED
        BY <3>1 DEF NoDuplicates
    <2>11. QED
      BY <2>6, <2>9, <2>10
  <1>3. QED
    BY <1>1, <1>2

LEMMA EmptyInv ==
  ASSUME Cleared
  PROVE  SlotInv'
  <1>1. Occupied' = {}
    BY DEF Cleared, Occupied
  <1>2. SlotTypes'
    BY ValueAssumption DEF Cleared, SlotTypes
  <1>3. QED
    BY <1>1, <1>2, FS_EmptySet DEF Cleared, SlotInv, CountMatches, NoDuplicates

(***************************************************************************)
(* The invariant of the specification.                                     *)
(***************************************************************************)

\* An unchanged array of slots stays in order.
LEMMA SlotsUnchanged ==
  ASSUME SlotInv, UNCHANGED slots
  PROVE  SlotInv'
BY DEF SlotInv, SlotTypes, CountMatches, NoDuplicates, Occupied, slots

\* The part of the type invariant that is not about the slots.
RestTypes ==
  /\ pc \in {"off", "restore", "idle", "save_open", "save", "reorder", "answer"}
  /\ count \in Nat
  /\ time_count \in 0 .. SavePeriod
  /\ file \in Seq(Line)
  /\ answer \in Seq(Device \cup {NoDevice})

LEMMA StepInv ==
  ASSUME SlotInv, RestTypes, [Next]_vars
  PROVE  SlotInv' /\ RestTypes'
  <1> USE DEF RestTypes
  <1>1. ASSUME NEW i \in Device, NEW v \in Value, Report(i, v)
        PROVE  SlotInv' /\ RestTypes'
    <2>1. SlotInv'
      BY <1>1, SetDevInv, SizeAssumption DEF Report
    <2>2. QED
      BY <1>1, <2>1 DEF Report
  <1>2. ASSUME NEW i \in Device, Alive(i)
        PROVE  SlotInv' /\ RestTypes'
    <2>1. dev_ttl' \in [Slot -> Nat]
      <3>1. dev_ttl \in [Slot -> Nat] /\ AliveTtl \in Nat
        BY SizeAssumption DEF SlotInv, SlotTypes
      <3>2. QED
        BY <1>2, <3>1 DEF Alive
    <2>2. SlotInv'
      BY <1>2, <2>1 DEF Alive, SlotInv, SlotTypes, CountMatches, NoDuplicates, Occupied
    <2>3. QED
      BY <1>2, <2>2 DEF Alive
  <1>3. CASE Second
    <2>1. SlotInv'
      BY <1>3, DecAllInv DEF Second
    <2>2. time_count' \in 0 .. SavePeriod /\ pc' \in {"idle", "save_open"}
      BY <1>3, SizeAssumption DEF Second
    <2>3. QED
      BY <1>3, <2>1, <2>2 DEF Second
  <1>4. CASE SaveOpen
    BY <1>4, SlotsUnchanged, EmptySeq DEF SaveOpen
  <1>5. CASE SaveFails
    BY <1>5, SlotsUnchanged DEF SaveFails
  <1>6. CASE SaveSlot
    <2>1. SlotInv'
      BY <1>6, SlotsUnchanged DEF SaveSlot
    <2>2. file' \in Seq(Line)
      <3>1. CASE count \in Occupied
        <4>1. [id |-> dev_id[count], value |-> dev_val[count], ttl |-> dev_ttl[count]] \in Line
          BY <3>1 DEF SlotInv, SlotTypes, Occupied, Line
        <4>2. QED
          BY <1>6, <3>1, <4>1, AppendProperties DEF SaveSlot
      <3>2. CASE count \notin Occupied
        BY <1>6, <3>2 DEF SaveSlot
      <3>3. QED
        BY <3>1, <3>2
    <2>3. QED
      BY <1>6, <2>1, <2>2 DEF SaveSlot
  <1>7. CASE AnswerStart
    BY <1>7, SlotsUnchanged, EmptySeq DEF AnswerStart
  <1>8. CASE ReorderMove
    <2>1. SlotInv'
      BY <1>8, ReorderInv
    <2>2. QED
      BY <1>8, <2>1 DEF ReorderMove
  <1>9. CASE AnswerNext
    <2>1. SlotInv'
      BY <1>9, SlotsUnchanged DEF AnswerNext
    <2>2. answer' \in Seq(Device \cup {NoDevice}) /\ count' \in Nat
      <3>1. CASE count < cur_size
        <4>1. count \in Slot
          BY <3>1, OccupiedFinite, SizeAssumption DEF SlotInv, CountMatches, Slot
        <4>2. dev_id[count] \in Device \cup {NoDevice}
          BY <4>1 DEF SlotInv, SlotTypes
        <4>3. QED
          BY <1>9, <3>1, <4>2, AppendProperties DEF AnswerNext
      <3>2. CASE ~(count < cur_size)
        BY <1>9, <3>2 DEF AnswerNext
      <3>3. QED
        BY <3>1, <3>2
    <2>3. QED
      BY <1>9, <2>1, <2>2 DEF AnswerNext
  <1>10. CASE PowerOff
    <2>1. SlotInv'
      BY <1>10, EmptyInv DEF PowerOff
    <2>2. answer' \in Seq(Device \cup {NoDevice}) /\ 0 \in 0 .. SavePeriod
      BY <1>10, EmptySeq, SizeAssumption DEF PowerOff
    <2>3. QED
      BY <1>10, <2>1, <2>2 DEF PowerOff
  <1>11. CASE PowerOn
    BY <1>11, SlotsUnchanged DEF PowerOn
  <1>12. CASE RestoreLine
    <2>1. CASE count < Len(file)
      <3> DEFINE l == file[count + 1]
      <3>1. count + 1 \in 1 .. Len(file)
        BY <2>1, LenProperties
      <3>2. l \in Line
        BY <3>1, ElementOfSeq
      <3>3. l.id \in Device /\ l.value \in Value /\ l.ttl \in Nat
        BY <3>2 DEF Line
      <3>4. CastTtl(l.ttl) \in Int
        BY <3>3, SizeAssumption DEF CastTtl
      <3>5. set_dev(l.id, l.value, CastTtl(l.ttl))
        BY <1>12, <2>1 DEF RestoreLine
      <3>6. SlotInv'
        BY <3>3, <3>4, <3>5, SetDevInv
      <3>7. QED
        BY <1>12, <2>1, <3>6 DEF RestoreLine
    <2>2. CASE ~(count < Len(file))
      BY <1>12, <2>2, SlotsUnchanged DEF RestoreLine
    <2>3. QED
      BY <2>1, <2>2
  <1>13. CASE UNCHANGED vars
    BY <1>13, SlotsUnchanged DEF vars, slots
  <1>14. QED
    BY <1>1, <1>2, <1>3, <1>4, <1>5, <1>6, <1>7, <1>8, <1>9, <1>10, <1>11,
       <1>12, <1>13 DEF Next

LEMMA InitInv == Init => SlotInv /\ RestTypes
  <1> SUFFICES ASSUME Init PROVE SlotInv /\ RestTypes
    OBVIOUS
  <1>1. Occupied = {}
    BY DEF Init, Occupied
  <1>2. SlotTypes
    BY ValueAssumption DEF Init, SlotTypes
  <1>3. SlotInv
    BY <1>1, <1>2, FS_EmptySet DEF Init, SlotInv, CountMatches, NoDuplicates
  <1>4. RestTypes
    BY EmptySeq, SizeAssumption DEF Init, RestTypes
  <1>5. QED
    BY <1>3, <1>4

LEMMA IndInvariant == Spec => [](SlotInv /\ RestTypes)
  <1>1. SlotInv /\ RestTypes /\ [Next]_vars => (SlotInv /\ RestTypes)'
    BY StepInv
  <1>2. QED
    BY InitInv, <1>1, PTL DEF Spec

\* Every variable of the device manager keeps its type.
THEOREM TypeCorrect == Spec => []TypeOK
  <1>1. SlotInv /\ RestTypes => TypeOK
    BY DEF SlotInv, SlotTypes, RestTypes, TypeOK
  <1>2. QED
    BY <1>1, IndInvariant, PTL

\* cur_size is the number of occupied slots after any sequence of reports,
\* expiries, compactions, interrupted saves and restores (CountMatches).
THEOREM CountIsRight == Spec => []CountMatches
  <1>1. SlotInv /\ RestTypes => CountMatches
    BY DEF SlotInv
  <1>2. QED
    BY <1>1, IndInvariant, PTL

\* No device is ever listed in two slots (NoDuplicates).
THEOREM DevicesAreDistinct == Spec => []NoDuplicates
  <1>1. SlotInv /\ RestTypes => NoDuplicates
    BY DEF SlotInv
  <1>2. QED
    BY <1>1, IndInvariant, PTL

(***************************************************************************)
(* The save.                                                               *)
(***************************************************************************)

\* The line of a slot, and the occupied slots the save has passed.
LineOf(s) == [id |-> dev_id[s], value |-> dev_val[s], ttl |-> dev_ttl[s]]
Passed(n) == {s \in Occupied : s < n}

\* The file has one line for each occupied slot that the save has passed.
SaveInv ==
  pc = "save" =>
    /\ {file[k] : k \in DOMAIN file} = {LineOf(s) : s \in Passed(count)}
    /\ Len(file) = Cardinality(Passed(count))

\* All that the next lemmas know of the slots and the other variables.
Base == SlotInv /\ RestTypes

LEMMA PassedFinite ==
  ASSUME NEW n \in Nat
  PROVE  /\ IsFiniteSet(Passed(n)) /\ Passed(n) \in SUBSET Occupied
         /\ Cardinality(Passed(n)) \in Nat
<1>1. Passed(n) \in SUBSET Occupied
  BY DEF Passed
<1>2. QED
  BY <1>1, OccupiedFinite, FS_Subset, FS_CardinalityType

\* One turn of the save: the passed slots and the lines grow together.
LEMMA SaveTurn ==
  ASSUME Base, SaveInv, SaveSlot
  PROVE  /\ {file'[k] : k \in DOMAIN file'} = {LineOf(s) : s \in Passed(count + 1)}
         /\ Len(file') = Cardinality(Passed(count + 1))
<1> USE DEF Base, RestTypes
<1>1. CASE count \in Occupied
  <2> DEFINE l == LineOf(count)
  <2>1. l \in Line
    BY <1>1 DEF SlotInv, SlotTypes, Occupied, Line, LineOf
  <2>2. file' = Append(file, l)
    BY <1>1 DEF SaveSlot, LineOf
  <2>3. DOMAIN file' = DOMAIN file \cup {Len(file) + 1}
    BY <2>1, <2>2, LenProperties, AppendProperties
  <2>4. /\ \A k \in DOMAIN file : file'[k] = file[k]
        /\ file'[Len(file) + 1] = l
    BY <2>1, <2>2, LenProperties, AppendProperties
  <2>5. Passed(count + 1) = Passed(count) \cup {count} /\ count \notin Passed(count)
    BY <1>1, SizeAssumption DEF Passed, Occupied, Slot
  <2>6. {file'[k] : k \in DOMAIN file'} = {file[k] : k \in DOMAIN file} \cup {l}
    BY <2>3, <2>4
  <2>7. {LineOf(s) : s \in Passed(count + 1)} = {LineOf(s) : s \in Passed(count)} \cup {l}
    BY <2>5
  <2>8. Cardinality(Passed(count + 1)) = Cardinality(Passed(count)) + 1
    BY <2>5, PassedFinite, FS_AddElement
  <2>9. Len(file') = Len(file) + 1
    BY <2>1, <2>2, AppendProperties
  <2>10. QED
    BY <2>6, <2>7, <2>8, <2>9 DEF SaveInv, SaveSlot
<1>2. CASE count \notin Occupied
  <2>1. Passed(count + 1) = Passed(count)
    BY <1>2, SizeAssumption DEF Passed, Occupied, Slot
  <2>2. QED
    BY <1>2, <2>1 DEF SaveSlot, SaveInv
<1>3. QED
  BY <1>1, <1>2

\* While the slots stay as they are, the lines of passed slots do.
LEMMA PassedUnchanged ==
  ASSUME UNCHANGED slots, NEW n \in Nat
  PROVE  /\ Occupied' = Occupied
         /\ Passed(n)' = Passed(n)
         /\ {LineOf(s) : s \in Passed(n)}' = {LineOf(s) : s \in Passed(n)}
BY DEF slots, Passed, Occupied, LineOf

LEMMA SaveInvNext ==
  ASSUME Base, SaveInv, [Next]_vars
  PROVE  SaveInv'
<1> USE DEF Base, RestTypes
<1>1. CASE SaveOpen
  <2>1. file' = <<>> /\ count' = 0
    BY <1>1 DEF SaveOpen
  <2>2. \A s \in Occupied' : ~(s < 0)
    BY SizeAssumption DEF Occupied, Slot
  <2>3. Passed(count)' = {}
    BY <2>1, <2>2 DEF Passed
  <2>4. DOMAIN file' = {} /\ Len(file') = 0
    BY <2>1
  <2>5. QED
    BY <2>3, <2>4, FS_EmptySet DEF SaveInv
<1>2. CASE SaveSlot
  <2>1. UNCHANGED slots /\ count' = count + 1 /\ count + 1 \in Nat
    BY <1>2 DEF SaveSlot
  <2>2. /\ Passed(count)' = Passed(count + 1)
        /\ {LineOf(s) : s \in Passed(count)}' = {LineOf(s) : s \in Passed(count + 1)}
    BY <2>1 DEF slots, Passed, Occupied, LineOf
  <2>3. QED
    BY <1>2, <2>2, SaveTurn DEF SaveInv
<1>3. CASE UNCHANGED vars
  BY <1>3, PassedUnchanged DEF vars, slots, SaveInv, Passed, Occupied, LineOf
<1>4. CASE pc' # "save"
  BY <1>4 DEF SaveInv
<1>5. QED
  BY <1>1, <1>2, <1>3, <1>4
     DEF Next, Report, Alive, Second, SaveFails, AnswerStart, ReorderMove, AnswerNext,
         PowerOff, PowerOn, RestoreLine

\* A save that ends has written every listed device, once cur_size lines are
\* out or all slots are passed (SaveWritesAll).
THEOREM SaveIsComplete == Spec => SaveWritesAll
<1>1. Init => SaveInv
  BY DEF Init, SaveInv
<1>2. Base /\ SaveInv /\ [Next]_vars => SaveInv'
  BY SaveInvNext
<1>3. ASSUME Base, SaveInv, [Next]_vars, pc = "save", pc' = "idle"
      PROVE  {file'[k] : k \in DOMAIN file'} = {LineOf(s) : s \in Occupied}
  <2>1. SaveSlot
    BY <1>3 DEF Next, Report, Alive, Second, SaveOpen, SaveFails, AnswerStart, ReorderMove,
                AnswerNext, PowerOff, PowerOn, RestoreLine, vars
  <2>2. /\ {file'[k] : k \in DOMAIN file'} = {LineOf(s) : s \in Passed(count + 1)}
        /\ Len(file') = Cardinality(Passed(count + 1))
    BY <1>3, <2>1, SaveTurn
  <2>3. count + 1 \in Nat
    BY <1>3 DEF Base, RestTypes
  <2>4. Passed(count + 1) = Occupied
    <3>1. CASE Len(file') = cur_size
      BY <1>3, <2>2, <2>3, <3>1, PassedFinite, OccupiedFinite, FS_Subset
         DEF Base, SlotInv, CountMatches
    <3>2. CASE count + 1 = MaxDevs
      BY <3>2, SizeAssumption DEF Passed, Occupied, Slot
    <3>3. QED
      BY <1>3, <2>1, <3>1, <3>2 DEF SaveSlot, SaveIsDone
  <2>5. QED
    BY <2>2, <2>4
<1>4. Base /\ SaveInv /\ [Next]_vars =>
        [pc = "save" /\ pc' = "idle"
          => {file'[k] : k \in DOMAIN file'}
               = {[id |-> dev_id[s], value |-> dev_val[s], ttl |-> dev_ttl[s]] : s \in Occupied}]_vars
  BY <1>3 DEF LineOf
<1>5. Spec => []Base
  BY IndInvariant, PTL DEF Base
<1>6. QED
  BY <1>1, <1>2, <1>4, <1>5, PTL DEF Spec, SaveWritesAll

(***************************************************************************)
(* The answer to "all devices".                                            *)
(***************************************************************************)

\* The answer sends the slots from 0 on, and reorder() has left the devices in
\* the first cur_size of them, unless there is but one.
AnswerInv ==
  /\ pc = "reorder" => count = 0 /\ answer = <<>>
  /\ pc = "answer" =>
       /\ count <= cur_size
       /\ Len(answer) = count
       /\ \A k \in 1 .. count : answer[k] = dev_id[k - 1]
       /\ cur_size # 1 => Occupied = 0 .. cur_size - 1

\* Without a gap below cur_size the occupied slots are the first ones.
LEMMA NoGaps ==
  ASSUME SlotInv, Gaps = {}
  PROVE  Occupied = 0 .. cur_size - 1
<1>1. cur_size \in 0 .. MaxDevs
  BY OccupiedFinite DEF SlotInv, CountMatches
<1>2. 0 .. cur_size - 1 \in SUBSET Occupied
  BY <1>1, SizeAssumption DEF Gaps, Slot
<1>3. Cardinality(0 .. cur_size - 1) = cur_size
  BY <1>1, FS_Interval, SizeAssumption
<1>4. Cardinality(Occupied) = Cardinality(0 .. cur_size - 1)
  BY <1>3 DEF SlotInv, CountMatches
<1>5. QED
  BY <1>2, <1>4, OccupiedFinite, FS_Subset

LEMMA AnswerInvNext ==
  ASSUME Base, AnswerInv, [Next]_vars
  PROVE  AnswerInv'
<1> USE DEF Base, RestTypes
<1>1. CASE AnswerStart
  <2>1. count' = 0 /\ answer' = <<>> /\ cur_size' = cur_size /\ Occupied' = Occupied
    BY <1>1 DEF AnswerStart, slots, Occupied
  <2>2. cur_size \in Nat
    BY DEF SlotInv, SlotTypes
  <2>3. cur_size = 0 => Occupied = {}
    BY OccupiedFinite, FS_EmptySet DEF SlotInv, CountMatches
  <2>4. pc' = "answer" => cur_size = 0 \/ cur_size = 1
    BY <1>1, <2>2 DEF AnswerStart
  <2>5. 0 .. 0 - 1 = {} /\ 1 .. 0 = {}
    OBVIOUS
  <2>6. pc' = "answer" /\ cur_size' # 1 => Occupied' = 0 .. cur_size' - 1
    BY <2>1, <2>3, <2>4, <2>5
  <2>7. Len(answer') = 0 /\ count' <= cur_size' /\ \A k \in 1 .. count' : answer'[k] = dev_id'[k - 1]
    BY <2>1, <2>2, <2>5
  <2>8. QED
    BY <2>1, <2>6, <2>7 DEF AnswerInv
<1>2. CASE ReorderMove
  <2>1. CASE Gaps = {}
    <3>1. pc' = "answer" /\ UNCHANGED <<slots, count, answer>>
      BY <1>2, <2>1 DEF ReorderMove, slots
    <3>2. Occupied' = 0 .. cur_size' - 1
      BY <2>1, <3>1, NoGaps DEF slots, Occupied
    <3>3. count = 0 /\ answer = <<>> /\ cur_size \in Nat
      BY <1>2 DEF AnswerInv, ReorderMove, SlotInv, SlotTypes
    <3>4. QED
      BY <3>1, <3>2, <3>3 DEF AnswerInv, slots
  <2>2. CASE Gaps # {}
    BY <1>2, <2>2 DEF AnswerInv, ReorderMove
  <2>3. QED
    BY <2>1, <2>2
<1>3. CASE AnswerNext
  <2>1. CASE count < cur_size
    <3>1. /\ UNCHANGED slots /\ count' = count + 1 /\ pc' = "answer" /\ pc = "answer"
          /\ answer' = Append(answer, dev_id[count])
      BY <1>3, <2>1 DEF AnswerNext
    <3>2. count \in Slot /\ cur_size \in Nat
      BY <2>1, OccupiedFinite, SizeAssumption DEF SlotInv, SlotTypes, CountMatches, Slot
    <3>3. dev_id[count] \in Device \cup {NoDevice}
      BY <3>2 DEF SlotInv, SlotTypes
    <3>4. /\ Len(answer') = count + 1
          /\ \A k \in 1 .. count : answer'[k] = answer[k]
          /\ answer'[count + 1] = dev_id[count]
      BY <3>1, <3>3, AppendProperties DEF AnswerInv
    <3>5. \A k \in 1 .. count + 1 : answer'[k] = dev_id[k - 1]
      BY <3>1, <3>4 DEF AnswerInv
    <3>6. Occupied' = Occupied /\ dev_id' = dev_id /\ cur_size' = cur_size
      BY <3>1 DEF Occupied, slots
    <3>7. QED
      BY <2>1, <3>1, <3>2, <3>4, <3>5, <3>6 DEF AnswerInv
  <2>2. CASE ~(count < cur_size)
    BY <1>3, <2>2 DEF AnswerInv, AnswerNext
  <2>3. QED
    BY <2>1, <2>2
<1>4. CASE UNCHANGED vars
  BY <1>4 DEF vars, AnswerInv, Occupied
<1>5. CASE pc' \notin {"reorder", "answer"}
  BY <1>5 DEF AnswerInv
<1>6. QED
  BY <1>1, <1>2, <1>3, <1>4, <1>5
     DEF Next, Report, Alive, Second, SaveOpen, SaveFails, SaveSlot, PowerOff, PowerOn,
         RestoreLine

\* The complete answer to "all devices" names every known device once, for any
\* gaps that expired devices have left (AnswerListsAll).
THEOREM AnswerIsComplete == Spec => []AnswerListsAll
<1>1. Init => AnswerInv
  BY DEF Init, AnswerInv
<1>2. Base /\ AnswerInv /\ [Next]_vars => AnswerInv'
  BY AnswerInvNext
<1>3. Base /\ AnswerInv => AnswerListsAll
  <2> SUFFICES ASSUME Base, AnswerInv, pc = "answer", count = cur_size, cur_size # 1
               PROVE  {answer[k] : k \in DOMAIN answer} = Known /\ Len(answer) = cur_size
    BY DEF AnswerListsAll
  <2>1. /\ Len(answer) = cur_size /\ cur_size \in Nat
        /\ \A k \in 1 .. cur_size : answer[k] = dev_id[k - 1]
        /\ Occupied = 0 .. cur_size - 1
    BY DEF AnswerInv, Base, SlotInv, SlotTypes
  <2>2. DOMAIN answer = 1 .. cur_size
    BY <2>1, LenProperties DEF Base, RestTypes
  <2>3. ASSUME NEW s \in Occupied PROVE s + 1 \in DOMAIN answer /\ answer[s + 1] = dev_id[s]
    BY <2>1, <2>2
  <2>4. ASSUME NEW k \in DOMAIN answer PROVE k - 1 \in Occupied /\ answer[k] = dev_id[k - 1]
    BY <2>1, <2>2
  <2>5. {answer[k] : k \in DOMAIN answer} = Known
    BY <2>3, <2>4 DEF Known
  <2>6. QED
    BY <2>1, <2>5
<1>4. Spec => []Base
  BY IndInvariant, PTL DEF Base
<1>5. QED
  BY <1>1, <1>2, <1>3, <1>4, PTL DEF Spec

(***************************************************************************)
(* The file and the restore.                                               *)
(***************************************************************************)

\* What the slots and the lines hold of a time to live, and what a file can
\* be: at most one line for each slot, of distinct devices.
SlotsLive == \A s \in Occupied : dev_ttl[s] \in 0 .. AliveTtl
LinesLive == \A k \in DOMAIN file : file[k].ttl \in 0 .. AliveTtl
LinesDistinct ==
  /\ Len(file) <= MaxDevs
  /\ \A j, k \in DOMAIN file : file[j].id = file[k].id => j = k
FileInv == SlotsLive /\ LinesLive /\ LinesDistinct

\* The devices of the lines read so far are listed, and no others; a time to
\* live is what the cast makes of it.
RestoreInv ==
  /\ pc = "off" => Occupied = {}
  /\ pc = "restore" =>
       /\ count <= Len(file)
       /\ cur_size = count
       /\ Known = {file[k].id : k \in 1 .. count}
       /\ \A k \in 1 .. count :
            \E s \in Occupied : /\ dev_id[s] = file[k].id
                                /\ dev_val[s] = file[k].value
                                /\ dev_ttl[s] = set_ttl(CastTtl(file[k].ttl))

\* The remainder of a division is no larger than the number divided.
LEMMA ModNoLarger ==
  ASSUME NEW t \in Nat, NEW n \in Nat \ {0}
  PROVE  t % n \in 0 .. t /\ (t < n => t % n = t)
<1>1. t % n \in 0 .. n - 1
  OBVIOUS
<1>2. CASE t < n
  BY <1>2
<1>3. CASE t >= n
  BY <1>1, <1>3
<1>4. QED
  BY <1>2, <1>3

\* A time to live read back is no longer than it was, and it is the same when
\* the type of the cast can hold it.
LEMMA CastNoLarger ==
  ASSUME NEW t \in Nat
  PROVE  /\ CastTtl(t) \in Int /\ set_ttl(CastTtl(t)) \in 0 .. t
         /\ 2 * t < TtlRange => set_ttl(CastTtl(t)) = t
<1> DEFINE m == t % TtlRange
<1>1. TtlRange \in Nat \ {0}
  BY SizeAssumption
<1>2. m \in 0 .. t /\ (t < TtlRange => m = t) /\ m < TtlRange
  BY <1>1, ModNoLarger
<1>3. CastTtl(t) = IF 2 * m >= TtlRange THEN m - TtlRange ELSE m
  BY DEF CastTtl
<1> HIDE DEF m
<1>4. QED
  BY <1>1, <1>2, <1>3 DEF set_ttl

\* Storing a report changes the device's own slot, or else an empty one.
LEMMA SetDevEffect ==
  ASSUME SlotInv, NEW i \in Device, NEW v, NEW t, HasRoom(i), set_dev(i, v, t)
  PROVE  \E s \in Slot :
           /\ dev_id[s] = IF i \in Known THEN i ELSE NoDevice
           /\ dev_id' = [dev_id EXCEPT ![s] = i]
           /\ dev_val' = [dev_val EXCEPT ![s] = v]
           /\ dev_ttl' = [dev_ttl EXCEPT ![s] = set_ttl(t)]
           /\ Occupied' = Occupied \cup {s}
           /\ Known' = Known \cup {i}
           /\ cur_size' = IF i \in Known THEN cur_size ELSE cur_size + 1
<1> DEFINE s == SlotFor(i)
<1>1. s \in Slot /\ dev_id[s] = IF i \in Known THEN i ELSE NoDevice
  <2>1. CASE i \in Known
    BY <2>1, FindDevice DEF SlotFor, Occupied
  <2>2. CASE i \notin Known
    BY <2>2, EmptySlot DEF SlotFor, HasRoom
  <2>3. QED
    BY <2>1, <2>2
<1>2. /\ dev_id' = [dev_id EXCEPT ![s] = i]
      /\ dev_val' = [dev_val EXCEPT ![s] = v]
      /\ dev_ttl' = [dev_ttl EXCEPT ![s] = set_ttl(t)]
      /\ cur_size' = IF i \in Known THEN cur_size ELSE cur_size + 1
  BY DEF set_dev, SizeAfter
<1> HIDE DEF s
<1>3. i # NoDevice
  BY DeviceAssumption
<1>4. dev_id'[s] = i /\ \A u \in Slot \ {s} : dev_id'[u] = dev_id[u]
  BY <1>1, <1>2 DEF SlotInv, SlotTypes
<1>5. Occupied' = Occupied \cup {s}
  BY <1>1, <1>3, <1>4 DEF Occupied
<1>6. Known' = Known \cup {i}
  <2>1. ASSUME NEW u \in Occupied' PROVE dev_id'[u] \in Known \cup {i}
    BY <1>4, <1>5, <2>1 DEF Known, Occupied
  <2>2. ASSUME NEW j \in Known PROVE j \in Known'
    <3>1. PICK u \in Occupied : dev_id[u] = j
      BY <2>2 DEF Known
    <3>2. u # s => dev_id'[u] = j
      BY <1>4, <3>1 DEF Occupied
    <3>3. u = s => dev_id'[u] = j
      BY <1>1, <1>4, <3>1 DEF Occupied
    <3>4. u \in Occupied'
      BY <1>5
    <3>5. QED
      BY <3>2, <3>3, <3>4 DEF Known
  <2>3. i \in Known'
    BY <1>4, <1>5 DEF Known
  <2>4. QED
    BY <2>1, <2>2, <2>3 DEF Known
<1>7. QED
  BY <1>1, <1>2, <1>5, <1>6

\* The slots keep their times to live in range.
LEMMA TtlInRange ==
  ASSUME Base, FileInv, NEW i \in Device, NEW v, NEW t, set_ttl(t) \in 0 .. AliveTtl,
         set_dev(i, v, t)
  PROVE  \A s \in Occupied' : dev_ttl'[s] \in 0 .. AliveTtl
<1>1. CASE HasRoom(i)
  <2>1. PICK s \in Slot : /\ dev_ttl' = [dev_ttl EXCEPT ![s] = set_ttl(t)]
                          /\ Occupied' = Occupied \cup {s}
    BY <1>1, SetDevEffect DEF Base
  <2>2. \A u \in Slot : dev_ttl'[u] = IF u = s THEN set_ttl(t) ELSE dev_ttl[u]
    BY <2>1 DEF Base, SlotInv, SlotTypes
  <2>3. QED
    BY <2>1, <2>2 DEF FileInv, SlotsLive, Occupied
<1>2. CASE ~HasRoom(i)
  BY <1>2 DEF set_dev, slots, FileInv, SlotsLive, Occupied
<1>3. QED
  BY <1>1, <1>2

LEMMA FileInvNext ==
  ASSUME Base, SaveInv, FileInv, [Next]_vars
  PROVE  FileInv'
<1> USE DEF Base, RestTypes
<1>1. SlotsLive /\ LinesLive /\ LinesDistinct
  BY DEF FileInv
<1>2. UNCHANGED file => LinesLive' /\ LinesDistinct'
  BY <1>1 DEF LinesLive, LinesDistinct
<1>3. UNCHANGED <<dev_id, dev_ttl>> => SlotsLive'
  BY <1>1 DEF Occupied, SlotsLive
<1> SUFFICES SlotsLive' /\ LinesLive' /\ LinesDistinct'
  BY DEF FileInv
<1>4. ASSUME NEW i \in Device, NEW v \in Value, Report(i, v)
      PROVE  SlotsLive' /\ LinesLive' /\ LinesDistinct'
  <2>1. set_ttl(AliveTtl) \in 0 .. AliveTtl
    BY SizeAssumption DEF set_ttl
  <2>2. QED
    BY <1>2, <1>4, <2>1, TtlInRange DEF Report, SlotsLive
<1>5. ASSUME NEW i \in Device, Alive(i)
      PROVE  SlotsLive' /\ LinesLive' /\ LinesDistinct'
  <2>1. Occupied' = Occupied
    BY <1>5 DEF Alive, Occupied
  <2>2. \A s \in Occupied : dev_ttl'[s] \in {dev_ttl[s], AliveTtl}
    BY <1>5 DEF Alive, SlotInv, SlotTypes, Occupied
  <2>3. AliveTtl \in 0 .. AliveTtl
    BY SizeAssumption
  <2>4. QED
    BY <1>1, <1>2, <1>5, <2>1, <2>2, <2>3 DEF Alive, SlotsLive
<1>6. CASE Second
  <2>1. \A s \in Occupied' : s \in Occupied /\ dev_ttl'[s] = set_ttl(dev_ttl[s] - 1)
    BY <1>6 DEF Second, dec_all_devs_ttl, Occupied, Expiring
  <2>2. \A n \in 0 .. AliveTtl : set_ttl(n - 1) \in 0 .. AliveTtl
    BY SizeAssumption DEF set_ttl
  <2>3. QED
    BY <1>1, <1>2, <1>6, <2>1, <2>2 DEF Second, SlotsLive
<1>7. CASE SaveOpen
  <2>1. file' = <<>>
    BY <1>7 DEF SaveOpen
  <2>2. QED
    BY <1>3, <1>7, <2>1, SizeAssumption DEF SaveOpen, slots, LinesLive, LinesDistinct
<1>8. CASE SaveFails
  BY <1>2, <1>3, <1>8 DEF SaveFails, slots
<1>9. CASE SaveSlot
  <2>1. SlotsLive'
    BY <1>3, <1>9 DEF SaveSlot, slots
  <2>2. Len(file') <= MaxDevs
    <3>1. Len(file') = Cardinality(Passed(count + 1))
      BY <1>9, SaveTurn
    <3>2. Cardinality(Passed(count + 1)) <= Cardinality(Occupied)
      BY PassedFinite, OccupiedFinite, FS_Subset
    <3>3. QED
      BY <3>1, <3>2, OccupiedFinite, PassedFinite, SizeAssumption
  <2>3. CASE count \in Occupied
    <3> DEFINE l == LineOf(count)
               n == Len(file)
    <3>1. l \in Line
      BY <2>3 DEF SlotInv, SlotTypes, Occupied, Line, LineOf
    <3>2. file' = Append(file, l)
      BY <1>9, <2>3 DEF SaveSlot, LineOf
    <3>3. /\ DOMAIN file' = DOMAIN file \cup {n + 1} /\ n + 1 \notin DOMAIN file
          /\ \A k \in DOMAIN file : file'[k] = file[k]
          /\ file'[n + 1] = l
      BY <3>1, <3>2, LenProperties, AppendProperties
    <3>4. l.ttl \in 0 .. AliveTtl
      BY <1>1, <2>3 DEF LineOf, SlotsLive
    <3>5. ASSUME NEW k \in DOMAIN file PROVE file[k].id # l.id
      <4>1. pc = "save"
        BY <1>9 DEF SaveSlot
      <4>2. PICK s \in Passed(count) : file[k] = LineOf(s)
        BY <4>1 DEF SaveInv
      <4>3. s \in Occupied /\ s # count
        BY <4>2, SizeAssumption DEF Passed, Occupied, Slot
      <4>4. dev_id[s] # dev_id[count]
        BY <2>3, <4>3 DEF SlotInv, NoDuplicates
      <4>5. file[k].id = dev_id[s] /\ l.id = dev_id[count]
        BY <4>2 DEF LineOf
      <4>6. QED
        BY <4>4, <4>5, Zenon
    <3>6. LinesLive'
      BY <1>1, <3>3, <3>4 DEF LinesLive
    <3>7. LinesDistinct'
      BY <1>1, <2>2, <3>3, <3>5 DEF LinesDistinct
    <3>8. QED
      BY <2>1, <3>6, <3>7
  <2>4. CASE count \notin Occupied
    BY <1>2, <1>9, <2>1, <2>4 DEF SaveSlot
  <2>5. QED
    BY <2>3, <2>4
<1>10. CASE AnswerStart
  BY <1>2, <1>3, <1>10 DEF AnswerStart, slots
<1>11. CASE ReorderMove
  <2>1. CASE Gaps = {}
    BY <1>2, <1>3, <1>11, <2>1 DEF ReorderMove
  <2>2. CASE Gaps # {}
    <3> DEFINE l == Last(Occupied)
               g == First(Gaps)
    <3>1. g \in Slot \ Occupied
      <4>1. Gaps \in SUBSET Slot
        BY DEF Gaps
      <4>2. QED
        BY <2>2, <4>1, FirstExists DEF Gaps
    <3>2. l \in Occupied
      <4>1. cur_size # 0
        BY <2>2, SizeAssumption DEF Gaps, Slot
      <4>2. Occupied # {}
        BY <4>1, FS_EmptySet DEF SlotInv, CountMatches
      <4>3. QED
        BY <4>2, OccupiedFinite, LastExists
    <3>3. /\ dev_id' = [dev_id EXCEPT ![g] = dev_id[l], ![l] = NoDevice]
          /\ dev_ttl' = [dev_ttl EXCEPT ![g] = dev_ttl[l]]
          /\ file' = file
      BY <1>11, <2>2 DEF ReorderMove
    <3>4. \A s \in Occupied' : dev_ttl'[s] = IF s = g THEN dev_ttl[l] ELSE dev_ttl[s]
      BY <3>1, <3>3 DEF Occupied, SlotInv, SlotTypes
    <3>5. \A s \in Occupied' : s # g => s \in Occupied
      BY <3>1, <3>2, <3>3 DEF Occupied, SlotInv, SlotTypes
    <3>6. QED
      BY <1>1, <1>2, <3>2, <3>3, <3>4, <3>5 DEF SlotsLive
  <2>3. QED
    BY <2>1, <2>2
<1>12. CASE AnswerNext
  BY <1>2, <1>3, <1>12 DEF AnswerNext, slots
<1>13. CASE PowerOff
  <2>1. Occupied' = {}
    BY <1>13 DEF PowerOff, Cleared, Occupied
  <2>2. QED
    BY <1>2, <1>13, <2>1 DEF PowerOff, SlotsLive
<1>14. CASE PowerOn
  BY <1>2, <1>3, <1>14 DEF PowerOn, slots
<1>15. CASE RestoreLine
  <2>1. CASE count < Len(file)
    <3> DEFINE l == file[count + 1]
    <3>1. count + 1 \in DOMAIN file
      BY <2>1, LenProperties
    <3>2. l \in Line
      BY <3>1, LenProperties, ElementOfSeq
    <3>3. l.id \in Device /\ l.ttl \in 0 .. AliveTtl /\ l.ttl \in Nat
      BY <1>1, <3>1, <3>2 DEF Line, LinesLive
    <3>4. set_dev(l.id, l.value, CastTtl(l.ttl)) /\ file' = file
      BY <1>15, <2>1 DEF RestoreLine
    <3> HIDE DEF l
    <3>5. set_ttl(CastTtl(l.ttl)) \in 0 .. AliveTtl
      <4>1. set_ttl(CastTtl(l.ttl)) \in 0 .. l.ttl
        BY <3>3, CastNoLarger
      <4>2. QED
        BY <3>3, <4>1, SizeAssumption
    <3>6. QED
      BY <1>2, <3>3, <3>4, <3>5, TtlInRange DEF SlotsLive
  <2>2. CASE ~(count < Len(file))
    BY <1>2, <1>3, <1>15, <2>2 DEF RestoreLine, slots
  <2>3. QED
    BY <2>1, <2>2
<1>16. CASE UNCHANGED vars
  BY <1>2, <1>3, <1>16 DEF vars
<1>17. QED
  BY <1>4, <1>5, <1>6, <1>7, <1>8, <1>9, <1>10, <1>11, <1>12, <1>13, <1>14, <1>15, <1>16 DEF Next

\* The next line is of a device not listed yet, and there is a slot for it.
LEMMA RestoreTurn ==
  ASSUME Base, FileInv, RestoreInv, RestoreLine, count < Len(file)
  PROVE  RestoreInv'
<1> USE DEF Base, RestTypes
<1> DEFINE l == file[count + 1]
<1>1. /\ pc = "restore" /\ pc' = "restore" /\ count' = count + 1 /\ file' = file
      /\ set_dev(l.id, l.value, CastTtl(l.ttl))
  BY DEF RestoreLine
<1>2. DOMAIN file = 1 .. Len(file) /\ Len(file) \in Nat /\ count + 1 \in DOMAIN file
  BY LenProperties
<1>3. l \in Line
  BY <1>2, ElementOfSeq
<1>4. l.id \in Device
  BY <1>3 DEF Line
<1>5. /\ cur_size = count /\ Known = {file[k].id : k \in 1 .. count}
      /\ \A k \in 1 .. count :
           \E s \in Occupied : /\ dev_id[s] = file[k].id
                               /\ dev_val[s] = file[k].value
                               /\ dev_ttl[s] = set_ttl(CastTtl(file[k].ttl))
  BY <1>1 DEF RestoreInv
<1>6. l.id \notin Known
  <2>1. \A k \in 1 .. count : file[k].id # l.id
    BY <1>2 DEF FileInv, LinesDistinct
  <2>2. QED
    BY <1>5, <2>1
<1>7. HasRoom(l.id)
  <2>1. Cardinality(Occupied) < MaxDevs
    BY <1>2, <1>5, SizeAssumption DEF FileInv, LinesDistinct, SlotInv, CountMatches
  <2>2. Cardinality(Slot) = MaxDevs
    BY FS_Interval, SizeAssumption DEF Slot
  <2>3. Occupied # Slot
    BY <2>1, <2>2, SizeAssumption
  <2>4. QED
    BY <2>3 DEF HasRoom
<1>8. PICK s \in Slot :
        /\ dev_id[s] = NoDevice
        /\ dev_id' = [dev_id EXCEPT ![s] = l.id]
        /\ dev_val' = [dev_val EXCEPT ![s] = l.value]
        /\ dev_ttl' = [dev_ttl EXCEPT ![s] = set_ttl(CastTtl(l.ttl))]
        /\ Occupied' = Occupied \cup {s}
        /\ Known' = Known \cup {l.id}
        /\ cur_size' = cur_size + 1
  BY <1>1, <1>4, <1>6, <1>7, SetDevEffect
<1>9. s \notin Occupied
  BY <1>8 DEF Occupied
<1>10. /\ \A u \in Occupied : dev_id'[u] = dev_id[u] /\ dev_val'[u] = dev_val[u] /\ dev_ttl'[u] = dev_ttl[u]
       /\ dev_id'[s] = l.id /\ dev_val'[s] = l.value /\ dev_ttl'[s] = set_ttl(CastTtl(l.ttl))
  BY <1>8, <1>9 DEF SlotInv, SlotTypes, Occupied
<1>11. 1 .. count + 1 = (1 .. count) \cup {count + 1}
  OBVIOUS
<1>12. Known' = {file[k].id : k \in 1 .. count + 1}
  BY <1>5, <1>8, <1>11
<1>13. ASSUME NEW k \in 1 .. count + 1
       PROVE  \E u \in Occupied' : /\ dev_id'[u] = file[k].id
                                   /\ dev_val'[u] = file[k].value
                                   /\ dev_ttl'[u] = set_ttl(CastTtl(file[k].ttl))
  <2>1. CASE k \in 1 .. count
    <3>1. PICK u \in Occupied : /\ dev_id[u] = file[k].id
                                /\ dev_val[u] = file[k].value
                                /\ dev_ttl[u] = set_ttl(CastTtl(file[k].ttl))
      BY <1>5, <2>1
    <3>2. QED
      BY <1>8, <1>10, <3>1
  <2>2. CASE k = count + 1
    BY <1>8, <1>10, <2>2
  <2>3. QED
    BY <1>11, <1>13, <2>1, <2>2
<1>14. count' <= Len(file) /\ cur_size' = count'
  BY <1>1, <1>2, <1>5, <1>8
<1> HIDE DEF l
<1>15. QED
  BY <1>1, <1>12, <1>13, <1>14 DEF RestoreInv, set_ttl, CastTtl

LEMMA RestoreInvNext ==
  ASSUME Base, FileInv, RestoreInv, [Next]_vars
  PROVE  RestoreInv'
<1> USE DEF Base, RestTypes
<1>1. CASE PowerOff
  <2>1. pc' = "off"
    BY <1>1 DEF PowerOff
  <2>2. Occupied' = {}
    BY <1>1 DEF PowerOff, Cleared, Occupied
  <2>3. QED
    BY <2>1, <2>2 DEF RestoreInv
<1>2. CASE PowerOn
  <2>1. /\ count' = 0 /\ file' = file /\ cur_size' = cur_size
        /\ Occupied' = Occupied /\ Known' = Known /\ pc' # "off"
    BY <1>2 DEF PowerOn, slots, Known, Occupied
  <2>2. Occupied = {}
    BY <1>2 DEF RestoreInv, PowerOn
  <2>3. cur_size = 0
    BY <2>2, FS_EmptySet DEF SlotInv, CountMatches
  <2>4. Known = {} /\ Len(file) \in Nat
    BY <2>2, LenProperties DEF Known
  <2>5. 1 .. 0 = {}
    OBVIOUS
  <2>6. QED
    BY <2>1, <2>3, <2>4, <2>5 DEF RestoreInv
<1>3. CASE RestoreLine
  <2>1. CASE count < Len(file)
    BY <1>3, <2>1, RestoreTurn
  <2>2. CASE ~(count < Len(file))
    BY <1>3, <2>2 DEF RestoreLine, RestoreInv
  <2>3. QED
    BY <2>1, <2>2
<1>4. CASE UNCHANGED vars
  <2>1. Occupied' = Occupied /\ Known' = Known
    BY <1>4 DEF vars, Known, Occupied
  <2>2. \A k : set_ttl(CastTtl(file[k].ttl))' = set_ttl(CastTtl(file[k].ttl))
    BY <1>4 DEF vars, set_ttl, CastTtl
  <2>3. pc' = pc /\ count' = count /\ file' = file /\ cur_size' = cur_size
        /\ dev_id' = dev_id /\ dev_val' = dev_val /\ dev_ttl' = dev_ttl
    BY <1>4 DEF vars
  <2>4. QED
    BY <2>1, <2>2, <2>3 DEF RestoreInv
<1>5. CASE pc' \notin {"off", "restore"}
  BY <1>5 DEF RestoreInv
<1>6. QED
  BY <1>1, <1>2, <1>3, <1>4, <1>5
     DEF Next, Report, Alive, Second, SaveOpen, SaveFails, SaveSlot, AnswerStart, ReorderMove,
         AnswerNext

LEMMA AllInvariant == Spec => [](Base /\ SaveInv /\ FileInv /\ RestoreInv)
<1>1. Init => SaveInv /\ FileInv /\ RestoreInv
  <2> SUFFICES ASSUME Init PROVE SaveInv /\ FileInv /\ RestoreInv
    OBVIOUS
  <2>1. Occupied = {} /\ file = <<>> /\ pc = "off"
    BY DEF Init, Occupied
  <2>2. QED
    BY <2>1, SizeAssumption DEF SaveInv, FileInv, SlotsLive, LinesLive, LinesDistinct, RestoreInv
<1>2. Base /\ SaveInv /\ FileInv /\ RestoreInv /\ [Next]_vars => (SaveInv /\ FileInv /\ RestoreInv)'
  BY SaveInvNext, FileInvNext, RestoreInvNext
<1>3. Spec => []Base
  BY IndInvariant, PTL DEF Base
<1>4. QED
  BY <1>1, <1>2, <1>3, PTL DEF Spec

\* While restore() reads the file, the devices of the lines read are listed with
\* the values they were saved with, none with longer to live and, where the type
\* of the cast can hold it, just as long (RestoredFromFile): for any alive_ttl, type of
\* the cast, number of devices and slots, after any interrupted saves.
THEOREM RestoreIsFaithful == Spec => []RestoredFromFile
<1>1. ASSUME Base, FileInv, RestoreInv
      PROVE  RestoredFromFile
  <2>1. ASSUME pc = "restore", NEW k \in 1 .. count
        PROVE  /\ set_ttl(CastTtl(file[k].ttl)) <= file[k].ttl
               /\ 2 * file[k].ttl < TtlRange => set_ttl(CastTtl(file[k].ttl)) = file[k].ttl
    <3>1. k \in DOMAIN file
      BY <1>1, <2>1, LenProperties DEF Base, RestTypes, RestoreInv
    <3>2. file[k].ttl \in 0 .. AliveTtl
      BY <1>1, <3>1 DEF FileInv, LinesLive
    <3>3. file[k].ttl \in Nat
      BY <3>2, SizeAssumption
    <3>4. QED
      BY <3>3, CastNoLarger
  <2>2. QED
    BY <1>1, <2>1 DEF RestoredFromFile, RestoreInv
<1>2. QED
  BY <1>1, AllInvariant, PTL

(***************************************************************************)
(* The slots as a table: the refinement of DeviceTable.                    *)
(***************************************************************************)

\* What a slot holds of its device, and the table all slots make up.
Entry(s) == [value |-> dev_val[s], ttl |-> dev_ttl[s]]
AsTable == [i \in Known |-> [value |-> dev_val[find_device(i)], ttl |-> dev_ttl[find_device(i)]]]

\* A device in one slot only is found there.
LEMMA Found ==
  ASSUME NEW d, NEW s \in Slot, \A t \in Slot : d[t] = d[s] => t = s
  PROVE  First({t \in Slot : d[t] = d[s]}) = s
<1>1. {t \in Slot : d[t] = d[s]} = {s}
  OBVIOUS
<1>2. First({s}) \in {s}
  BY FirstExists
<1>3. QED
  BY <1>1, <1>2

\* The entry of a device is what its slot holds.
EntriesAreSlots ==
  /\ DOMAIN AsTable = Known
  /\ \A s \in Occupied : dev_id[s] \in Known /\ AsTable[dev_id[s]] = Entry(s)

LEMMA TableEntries == SlotInv => EntriesAreSlots
<1> SUFFICES ASSUME SlotInv, NEW s \in Occupied
             PROVE  dev_id[s] \in Known /\ AsTable[dev_id[s]] = Entry(s)
  BY DEF AsTable, EntriesAreSlots
<1>1. \A t \in Slot : dev_id[t] = dev_id[s] => t = s
  BY DEF SlotInv, NoDuplicates, Occupied
<1>2. find_device(dev_id[s]) = s
  BY <1>1, Found DEF find_device, Occupied
<1>3. dev_id[s] \in Known
  BY DEF Known
<1>4. QED
  BY <1>2, <1>3 DEF AsTable, Entry

LEMMA TableEntriesNext == SlotInv' => EntriesAreSlots'
BY TableEntries, PTL

\* Two states with the same devices and the same entries have the same table.
LEMMA SameTable ==
  ASSUME SlotInv', Known' = Known, \A i \in Known : \E s \in Occupied' : dev_id'[s] = i /\ Entry(s)' = AsTable[i]
  PROVE  AsTable' = AsTable
<1>1. EntriesAreSlots'
  BY TableEntriesNext
<1>2. \A i \in Known : AsTable'[i] = AsTable[i]
  BY <1>1 DEF EntriesAreSlots
<1>3. AsTable = [i \in Known |-> AsTable[i]] /\ AsTable' = [i \in Known' |-> AsTable'[i]]
  BY DEF AsTable
<1>4. QED
  BY <1>2, <1>3

\* DeviceTable's Cardinality is that of FiniteSets.
LEMMA SameCardinality == \A S : Table!Cardinality(S) = Cardinality(S)
BY DEF Table!Cardinality, Cardinality

\* A stored report or line is a Set of the table, or nothing without room.
LEMMA SetDevIsSet ==
  ASSUME Base, Base', FileInv, NEW i \in Device, NEW v \in Value, NEW t, set_ttl(t) \in 0 .. AliveTtl,
         set_dev(i, v, t)
  PROVE  Table!Set(i, v, set_ttl(t)) \/ AsTable' = AsTable
<1> USE DEF Base
<1>1. CASE HasRoom(i)
  <2>1. EntriesAreSlots /\ EntriesAreSlots'
    BY TableEntries, TableEntriesNext
  <2>2. PICK s \in Slot :
          /\ dev_id[s] = IF i \in Known THEN i ELSE NoDevice
          /\ dev_id' = [dev_id EXCEPT ![s] = i]
          /\ dev_val' = [dev_val EXCEPT ![s] = v]
          /\ dev_ttl' = [dev_ttl EXCEPT ![s] = set_ttl(t)]
          /\ Occupied' = Occupied \cup {s}
          /\ Known' = Known \cup {i}
    BY <1>1, SetDevEffect
  <2>3. /\ dev_id'[s] = i /\ dev_val'[s] = v /\ dev_ttl'[s] = set_ttl(t)
        /\ \A u \in Slot \ {s} : dev_id'[u] = dev_id[u] /\ dev_val'[u] = dev_val[u] /\ dev_ttl'[u] = dev_ttl[u]
    BY <2>2 DEF SlotInv, SlotTypes
  <2>4. AsTable'[i] = [value |-> v, ttl |-> set_ttl(t)]
    <3>1. s \in Occupied' /\ AsTable'[dev_id'[s]] = Entry(s)'
      BY <2>1, <2>2 DEF EntriesAreSlots
    <3>2. Entry(s)' = [value |-> v, ttl |-> set_ttl(t)]
      BY <2>3 DEF Entry
    <3>3. QED
      BY <2>3, <3>1, <3>2
  <2>5. ASSUME NEW j \in Known, j # i
        PROVE  AsTable'[j] = AsTable[j]
    <3>1. PICK u \in Occupied : dev_id[u] = j
      BY DEF Known
    <3>2. u # s
      BY <2>2, <2>5, <3>1 DEF Occupied
    <3>3. u \in Occupied' /\ dev_id'[u] = j /\ Entry(u)' = Entry(u)
      BY <2>2, <2>3, <3>1, <3>2 DEF Entry, Occupied
    <3>4. QED
      BY <2>1, <3>1, <3>3 DEF EntriesAreSlots
  <2>6. AsTable' = [j \in Known' |-> AsTable'[j]]
    BY DEF AsTable
  <2>7. AsTable' = [j \in Known \cup {i} |-> IF j = i THEN [value |-> v, ttl |-> set_ttl(t)] ELSE AsTable[j]]
    BY <2>2, <2>4, <2>5, <2>6
  <2>8. i \in Known \/ Cardinality(Known) < MaxDevs
    <3>1. CASE Occupied # Slot
      <4>2. Cardinality(Occupied) < MaxDevs
        BY <3>1, SlotsFinite, OccupiedFinite, FS_Subset, SizeAssumption
      <4>3. [u \in Occupied |-> dev_id[u]] \in Surjection(Occupied, Known)
        BY DEF Known, Surjection
      <4>4. Cardinality(Known) <= Cardinality(Occupied) /\ IsFiniteSet(Known)
        BY <4>3, OccupiedFinite, FS_Surjection
      <4>5. Cardinality(Known) \in Nat
        BY <4>4, FS_CardinalityType
      <4>6. QED
        BY <4>2, <4>4, <4>5, OccupiedFinite, SizeAssumption
    <3>2. QED
      BY <1>1, <3>1 DEF HasRoom
  <2>9. Table!Known = Known
    BY DEF Table!Known
  <2>10. AsTable' = [j \in Table!Known \cup {i} |-> IF j = i THEN [value |-> v, ttl |-> set_ttl(t)] ELSE AsTable[j]]
    BY <2>7, <2>9
  <2>11. QED
    BY <2>8, <2>9, <2>10, SameCardinality DEF Table!Set, AsTable
<1>2. CASE ~HasRoom(i)
  BY <1>2 DEF set_dev, slots, AsTable, Known, Occupied, find_device, First
<1>3. QED
  BY <1>1, <1>2

\* So is every store a step of the table.
LEMMA StoreIsStep ==
  ASSUME Base, Base', FileInv, NEW i \in Device, NEW v \in Value, NEW t, set_ttl(t) \in 0 .. AliveTtl,
         set_dev(i, v, t)
  PROVE  Table!Next \/ AsTable' = AsTable
<1>1. CASE Table!Set(i, v, set_ttl(t))
  BY <1>1 DEF Table!Next
<1>2. QED
  BY <1>1, SetDevIsSet

\* An alive message is a Refresh.
LEMMA AliveIsRefresh ==
  ASSUME Base, Base', NEW i \in Device, Alive(i), i \in Known
  PROVE  Table!Refresh(i, AliveTtl)
<1> USE DEF Base
<1>1. PICK s \in Occupied : s = find_device(i) /\ dev_id[s] = i
  BY FindDevice
<1>2. /\ dev_ttl' = [dev_ttl EXCEPT ![s] = AliveTtl]
      /\ Known' = Known /\ Occupied' = Occupied /\ dev_id' = dev_id /\ dev_val' = dev_val
  BY <1>1 DEF Alive, Known, Occupied
<1>3. EntriesAreSlots /\ EntriesAreSlots'
  BY TableEntries, TableEntriesNext
<1>4. \A u \in Occupied : dev_ttl'[u] = IF u = s THEN AliveTtl ELSE dev_ttl[u]
  BY <1>2 DEF SlotInv, SlotTypes, Occupied
<1>5. AsTable[i] = Entry(s) /\ AsTable'[i] = Entry(s)'
  BY <1>1, <1>2, <1>3 DEF EntriesAreSlots
<1>6. Entry(s)' = [Entry(s) EXCEPT !.ttl = AliveTtl]
  BY <1>1, <1>2, <1>4 DEF Entry
<1>7. ASSUME NEW j \in Known, j # i
      PROVE  AsTable'[j] = AsTable[j]
  <2>1. PICK u \in Occupied : dev_id[u] = j
    BY DEF Known
  <2>2. Entry(u)' = Entry(u)
    BY <1>1, <1>2, <1>4, <1>7, <2>1 DEF Entry
  <2>3. QED
    BY <1>2, <1>3, <2>1, <2>2 DEF EntriesAreSlots
<1>8. AsTable = [j \in Known |-> AsTable[j]] /\ AsTable' = [j \in Known' |-> AsTable'[j]]
  BY DEF AsTable
<1>9. AsTable' = [AsTable EXCEPT ![i].ttl = AliveTtl]
  <2>1. [AsTable EXCEPT ![i].ttl = AliveTtl]
          = [j \in Known |-> IF j = i THEN [AsTable[i] EXCEPT !.ttl = AliveTtl] ELSE AsTable[j]]
    BY <1>8
  <2>2. QED
    BY <1>2, <1>5, <1>6, <1>7, <1>8, <2>1
<1>10. Table!Known = Known
  BY DEF Table!Known
<1>11. QED
  BY <1>9, <1>10 DEF Table!Refresh, AsTable

\* A second that passes is one for every entry: those with no time left go.
LEMMA SecondIsSecond ==
  ASSUME Base, Base', FileInv, dec_all_devs_ttl
  PROVE  Table!Second
<1> USE DEF Base
<1>1. EntriesAreSlots /\ EntriesAreSlots'
  BY TableEntries, TableEntriesNext
<1>2. /\ \A s \in Occupied : dev_ttl'[s] = set_ttl(dev_ttl[s] - 1)
      /\ dev_val' = dev_val
      /\ \A s \in Slot : dev_id'[s] = IF s \in Expiring THEN NoDevice ELSE dev_id[s]
  BY DEF dec_all_devs_ttl, Occupied
<1>3. \A s \in Occupied : dev_ttl[s] \in Nat
  BY DEF SlotInv, SlotTypes, Occupied
<1>4. \A s \in Occupied : s \in Expiring <=> ~(dev_ttl[s] > 1)
  BY <1>3 DEF Expiring, set_ttl
<1>5. Occupied' = {s \in Occupied : dev_ttl[s] > 1}
  BY <1>2, <1>4 DEF Occupied, Expiring
<1>6. \A s \in Occupied' : Entry(s)' = [Entry(s) EXCEPT !.ttl = @ - 1]
  BY <1>2, <1>3, <1>5 DEF Entry, set_ttl
<1>7. \A s \in Occupied' : s \in Occupied /\ dev_id'[s] = dev_id[s]
  <2>1. ASSUME NEW s \in Occupied' PROVE s \in Occupied /\ dev_id'[s] = dev_id[s]
    <3>1. s \in Occupied /\ s \notin Expiring
      BY <1>4, <1>5
    <3>2. s \in Slot
      BY <3>1 DEF Occupied
    <3>3. QED
      BY <1>2, <3>1, <3>2
  <2>2. QED
    BY <2>1
<1>8. \A s \in Occupied : AsTable[dev_id[s]].ttl = dev_ttl[s]
  <2>1. \A s : Entry(s).ttl = dev_ttl[s]
    BY DEF Entry
  <2>2. QED
    BY <1>1, <2>1 DEF EntriesAreSlots
<1>9. Known' = {j \in Known : AsTable[j].ttl > 1}
  <2>1. ASSUME NEW j \in Known' PROVE j \in Known /\ AsTable[j].ttl > 1
    <3>1. PICK s \in Occupied' : dev_id'[s] = j
      BY DEF Known
    <3>2. QED
      BY <1>5, <1>7, <1>8, <3>1 DEF Known
  <2>2. ASSUME NEW j \in Known, AsTable[j].ttl > 1 PROVE j \in Known'
    <3>1. PICK s \in Occupied : dev_id[s] = j
      BY DEF Known
    <3>2. s \in Occupied'
      BY <1>5, <1>8, <2>2, <3>1
    <3>3. QED
      BY <1>7, <3>1, <3>2 DEF Known
  <2>3. QED
    BY <2>1, <2>2
<1>10. ASSUME NEW j \in Known'
       PROVE  AsTable'[j] = [AsTable[j] EXCEPT !.ttl = @ - 1]
  <2>1. PICK s \in Occupied' : dev_id'[s] = j
    BY DEF Known
  <2>2. QED
    BY <1>1, <1>6, <1>7, <2>1 DEF EntriesAreSlots
<1>11. AsTable' = [j \in Known' |-> AsTable'[j]]
  BY DEF AsTable
<1>12. Table!Known = Known
  BY DEF Table!Known
<1>13. AsTable' = [j \in {k \in Table!Known : AsTable[k].ttl > 1} |-> [AsTable[j] EXCEPT !.ttl = @ - 1]]
  BY <1>9, <1>10, <1>11, <1>12
<1>14. QED
  BY <1>13 DEF Table!Second, AsTable

\* Moving a device to another slot is no step of the table.
LEMMA ReorderIsNoStep ==
  ASSUME Base, Base', ReorderMove
  PROVE  AsTable' = AsTable
<1> USE DEF Base
<1>1. CASE Gaps = {}
  BY <1>1 DEF ReorderMove, AsTable, Known, Occupied, find_device, First
<1>2. CASE Gaps # {}
  <2>1. PICK g \in Slot \ Occupied : g = First(Gaps)
    <3>1. Gaps \in SUBSET Slot
      BY DEF Gaps
    <3>2. QED
      BY <1>2, <3>1, FirstExists DEF Gaps
  <2>2. PICK l \in Occupied : l = Last(Occupied)
    <3>1. cur_size # 0
      BY <1>2, SizeAssumption DEF Gaps, Slot
    <3>2. Occupied # {}
      BY <3>1, FS_EmptySet DEF SlotInv, CountMatches
    <3>3. QED
      BY <3>2, OccupiedFinite, LastExists
  <2>3. /\ dev_id' = [dev_id EXCEPT ![g] = dev_id[l], ![l] = NoDevice]
        /\ dev_val' = [dev_val EXCEPT ![g] = dev_val[l]]
        /\ dev_ttl' = [dev_ttl EXCEPT ![g] = dev_ttl[l]]
    BY <1>2, <2>1, <2>2 DEF ReorderMove
  <2>4. g \in Slot /\ l \in Slot /\ g # l /\ dev_id[l] # NoDevice
    BY <2>1, <2>2 DEF Occupied
  <2>5. /\ dev_id'[g] = dev_id[l] /\ dev_id'[l] = NoDevice
        /\ dev_val'[g] = dev_val[l] /\ dev_ttl'[g] = dev_ttl[l]
        /\ \A s \in Slot \ {g, l} : dev_id'[s] = dev_id[s] /\ dev_val'[s] = dev_val[s] /\ dev_ttl'[s] = dev_ttl[s]
    BY <2>3, <2>4 DEF SlotInv, SlotTypes
  <2>6. Occupied' = (Occupied \ {l}) \cup {g}
    BY <2>4, <2>5 DEF Occupied
  <2>7. Known' = Known
    <3>1. ASSUME NEW s \in Occupied' PROVE dev_id'[s] \in Known
      BY <2>2, <2>5, <2>6, <3>1 DEF Known, Occupied
    <3>2. ASSUME NEW s \in Occupied PROVE dev_id[s] \in Known'
      <4>1. s # l => dev_id'[s] = dev_id[s] /\ s \in Occupied'
        BY <2>1, <2>5, <2>6 DEF Occupied
      <4>2. s = l => dev_id'[g] = dev_id[s] /\ g \in Occupied'
        BY <2>5, <2>6
      <4>3. QED
        BY <4>1, <4>2 DEF Known
    <3>3. QED
      BY <3>1, <3>2 DEF Known
  <2>8. ASSUME NEW i \in Known
        PROVE  \E s \in Occupied' : dev_id'[s] = i /\ Entry(s)' = AsTable[i]
    <3>1. PICK u \in Occupied : dev_id[u] = i
      BY DEF Known
    <3>2. AsTable[i] = Entry(u)
      BY <3>1, TableEntries DEF EntriesAreSlots
    <3>3. u # l => u \in Occupied' /\ dev_id'[u] = i /\ Entry(u)' = Entry(u)
      BY <2>1, <2>5, <2>6, <3>1 DEF Entry, Occupied
    <3>4. u = l => g \in Occupied' /\ dev_id'[g] = i /\ Entry(g)' = Entry(u)
      BY <2>5, <2>6, <3>1 DEF Entry
    <3>5. QED
      BY <3>2, <3>3, <3>4
  <2>9. QED
    BY <2>7, <2>8, SameTable
<1>3. QED
  BY <1>1, <1>2

LEMMA TableStep ==
  ASSUME Base, Base', FileInv, [Next]_vars
  PROVE  Table!Next \/ AsTable' = AsTable
<1> USE DEF Base, RestTypes
<1>1. UNCHANGED slots => AsTable' = AsTable
  BY DEF slots, AsTable, Known, Occupied, find_device, First
<1>2. ASSUME NEW i \in Device, NEW v \in Value, Report(i, v)
      PROVE  Table!Next \/ AsTable' = AsTable
  <2>1. set_ttl(AliveTtl) \in 0 .. AliveTtl /\ set_dev(i, v, AliveTtl)
    BY <1>2, SizeAssumption DEF set_ttl, Report
  <2>2. QED
    BY <2>1, StoreIsStep
<1>3. ASSUME NEW i \in Device, Alive(i)
      PROVE  Table!Next \/ AsTable' = AsTable
  <2>1. CASE i \in Known
    <3>1. Table!Refresh(i, AliveTtl)
      BY <1>3, <2>1, AliveIsRefresh
    <3>2. AliveTtl \in 0 .. AliveTtl
      BY SizeAssumption
    <3>3. QED
      BY <3>1, <3>2 DEF Table!Next
  <2>2. CASE i \notin Known
    BY <1>1, <1>3, <2>2 DEF Alive, slots
  <2>3. QED
    BY <2>1, <2>2
<1>4. CASE Second
  BY <1>4, SecondIsSecond DEF Second, Table!Next
<1>5. CASE ReorderMove
  BY <1>5, ReorderIsNoStep
<1>6. CASE PowerOff
  <2>1. Known' = {}
    BY <1>6 DEF PowerOff, Cleared, Known, Occupied
  <2>2. AsTable' = [i \in {} |-> 0]
    BY <2>1 DEF AsTable
  <2>3. QED
    BY <2>2 DEF Table!Next, Table!Forget, AsTable
<1>7. CASE RestoreLine
  <2>1. CASE count < Len(file)
    <3>1. count + 1 \in DOMAIN file
      BY <2>1, LenProperties
    <3>2. file[count + 1] \in Line
      BY <3>1, LenProperties, ElementOfSeq
    <3>3. PICK l \in Line : l = file[count + 1]
      BY <3>2
    <3>4. l.id \in Device /\ l.value \in Value /\ l.ttl \in 0 .. AliveTtl /\ l.ttl \in Nat
      BY <3>1, <3>3 DEF Line, FileInv, LinesLive
    <3>5. set_dev(l.id, l.value, CastTtl(l.ttl))
      BY <1>7, <2>1, <3>3 DEF RestoreLine
    <3>6. set_ttl(CastTtl(l.ttl)) \in 0 .. AliveTtl
      <4>1. set_ttl(CastTtl(l.ttl)) \in 0 .. l.ttl
        BY <3>4, CastNoLarger
      <4>2. QED
        BY <3>4, <4>1, SizeAssumption
    <3>7. QED
      BY <3>4, <3>5, <3>6, StoreIsStep
  <2>2. CASE ~(count < Len(file))
    BY <1>1, <1>7, <2>2 DEF RestoreLine
  <2>3. QED
    BY <2>1, <2>2
<1>8. CASE UNCHANGED vars
  BY <1>1, <1>8 DEF vars, slots
<1>9. QED
  BY <1>1, <1>2, <1>3, <1>4, <1>5, <1>6, <1>7, <1>8
     DEF Next, SaveOpen, SaveFails, SaveSlot, AnswerStart, AnswerNext, PowerOn

\* The slots implement the table of DeviceTable (SlotsAreTable): whatever slot
\* a device is in, however often it is moved, and whatever a cast makes of its
\* time to live, each step is one on the device's own entry, one second for all, the loss of
\* all, or none.
THEOREM SlotsImplementTable == Spec => SlotsAreTable
<1>1. Init => Table!Init
  <2>1. Init => Known = {}
    BY DEF Init, Known, Occupied
  <2>2. Known = {} => AsTable = [i \in {} |-> 0]
    BY DEF AsTable
  <2>3. QED
    BY <2>1, <2>2 DEF Table!Init, AsTable
<1>2. Base /\ Base' /\ FileInv /\ [Next]_vars => [Table!Next]_AsTable
  BY TableStep
<1>3. Spec => [](Base /\ FileInv)
  BY AllInvariant, PTL
<1>4. QED
  BY <1>1, <1>2, <1>3, PTL DEF Spec, SlotsAreTable, Table!Spec, AsTable
=============================================================================
