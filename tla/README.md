# Verification of the HA-project firmware

TLA+ modules, TLC configurations and TLAPS proofs for the two applications of
the repository: `apps/ha_cc` (the control centre) and `apps/ha_host` (a device
node), with the libraries they share (`libs/misc/cir_queue`, `libs/HA-libs`).
Paths below are relative to `src/`.

## 1. The system

A control centre talks to hosts by radio (6LoWPAN) and to a phone by Bluetooth
LE. Hosts carry up to eight end points, each an input (button, switch, sensor)
or an output (lamp, bulb, RGB). Hosts report inputs, outputs obey `SET_DEV_VAL`
frames and report back, and both send `ALIVE` frames. The control centre keeps
the list of devices, runs the rules of a scene on reports and on the time,
and lets the phone read the list and upload scenes.

Both run RIOT threads without locks on one core. Every pair of threads
exchanges frames ("GFF": length, command, data) through a ring of bytes and
one RIOT message per frame. `msg_send(.., false)` never waits: a message to a
full queue is dropped, and nobody looks at the result.

| component | state | operations | interacts with |
|---|---|---|---|
| byte queue `cir_queue` | array, head, tail, preview position, overflow indicator | add a byte or buffer, get, preview | every pair of threads |
| frame channels | a ring and the reader's message queue | add frame and send message; preview, test, get frame | all threads |
| controller: device manager | slots (id, value, time to live), count, file | report, alive, second, save, restore, answer "all devices" | channels, RTC interrupt, FAT file |
| controller: scene store | scene files, active file, scene buffer, upload state and its two timers | new scene, number of rules, rule, set active, remove, rename, read, timeouts | phone, TIM6, RTC, files |
| controller: scene rules | rules of two scenes, device values | evaluate on a report, on a full minute | device manager, hosts, clock |
| BLE thread | USART buffer, counters of the assembly, ACK timer and flag, packet index | write a frame and wait for its ACK, collect a frame from writes of the phone, (dis)connect | phone, controller, TIM6 and USART interrupts |
| host: end points | per thread a device instance, its status, its message queue | run, stop, value, set, alive | driver interrupts, receiver, shell, sender |
| host: device list | a text file | run_endpoint and the commands around it | end points |
| 6LoWPAN sender and receiver | radio address and channel, configuration in force, socket, message queues | send a frame, receive a frame, restart | channels, shell |
| 6LoWPAN shell command | a configuration file, its buffer | set options, ask for a restart or a frame | sender, FAT volume |
| drivers of devices | tables of instances that a 1 ms interrupt walks | attach, detach, sample, debounce, blink | end points |
| FAT volume `ff.c` | card, sector window, last cluster, open files, table of open files, call under way | open, write, sync, close, unlink, rename, make a folder, mount | scene store, device list, configuration, zones |
| zones | a file per zone | set and get its name | controller, FAT volume |
| shell, start-up, radio driver, LEDs, conversions | | sequential I/O | |

`PROJECT.json` lists each with its sources and status, and every hazard at its
line. What is hard here:

* *interleaving*: a ring shared by two threads of different priority, each
  statement of which can be preempted; interrupts that change what a thread is
  about to sleep on, or its table of instances;
* *ordering*: messages a thread sends to itself, behind what is already queued;
  reports evaluated before they are saved; timers of an earlier upload;
* *limits*: message queues of 16 to 128 entries and rings of 500 to 1280 bytes that lose everything
  when they overrun;
* *power loss* inside files that are rewritten line by line, and, one level down, between
  the sectors that one call of the file system changes;
* *time*: times to live, upload timeouts, ACK timeouts, the full minute.

What makes each correct:

* byte queue: bytes come out once and in order; what a reader counted is there;
* channel: frames come out whole, once, in order, and each has a message;
* device manager: the count is the number of devices, no device twice, the
  answer and the file are complete, silent devices go, restarts keep the list;
* scene store: the active scene runs unless an upload is on; every upload ends;
  a scene reported as saved is in its file as the phone sent it;
* scene rules: a rule fires whenever its conditions come to hold and only then;
* BLE: the thread never sleeps without a timer; frames arrive whole, in order;
* end point: it settles on the device it was last run for and reports the truth;
* sender and receiver: radio and node id belong to one configuration; a restart that
  was asked for takes hold; neither thread waits for the other;
* FAT volume: no two files share a cluster and no chain runs into free ones, whenever
  the power goes; what was synced stays; only a power failure loses clusters.

## 2. Modules

| module | models | abstract specification, refinement |
|---|---|---|
| `Ring`, `CirQueue` | `libs/misc/cir_queue.cpp`, one step per byte | `ByteFifo`: bounded FIFO whose overrun discards everything queued |
| `GffChannel` | one writer and one reader of a ring, one step per *statement* | `FrameFifo`: FIFO of whole frames, until it breaks |
| `DeviceMng` | `ha_device_mng.cpp` and its calls in `controller.cpp` | `DeviceTable`: a function from devices to value and time to live |
| `NewScene` | scene buffer, files and upload: `controller.cpp`, `scene_mng.cpp`, `scene.cpp` | |
| `SceneRules` | `scene::process`, `slp_gff_handler`, `process_scene_with_1sec` | |
| `BleLink` | `bluetooth_le.cpp`, `ble_resp.cpp`, `ble_transaction.cpp` | |
| `EndPoint` | `ha_device_handler.cpp`, outputs and inputs of its drivers, `run_endpoint` | |
| `SlpNode` | `ha_sixlowpan.cpp`, `slp_sender.cpp`, `slp_receiver.cpp`, `shell_cmds_sixlowpan.cpp` | |
| `FatVolume` | `FATFileSystem/src/ff.c`, one step per sector that changes | |

`MC<module>.tla` and the `.cfg` files instantiate them for TLC;
`<module>_proofs.tla` hold the theorems. `PROJECT.json` `"map"` gives for every
definition the lines it translates. Operators commented "A fault: ..." are
plausible bugs of the definition after them; they are used by nothing.

**Ring, CirQueue.** `Ring` has the array, its two positions and `get_size`, shared
with `GffChannel`. The byte primitives are one step; `add_data(buf, n)` and
`get_data(buf, n)` are loops of them (`adding`, `getting`), so a writer and a
reader interleave between bytes. `get_data(buf, n)` reads the size once
(`GetStart`), which is what `CountedBytesStay` is about. `head = tail` means
full after an add and empty after a get; `tail = -1` tells them apart. An add
to a full ring is a legal step of `ByteFifo`, and named: `Overrun`. The
overflow indicator is modelled as it is: it is raised when the ring gets
*exactly full* (`cir_queue.cpp:51`), not when bytes are lost.

**GffChannel** goes one level down: the tests and assignments of the primitives
are steps of their own, since a thread of higher priority preempts the other
between any two. `reader_first`, fixed by Init and never changed, says which
thread that is: controller against radio and phone (writer first), sender and
BLE thread against the controller (reader first). `MayWrite` and `MayRead` are the
rule of the scheduler: the lower one runs only while the higher waits for a
message or sleeps. Two accidents are part of the code: a byte is added to a
full ring (`overrun`), or the mark "empty" meets an added byte (`raced`).
Until one happens the channel is `FrameFifo`. Lost messages are not such an
accident: the frame stays in the ring, and from then on everything comes one
message late (`LagIsDropped`).

**DeviceMng.** The loops that compact, answer, save and restore take one step
per turn; everything else a handler does is one step, because only the
controller thread touches the list. `file` is changed line by line, with
`PowerOff` possible between lines. Devices are found by the lowest slot, empty
slots and moves as in the code (`find_an_empty_slot`, `reorder`). Left out:
`remove_device` and `chag_dev_ttl` (no callers) and the read-only printing.

**NewScene.** One buffer serves the running scene, the scene of an upload, and
every scene the phone asks about. Each request and timer of `controller.cpp` is one
action with all the loads and saves it makes; a save is split where power can
be lost (`PowerOffInSave`), and so is `set_active_scene`, which empties its file before
it writes the name (`PowerOffInSetActive`). `active = NoName` is the empty file:
`get_active_scene` then reads an uninitialised line, so any scene or none is loaded. The
phone may announce up to `MaxSent` rules, more than a list holds (`MaxRules`, 25) and
more than the byte that counts them does (`Wide`, 256): the loops over the announced rules
then read what is behind the list, which may be anything, or never end (`hung`; nothing but
a restart ends it). The timer of the rules (1 ms interrupt) and the
timer of the upload (1 s) advance by turns, as both count seconds here
(`due`). `Polite` is an assumption about the phone: it makes no other request
between the beginning and the end of an upload, announces as many rules as it sends, uploads
nothing over the active scene, and nothing at all while there is none. File-system errors, the
default scene and lists of inactive names are left out.

**SceneRules.** All kinds of conditions, triggers, the order of evaluation and
the commands, together with inputs that report, outputs that report back, the
clock, and message queue. Rules are evaluated *before* the report is saved, so
the device that reports is compared with its new value and the others with
their saved ones. The clock is read when the message of a second is handled.
Times are packed in units of two seconds as in `scene.h`; a minute and a day
are constants. On the first report of a device the code compares with an
uninitialised `old_value` (`controller.cpp:278`): any value. The device list
is assumed to have room (its limits are in `DeviceMng`) and frames to come with
their messages (`GffChannel`).

**BleLink.** The thread with the statements between writing a frame and
`thread_sleep()` as steps of their own; the interrupts fall between any two.
Bytes are counted in units of three (the size of the header, and of length and
command). Not modelled: the BGLib packets on the USART, the configuration
commands after a reset, and `send_ack_to_mobile`, which nothing calls.
The phone acknowledges and writes at any time, also before the thread sleeps, also between
two parts of its own frame. `overtaken` remembers that the timer was stopped, or ran out,
between its arming and `thread_sleep()`; `careless`, that the phone broke off a frame,
began one before the one before it was fetched, or put something else between its parts.

**EndPoint.** One thread that changes between devices, with its interrupts,
receiver and shell. A handler that receives `NEW_DEVICE` sends it to itself and
returns to the outer loop, which throws away everything else it finds; the message is then
behind what is queued. The shell has a lower priority than the end points, so
it acts only while the thread is blocked. Left out: dimmers, event sensors,
servo and RGB (the same loops), parsing of configuration files, a power loss
while the list is rewritten.

**SlpNode.** A restart reads the file, sets the radio address, waits for the
transceiver ("tune") and only then sets channel, node id and the other globals: three
places where the shell, which has a lower priority, may come in between.
`in_force` stands for the globals, which are set together. The sender forwards
every restart to the receiver, which takes the first and then never returns to
its messages, so that the later ones fill its queue. The shell command is taken apart at its
file calls; options are processed as in the loop of `sixlowpan_config`,
including what ends the loop. An empty file leaves its buffer uninitialised (`Leftover`).
When reading fails, the command returns without closing the file (`ReadFails`), which then
stays locked, for the command too. The transceiver keeps its channel when it is told one
that is not in `Accepted` (`TuneTo`): nobody reads its reply.
`trouble` remembers that a restart has failed although the file was right (stack
or socket refused, file locked): nothing is claimed about it then. Left out: the bytes of
frames, which datagrams the filter of the receiver drops,
RPL and the routing that follows a restart.

**FatVolume.** `vol` is the volume as the program sees it, `card` what is on the
card. They differ by the window: one sector that is written back when another one takes its
place (`_FS_TINY`), so that `card' = vol` when the window moves. A call is a
sequence of such sector changes in the order of the code; a mutex
(`_FS_REENTRANT`) keeps calls apart, and power may go between any two. `promise`
remembers what a completed `f_sync`, `f_close`, `f_rename` or `f_mkdir` has
promised; `SyncedSurvives` compares it with the card. One directory
of a fixed number of entries, clusters of one sector, files written from the
start or read: that is what the applications do. `Torn` is the one window the code itself calls
critical (`ff.c:3704`), when a rename has both names on the card. Power lost there leaves
two names for one chain, whose start is then in `shared`; `hurt` is set when one
of the two is overwritten or removed, which frees or fills clusters of the other. Up
to that the card is sound apart from the pair of names; from there on nothing is claimed.

How they fit: `GffChannel` is what `SceneRules`, `BleLink`, `EndPoint` and
`DeviceMng` assume of the frames between threads, and `CirQueue` is the ring
that `GffChannel` takes apart. `SceneRules` sees the device manager as
`DeviceTable` describes it, without its limits. `FatVolume` is what the file
steps of `DeviceMng`, `NewScene` and `SlpNode` rest on: a file that is emptied
and rewritten is there in part until it is synced (their `PowerOff` steps), and
whole afterwards (`SyncedSurvives`); three objects may be open at a time (`_FS_LOCK`), which is
one reason why opening may fail in `SlpNode`.

## 3. Runs

Times are with two workers.

| run | states | bounds | result |
|---|---|---|---|
| `cir_queue` | 218,736 | array of 3, two byte values, buffers to 4 bytes | pass |
| `channel` | 880,000 | ring of 7, frames of 2 and 3 bytes, 1 message slot, both priority orders | pass |
| `channel_race` | | the same | `AddedStays` violated |
| `device_list` | 1,160,000 | 4 devices in 3 slots, 3 s to live, saved every second | pass |
| `device_table` | 241,000 | 3 devices in 2 slots, 4 s to live, cast to a type of 3 values | pass |
| `scene_state` | 796,000 | 2 names, a list of 1 rule, to 3 announced, bytes of 3 values, any phone | pass |
| `scene_polite` | 561,000 | 3 names, 2 versions, to 3 rules, 3 s, polite phone | pass |
| `ble_link` | 442,000 | 2 frames each way, 2 connections, 3 messages | pass |
| `end_point` | 337,000 | button, sensor, lamp, bulb; 2 messages in the queue | pass |
| `scene_rules` | 304,000 | 2 inputs, a lamp, 3 lists of 3 rules, 2 reports, 3 s, minute of 2 s | pass |
| `slp_node` | 351,000 | 4 node ids, 3 channels, one of them refused, 5 commands, queues of 2 and 1 | pass |
| `fat_volume` | 1,746,000 | 2 threads, 2 files, 1 folder, 3 clusters, 3 entries, 2 per sector; not beyond `hurt` | pass |

What they show, and why the bounds are enough:

* `cir_queue`: an array of 3 has all four relations of head and tail (apart,
  wrapped, equal and full, equal and empty); buffers longer than the array overrun it.
  `RingIsFifo` is a refinement, so every step of every interleaving counts.
* `channel`: in a ring of 7 frames of 2 and 3 bytes wrap at every offset and
  two or three fit; a single message slot makes refusals frequent.
  `NoFrameAfterBroken` is a constraint that stops writers once an accident has
  happened, as nothing is claimed from there on.
* `device_list`: more devices than slots, saves each second, power failures
  at each line. The values do not matter to it (one value, symmetry).
  `AnswerListsAll` leaves a list of exactly one device out, on purpose; see 6.
* `device_table`: the refinement of `DeviceTable`, liveness, and what a restart
  makes of the file. A type of 3 values holds -1, 0 and 1, so of the times to live 1 comes
  back as it is, 2 and 3 as 0 and 4 as 1: each of the cases of 300 in an `int8_t`.
  `RestoredFromFile` says that none gets longer and that what fits stays; a control
  centre that drops live devices early is what the code does (section 6). A file never
  holds more than two lines here, and devices compete for slots.
* `scene_state`: what must hold with *any* phone, with 1, 2 and 3 rules announced for a list
  of 1: too many for the list, and too many for the byte. Power goes between any two
  requests, in a save, and in `set_active_scene`. `RunningIsActive` says nothing while the active
  scene file is empty, and `UploadEnds` excepts a controller that hangs. `scene_polite`: what holds
  with a phone that waits. `scene_polite` keeps the code's proportion of upload
  time to rules (25 s, 25 rules), which gives `LargestNeverSaved`.
* `ble_link`: a frame shorter and one longer than a write of the phone; broken-off
  frames, reconnections, refused messages, a USART queue that gets full, ACKs that are late,
  missing, repeated or too early. That an ACK between arming and sleeping lets the thread sleep on is in the
  run; `SleepIsTimed` and `ThreadGetsIdle` show that nothing else does.
* `end_point`: a queue of 2 is full at once, so losses of every kind of message
  happen; blinking commands 101 and 110 leave different tables.
* `scene_rules`: the lists have each kind of condition, a rule of two inputs, an
  inactive rule, and a pair of rules that would answer each other for ever.
  Values start as any the file may hold; with those, two reports complete
  every edge, and 3 s reach past a full minute. The system stops when the clock does
  (`CHECK_DEADLOCK FALSE`, as in `BleLink`, whose frames are bounded).

* `slp_node`: node ids 0, 1, 257 and 65536 have equal low bytes or equal low words
  (the radio takes one byte, the filter two, the shell four). A
  queue of 1 is full after the first restart, which is what the receiver's
  never returning needs. Channel 99 is one that the transceiver refuses.
* `fat_volume`: three clusters are a file of two and another one, or a folder;
  with two links and two entries to a sector each chain and each search crosses sectors, and a rename stays in
  its sector or leaves it. One version per save is enough, as the
  place in the file is part of what a cluster holds. Threads are symmetric, and files.
  Power may go between any two changes of a sector, inside a rename too; calls go on after
  it with two names for one chain, until one of them is overwritten or removed (`NotHurt`, a
  constraint). `FS_LOCK` is 3 as in the code, and two threads with a file each do not fill
  the table: that it is never exceeded says only the theorem, for tables of any size.

Every property is violated by a fault in a definition that it depends on:
the `"mutants"` in `PROJECT.json`.

**Violation** (the code does not do what it says): `channel_race`
(`cir_queue.cpp:105`). `get_data()` tests `tail == head` and then stores `tail = -1`.
A frame that a writer of higher priority adds between the two is gone, although the ring
had room. The mirror image in `add_data` loses a byte of the frame, and all
frames after it are read from the wrong byte on.

## 4. Fairness

* `DeviceMng`: strong fairness of `Second`. Its message waits in a first-in
  first-out queue while the thread is in one of its other loops, and is handled
  between them. Weak fairness of each loop, and of the return of power.
* `NewScene`: the clocks are interrupts, the controller serves its messages,
  power returns. The phone owes nothing.
* `BleLink`: the thread of highest but one priority and the timer interrupt. ACKs,
  connections and frames may never come.
* `EndPoint`: the thread. A WF suffices: once it can run it stays so, since
  interrupts and messages only add to its queue.
* `SlpNode`: sender and receiver, threads of high priority that are runnable whenever
  they have a message or a datagram; the transceiver answers and the pause of 10 ms ends. The shell,
  other nodes and the threads that post frames owe nothing, and may keep posting.
* `FatVolume` claims safety only.
* `SceneRules`: the controller, which is never blocked for good, and the delivery of
  commands (or their loss). The clock and the inputs owe nothing.

## 5. Proofs

Types are proved, and checked in a run only where the run is small. All theorems hold for every value of the constants under the named assumptions
of the modules (sizes positive, sets disjoint). None relies on TLC.

* `Ring_proofs`, `CirQueue`: `TypeCorrect`; `CountedBytesAreThere`; and
  `RingImplementsFifo`, the refinement of `ByteFifo` for every size of the
  array. The argument is about positions: the successor of a position is one, an add
  to a ring that is not full makes `SizeOf` one larger and puts the byte last,
  a take makes it one smaller (`SizeAfterAdd`, `SizeAfterTake`).
  `CountedBytesStay` becomes inductive together with the types: only a take,
  which also counts down, or an overrun makes the size smaller.
* `Ring_proofs`, `GffChannel`: `ChannelHoldsFrames`, `LagIsWhatWasDropped`, and
  `ChannelImplementsFifo`, the refinement of `FrameFifo`, for every array size, set of frames,
  header, message queue and either order of priority. `ChannelInv` says, as long
  as nothing is broken: what was added (the frames pending and the part of one being
  added) is what is taken followed by what is held (`SameBytes`); tail is at the oldest held byte
  (`TailInv`); the byte being added is in the array already, at a place no held one has
  (`AddInv`); the reader knows the size of the oldest frame, and what it has and has still to
  take come to that (`TakeInv`); and the messages count the frames
  (`FrameCount`). So the reader never goes back to wait for the rest of a frame and never reads an
  empty ring (`NeverRefused`, `NeverTakesNothing`). The flattened sequences are
  handled by `FlattenAppend` and `FlattenHead`.
* `DeviceMng_proofs`: `TypeCorrect`, `CountIsRight`, `DevicesAreDistinct`. The
  invariant has, beyond the types, that cur_size is the cardinality of the
  occupied slots and that slots hold distinct devices. Each is needed for the
  other: a slot for a new device exists because the count is right, and a device
  is listed once because the search looks at all occupied slots. In a
  restore, the file's lines are distinct as well.
  On top of it `SlotsImplementTable` is the refinement of `DeviceTable`; `AnswerIsComplete` and
  `SaveIsComplete` follow the two loops over the slots: what is written so far is what
  the occupied slots below the index hold, in their order.
  `RestoreIsFaithful` follows the file from the save to the restore after it, for any time
  to live and any type it is cast to: what the cast makes of a positive number is never more
  than it (`ModNoLarger`), and the same if it fits.
* `NewScene_proofs`: `TypeCorrect` (no rule is written outside of the list, however many the
  phone announces), `UploadIsTimed` (an upload always has a
  timeout ahead of it), `ActiveRuns` (outside uploads the active scene is in the
  buffer as it is in its file, if there is an active one) and `ActiveFileAlwaysStays`, for any phone
  and power lost between requests, in a save or in `set_active_scene`. The invariant is
  `TypeOK /\ UploadHasTimeout /\ RunningIsActive`; the first says the loads yield lists
  of rules, the last is what each way out of an upload restores. The promises to
  the phone are proved for one that keeps to the protocol (`Polite`): `UploadIsNotRun`
  (a half loaded scene is never evaluated), `SavedIsAsSent`, for any number
  of resends of at least one, and `LargestIsNeverSaved`, for an upload whose timeout
  is not longer than a scene has rules.
* `BleLink_proofs`: `SleeperIsTimed`. `TimedInv` adds that from
  arming on the timer runs unless it was overtaken, and that a sleeper is known to need an ACK:
  otherwise an ACK would stop the timer and not wake it. `FramesComeWhole`
  and `FramesAllCome` are about the bytes. `CarefulInv` says what stage the frame of the
  phone is at: nothing of it in the queue, its first `k` bytes just written, or held
  whole; and that frames given on were held whole. The second theorem
  assumes that every frame fits the buffer (`Limit`, 30 bytes) and the queue of the
  USART (255 bytes), as the frames of the protocol do; a longer one is truncated.
* `SceneRules_proofs`: `EdgesAreServed`: no edge of a rule over inputs is missed, for
  any rules, devices and values, and any queue, which may refuse messages.
  A rule that stands after a report and did not before has a condition on the
  device that reported, an input with a new value (`NewlyStanding`); then
  every condition is compared with just what is saved afterwards
  (`StandingFires`). `TimeIsServedOnce`: a range of times fires once in a
  minute, while the controller keeps up with the clock; `MinuteInv` relates the minute
  evaluated last to the clock and to the second that waits. `CommandsAreDue`: no
  command without its conditions. An evaluation sees each device with the value that is
  saved in the same step (`FiresTruly`), and times two seconds at a time, which is
  to a second (`RangeHoldsTruly`). It assumes `RangesRunForward`: a daily range does
  not end before it starts. One that ends within the two seconds it starts in does hold
  there, and `NoFalseCommand` is false of it; one over midnight never
  holds (section 6).
* `EndPoint_proofs`: `TypeCorrect`; `TableOwned`: an output in the table of the blink
  interrupt blinks, so the destructor, which looks at the blinking, takes it out;
  `SettlesAsRun`: at most one `NEW_DEVICE` is on its way, it is for the device run last
  (`OneForRan`), and where the thread is says what one or none means (`PlaceInv`);
  `OldStay`: the message sent again is behind every value of the old device
  (`NoValueBehindNew`), so that none is left once it is received (`NoOldValue`).
  `ReportsAreTrue`: what is reported of an output is what it was last set to, if commands fit
  a byte; the code does not check that they do (section 6).
* `SlpNode_proofs`: `OneConfigurationHolds`. While the sender waits for the transceiver
  it holds a setting (`TuneInv`), and the address is that one's; the shell may
  write what it likes. The channel is the setting's if the transceiver takes it, and one it
  took before otherwise.
* `FatVolume_proofs`: `CardStaysSound` and `OpenFilesAlwaysStay`, for any number of
  threads, files, clusters, entries and sectors, and power lost in a rename included. The card is either unchanged
  by a step or becomes what the volume was before it (`CardChoice`), so it is enough that the *volume* is sound
  between any two steps of a call, and that the card is (`CardKept`). A cluster is a `Root` when it is allocated and
  no link leads to it; entries, files that will be written back and the call under way
  start at roots, each at its own (`EntriesOf`, `FilesInv`, `CallInv`). `Allocating`,
  `Linking` and `Freeing` say what each change of a link does to the other roots; that
  the card is sound needs no induction over chains. The table of open files (`Locking`, `Unlocking`)
  makes an entry that a call changes nobody else's. A rename is the exception: its two
  entries share a root (`HalfPair`) until the old one is removed, on the card until it is
  synced (`Pair`); power lost in between makes the pair last (`shared`), and what the
  other calls keep is shown for such pairs too, up to the call that ends one (`hurt`).
  `SyncedAlwaysSurvives` needs in addition what the clusters hold (`DataInv`): a promise
  is kept along a chain on the card (`HoldsAlong`), and along the chain of the same entry
  on the volume unless the new entry waits in the window (`Syncing`), so that a step that
  writes the window back keeps it; a thread that writes goes on at the end of what it
  was given to write (`WritesAlong`), which no link leaves (`EndIsFree`), so that what
  it fills is in no promise. Chains that meet are one from there back to the start
  (`ChainsThatMeet`), hence a cluster that is freed or filled is in no other file's.
  At last the chain is compared with the `Trail` that the property walks (`KeptIsHeld`).
  `OnlyPowerLosesClusters`: whatever led to a cluster before a step (a link, an entry, an
  open file or the call: `Reached`), something does after it, or the cluster is free
  (`Reaching`, and one lemma per action). All of them say nothing once a
  chain with two names has been freed or filled under one of them.

Induction over a number is done without the library's theorem, which takes an operator:
a set of counterexamples has a least element.

Every invariant, action property and refinement that a passing run checks is thus
proved. Only model-checked is what needs fairness, which is out of the prover's
reach: `SilentIsForgotten`, `UploadEnds`, `ThreadGetsIdle`, `RunIsServed`, `CommandsEnd`,
`RestartTakesHold` and `SenderReturns`. Proved under a condition that the model does not
have everywhere: `CommandsAreDue` (ranges run forward) and three promises to a `Polite` phone;
`LargestIsNeverSaved` and `SavedIsAsSent` (numbers), `ReportsAreTrue`, `FramesComeWhole`
and `FramesAllCome` (sizes). Other properties name in their statement the accident after which they say less:
`overrun` and `raced` (`GffChannel`), `overtaken`, `careless` and `refused` (`BleLink`), `torn` and `trouble`
(`SlpNode`), `lost`, `missed`, `squeezed` and `stale` (`EndPoint`), `hurt` (`FatVolume`). Each accident happens in the run.

## 6. Met on the way, not in a run

* `ha_device_mng.cpp:304`: a time to live is read back through `int8_t`: 129..255
  become 0 and 256..300 become 0..44, so a restarted control centre drops live devices
  early. `RestoredFromFile` says what is left to hold.
* `ha_device_mng.cpp:181`: `reorder()` returns early for fewer than two devices, so
  a single device stays in whichever slot it is, while the answer sends slot 0.
* `ble_resp.cpp:115`: the ACK of an earlier frame ends the wait for the present one.
* `ble_resp.cpp:133`: with two frames of the phone queued, the header is taken off the
  first one for the second.
* `controller.cpp:624`: while an upload borrows the buffer, the active scene can be
  removed or renamed (`ActiveFileStays` excepts uploads).
* `controller.cpp:755`: the number of rules announced is not looked at. With more than 25 the
  loops of `scene.cpp:126` and of the save read behind the list; the byte that counts in the
  first never gets to 256, so that the controller hangs.
* `scene_mng.cpp:206`: when the active scene file is empty (power lost in `set_active_scene` between
  lines 177 and 187), the name is taken from an uninitialised line: any scene may run.
* `controller.cpp:278`: the first report of a device may go unevaluated, or fire rules
  that compare with its old value only by the check in `scene::process`.
* `controller.cpp:1070`: a controller that lags by a second misses the full minute or
  evaluates it twice (`OncePerMinute` excludes that).
* `scene.cpp:370`: a daily range over midnight never holds.
* `ha_device_handler.cpp:294`: blink values above 255 are cut to 8 bits for the
  feedback; 356 makes the frequency zero.
* `slp_receiver.cpp:117`: the receiver never returns to its messages after the first
  restart.
* `shell_cmds_dev_config.cpp:1346`: the device list of a host is emptied and rewritten;
  a power loss between loses all devices.

* `controller.cpp:724`: `SET_NEW_SCENE` leaves the timer of an earlier upload running; it
  finds no invalid rule among those announced so far (none), saves that and reports the scene
  as saved. TLC shows it for `NewScene` with two names, two versions,
  `MaxRules = MaxSent = 2`, `Wide = TimerRange = 3`, `Timeout = 3`, `MaxResend = 1`, `Polite = FALSE` and the invariant `SavedAsSent`.
* `bluetooth_le.cpp:262`: an ACK between arming the timer and `thread_sleep()`
  stops the timer and wakes nobody; the thread then sleeps until the phone sends another one
  or starts anew. TLC shows it in `ble_link` for `SleepIsTimed` without `~overtaken`.
* `ff.c:3704`: after a rename into another sector that
  the power interrupts, two names share a chain, and removing one frees the other's clusters
  (`CardIsSound` without `hurt`). The comment in the code warns of it.
* `ff.c:1196`: a directory that grows is linked before its new cluster is zeroed.
* `ff.c:2448`: `FA_READ | FA_OPEN_ALWAYS` locks an entry as for writing.
* `shell_cmds_sixlowpan.cpp:152`: `6lowpan -n 5 -s` restarts and discards the settings in front of `-s`,
  although the usage (line 34) lets options be combined.
* `shell_cmds_sixlowpan.cpp:117`: node id 65536 is accepted and read as 0, which the reader refuses.
* `shell_cmds_sixlowpan.cpp:88`: with an empty configuration file the command formats an
  uninitialised buffer into the new one.
* `shell_cmds_sixlowpan.cpp:93`: when the file cannot be read the command returns without closing it; it
  stays locked, and no restart succeeds until the node is reset.
* `ha_sixlowpan.cpp:191`: the transceiver's reply to a channel is not looked at; a wrong one is
  reported as set while the radio stays on the one before.
* `ha_sixlowpan.cpp:94`: `memcmp(.., sizeof(pointer))` looks at two of the four prefixes.
* `slp_receiver_gff_handler.cpp` of the host admits one end point number too many.
* `button_switch_driver.cpp:111`: a button released in the very sample in which its hold time ends
  is reported neither as held nor as pressed.
* `adc_sensor_driver.cpp:217`: for a value below the first x of the table `index` ends as `table_size`, not
  `table_size - 1`, so the lowest y is never returned and the line is taken from past the table.

## 7. Not modelled

Debouncing of buttons, sampling of dimmers and sensors and their tables, event
sensors, RGB, zones, and the read-only requests of the phone (planned, below).
Of the FAT file system: paths of several segments, directories that grow, seeking,
truncating and formatting (no callers), errors of the card and its driver. Left
out for good: start-up and shell I/O (sequential), conversions (total functions
on bits), the radio driver, BGLib and the STM32 library (registers and packets without
state of their own), the code pages of the FAT library (tables of characters: most of the
lines of the repository), sample applications. The RIOT kernel is not in the
repository: message queues, priorities and `thread_sleep` are modelled from how
the code uses them.

## 8. Plan

Done first, because everything rests on them: the ring, the channels, the device
list; then what users see: scenes, rules, the phone link and end points; then
what those rest on: the volume on the card, the radio and its configuration.

1. *Next, more of the system*: input drivers (debouncing and its hold time, the threshold
   of the dimmer, tables against attach and detach in the interrupt); a
   `GffChannel` with two writers of different priority (the host's sender queue);
   the alive cycle of host and control centre against times to live; zones.
2. *Then, more proofs*: theorems for what comes with 1, in particular the ring with two
   writers, where `ChannelHoldsFrames` shall fail; and, step by step, that the files
   `DeviceMng`, `NewScene` and `SlpNode` write are what `FatVolume` keeps.
