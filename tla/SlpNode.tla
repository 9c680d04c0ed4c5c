------------------------------ MODULE SlpNode ------------------------------
(***************************************************************************)
(* The 6LoWPAN side of a node: the sender thread, which restarts the       *)
(* network stack from a configuration file and sends frames, the receiver  *)
(* thread, and the shell command that edits the file and asks for the      *)
(* restart.  Sender and receiver have one priority and do not preempt each *)
(* other; the shell has a lower one.  Threads that have frames to send are *)
(* known by the messages they post; the ring is GffChannel's.              *)
(***************************************************************************)
EXTENDS Integers, Sequences, SequencesExt

CONSTANTS
  Setting,         \* configurations a file may hold: a record as Zero is
  Command,         \* commands of the shell: sequences of options
  Leftover,        \* settings that an uninitialised buffer of the shell may hold
  FirstFile,       \* contents of the file at the first start
  DefaultChannel,
  Accepted,        \* channels that the transceiver takes
  SenderSlots, ReceiverSlots,   \* message queues (32 each)
  MaxInbox         \* bound: datagrams in the socket

\* What is known before the file is read: node id (32 bits in the file), whether one
\* of the two low prefixes is not zero, device type, channel (below 2^16).
Zero == [id |-> 0, low |-> FALSE, type |-> "0", channel |-> 0]

Absent == [state |-> "absent"]
Empty == [state |-> "empty"]
NoSetting == [state |-> "unset"]

ASSUME SettingAssumption ==
  /\ Zero \in Setting /\ Leftover \subseteq Setting
  /\ \A c \in Setting : c = [id |-> c.id, low |-> c.low, type |-> c.type, channel |-> c.channel]
  /\ \A c \in Setting : c.id \in Nat
  /\ FirstFile \subseteq Setting \cup {Absent}
ASSUME SlotsAssumption ==
  {SenderSlots, ReceiverSlots, MaxInbox} \subseteq Nat \ {0}

VARIABLES
  file,        \* slp_conf: Absent, Empty or a setting
  locked,      \* the shell has it open, in a way that excludes other readers
  shell,       \* where the shell is; with its options, or what it will write
  smsg,        \* messages for the sender: "restart", "frame" (GFF_PENDING)
  spc,         \* the sender: "idle" (msg_receive), "tune" (waiting for the
               \* transceiver), "sleep" (10 ms after a frame)
  cfg,         \* locals of restart_sixlowpan
  hw, channel, \* of the radio
  in_force,    \* sixlowpan_node_id, _ipaddr, _netdev_type: set by this setting
  rmsgs,       \* messages for the receiver, all of them restarts
  listening,   \* the receiver is in its loop on the socket
  inbox,       \* how many datagrams the socket holds
  torn,        \* history: the last restart failed after it had set hw
  trouble      \* history: since the last request, a restart has failed
               \* although the file was right, or the receiver has

radio == <<hw, channel, in_force, torn>>
vars == <<file, locked, shell, smsg, spc, cfg, radio, rmsgs, listening, inbox, trouble>>

-----------------------------------------------------------------------------
(* Settings.                                                               *)

\* As ha_slp_readconfig converts it.
NodeId(c) == c.id % 65536
\* net_if_set_hardware_address gets the low byte, and 0 is taken for its failure.
Hw(c) == NodeId(c) % 256

NetTypes == {"h", "r", "n"}

\* ha_slp_readconfig: its test for zero prefixes has the size of a pointer, two
\* of the four prefixes.
Readable(c) == c \in Setting /\ c.low /\ NodeId(c) # 0 /\ c.type \in NetTypes

\* Options: an assignment to a field, "start", "send" or "help".  A missing argument
\* is a wrong one; unknown options are skipped and not among them.
Valid(o) ==
  /\ o.field = "id" => o.value >= 1
  /\ o.field = "type" => o.value \in NetTypes

\* sixlowpan_config, "process option": in their order, until one ends the command.
Process(c, options) ==
  LET Step(r, o) ==
        IF r.do # "write" THEN r
        ELSE IF o.field \in {"start", "send", "help"} THEN [r EXCEPT !.do = o.field]
        ELSE IF Valid(o) THEN [r EXCEPT !.cfg[o.field] = o.value]
        ELSE [r EXCEPT !.do = "reject"]
  IN  FoldLeft(Step, [do |-> "write", cfg |-> c], options)

-----------------------------------------------------------------------------
(* Messages, and who may run.                                              *)

\* msg_send(.., false): refused when the queue is full.
Post(m) == smsg' = IF Len(smsg) < SenderSlots THEN Append(smsg, m) ELSE smsg

\* A fault: the message waits for room.
ForwardWaiting == rmsgs < ReceiverSlots /\ rmsgs' = rmsgs + 1

\* The sender passes the restart on, whether or not its own has failed.
Forward == rmsgs' = IF rmsgs < ReceiverSlots THEN rmsgs + 1 ELSE rmsgs

\* All other threads run only while sender and receiver are blocked.
Blocked ==
  /\ spc = "idle" => smsg = <<>>
  /\ IF listening THEN inbox = 0 ELSE rmsgs = 0

\* End points, controller or BLE thread have put a frame into the ring.
PostFrame ==
  /\ Blocked
  /\ Post("frame")
  /\ UNCHANGED <<file, locked, shell, spc, cfg, radio, rmsgs, listening, inbox, trouble>>

-----------------------------------------------------------------------------
(* Start-up and shell.                                                     *)

AskRestart == Post("restart") /\ trouble' = FALSE

\* ha_slp_start_on_reset: unless the file is wrong or a button gets pressed.
StartOnReset ==
  /\ shell.at = "boot" /\ Blocked
  /\ shell' = [at |-> "idle"]
  /\ \/ Readable(file) /\ AskRestart
     \/ UNCHANGED <<smsg, trouble>>
  /\ UNCHANGED <<file, locked, spc, cfg, radio, rmsgs, listening, inbox>>

\* FA_READ | FA_OPEN_ALWAYS creates a missing file, and locks as for writing.
OpenConfig(options) ==
  /\ shell.at = "idle" /\ ~locked /\ Blocked
  /\ shell' = [at |-> "opened", options |-> options]
  /\ file' = IF file = Absent THEN Empty ELSE file
  /\ locked' = TRUE
  /\ UNCHANGED <<smsg, spc, cfg, radio, rmsgs, listening, inbox, trouble>>

\* Reads and closes the file; from an empty one config_str stays uninitialised.
\* Then the options are processed.
ReadConfig ==
  /\ shell.at = "opened" /\ Blocked
  /\ \E c \in IF file \in Setting THEN {file} ELSE Leftover \cup {Zero} :
       LET r == Process(c, shell.options)
       IN  /\ shell' = IF r.do = "write" THEN [at |-> "write", cfg |-> r.cfg] ELSE [at |-> "idle"]
           /\ IF r.do = "start" THEN AskRestart
              ELSE IF r.do = "send" THEN Post("frame") /\ UNCHANGED trouble
              ELSE UNCHANGED <<smsg, trouble>>
  /\ locked' = FALSE
  /\ UNCHANGED <<file, spc, cfg, radio, rmsgs, listening, inbox>>

\* f_read fails, and the command returns without f_close: no thread opens the file
\* again, this one neither.
ReadFails ==
  /\ shell.at = "opened" /\ Blocked
  /\ shell' = [at |-> "idle"]
  /\ UNCHANGED <<file, locked, smsg, spc, cfg, radio, rmsgs, listening, inbox, trouble>>

\* FA_WRITE | FA_CREATE_ALWAYS and f_sync, unless too many files are open.
EmptyConfig ==
  /\ shell.at = "write" /\ Blocked
  /\ \/ /\ file' = Empty /\ locked' = TRUE
        /\ shell' = [shell EXCEPT !.at = "emptied"]
     \/ /\ shell' = [at |-> "idle"]
        /\ UNCHANGED <<file, locked>>
  /\ UNCHANGED <<smsg, spc, cfg, radio, rmsgs, listening, inbox, trouble>>

\* f_printf, which may fail, f_sync and f_close; reading back changes nothing.
WriteConfig ==
  /\ shell.at = "emptied" /\ Blocked
  /\ file' \in {shell.cfg, file} /\ locked' = FALSE
  /\ shell' = [at |-> "idle"]
  /\ UNCHANGED <<smsg, spc, cfg, radio, rmsgs, listening, inbox, trouble>>

-----------------------------------------------------------------------------
(* The sender.                                                             *)

Take(m) == spc = "idle" /\ smsg # <<>> /\ Head(smsg) = m /\ smsg' = Tail(smsg)

\* The file is wrong, or cannot be opened: it is locked, or too many others are open; or
\* reading it fails.
RestartRefused ==
  /\ Take("restart")
  /\ trouble' = (trouble \/ Readable(file))
  /\ Forward
  /\ UNCHANGED <<file, locked, shell, spc, cfg, radio, listening, inbox>>

\* ha_slp_init up to the channel: setting the hardware address, RPL or the global
\* address may fail.
Restart ==
  /\ Take("restart")
  /\ ~locked /\ Readable(file)
  /\ \/ /\ Hw(file) # 0 /\ hw' = Hw(file)
        /\ spc' = "tune" /\ cfg' = file
        /\ UNCHANGED <<rmsgs, torn, trouble>>
     \/ /\ hw' \in {hw, Hw(file)}
        /\ Forward
        /\ torn' = TRUE /\ trouble' = TRUE
        /\ UNCHANGED <<spc, cfg>>
  /\ UNCHANGED <<file, locked, shell, channel, in_force, listening, inbox>>

\* The transceiver keeps its channel when it is told a wrong one; its reply is not
\* looked at.
TuneTo(c) == channel' = IF c \in Accepted THEN c ELSE channel

\* A fault: what is saved is what the file now holds.
TunedToFile ==
  /\ spc = "tune"
  /\ TuneTo(cfg.channel)
  /\ in_force' = IF file \in Setting THEN file ELSE cfg
  /\ torn' = FALSE
  /\ spc' = "idle" /\ cfg' = NoSetting
  /\ Forward
  /\ UNCHANGED <<file, locked, shell, smsg, hw, listening, inbox, trouble>>

\* A fault: a restart that has succeeded is not passed on.
TunedUntold ==
  /\ spc = "tune"
  /\ TuneTo(cfg.channel)
  /\ in_force' = cfg
  /\ torn' = FALSE
  /\ spc' = "idle" /\ cfg' = NoSetting
  /\ UNCHANGED <<file, locked, shell, smsg, hw, rmsgs, listening, inbox, trouble>>

\* The transceiver answers; the configuration is saved to the global variables.
Tuned ==
  /\ spc = "tune"
  /\ TuneTo(cfg.channel)
  /\ in_force' = cfg
  /\ torn' = FALSE
  /\ spc' = "idle" /\ cfg' = NoSetting
  /\ Forward
  /\ UNCHANGED <<file, locked, shell, smsg, hw, listening, inbox, trouble>>

\* send_data_gff: broadcasts and sleeps; frames that are incomplete or of an unknown
\* command are dropped, without a sleep.
SendFrame ==
  /\ Take("frame")
  /\ spc' \in {"sleep", "idle"}
  /\ UNCHANGED <<file, locked, shell, cfg, radio, rmsgs, listening, inbox, trouble>>

Wake ==
  /\ spc = "sleep"
  /\ spc' = "idle"
  /\ UNCHANGED <<file, locked, shell, smsg, cfg, radio, rmsgs, listening, inbox, trouble>>

-----------------------------------------------------------------------------
(* The receiver.                                                           *)

\* start_receiver_loop: the loop on the socket has no end, but binding may fail.
StartReceiver ==
  /\ ~listening /\ rmsgs > 0
  /\ rmsgs' = rmsgs - 1
  /\ \/ listening' = TRUE /\ UNCHANGED trouble
     \/ trouble' = TRUE /\ UNCHANGED listening
  /\ UNCHANGED <<file, locked, shell, smsg, spc, cfg, radio, inbox>>

\* A datagram on this channel.
Arrive ==
  /\ listening /\ inbox < MaxInbox
  /\ inbox' = inbox + 1
  /\ UNCHANGED <<file, locked, shell, smsg, spc, cfg, radio, rmsgs, listening, trouble>>

\* A turn of the loop; what filter_node_id drops and what becomes of the rest is not
\* followed.
Receive ==
  /\ listening /\ inbox > 0
  /\ inbox' = inbox - 1
  /\ UNCHANGED <<file, locked, shell, smsg, spc, cfg, radio, rmsgs, listening, trouble>>

-----------------------------------------------------------------------------
PowerOff ==
  /\ shell' = [at |-> "boot"] /\ locked' = FALSE
  /\ smsg' = <<>> /\ spc' = "idle" /\ cfg' = NoSetting
  /\ hw' = 0 /\ channel' = DefaultChannel /\ in_force' = NoSetting /\ torn' = FALSE
  /\ rmsgs' = 0 /\ listening' = FALSE /\ inbox' = 0
  /\ trouble' = FALSE
  /\ UNCHANGED file

Init ==
  /\ file \in FirstFile
  /\ shell = [at |-> "boot"] /\ locked = FALSE
  /\ smsg = <<>> /\ spc = "idle" /\ cfg = NoSetting
  /\ hw = 0 /\ channel = DefaultChannel /\ in_force = NoSetting /\ torn = FALSE
  /\ rmsgs = 0 /\ listening = FALSE /\ inbox = 0
  /\ trouble = FALSE

Sender == RestartRefused \/ Restart \/ Tuned \/ SendFrame \/ Wake
Receiver == StartReceiver \/ Receive

Next ==
  \/ StartOnReset
  \/ \E options \in Command : OpenConfig(options)
  \/ ReadConfig \/ ReadFails \/ EmptyConfig \/ WriteConfig
  \/ PostFrame
  \/ Sender \/ Receiver
  \/ Arrive
  \/ PowerOff

\* Two threads of high priority; the transceiver answers and timers end.  Shell,
\* other nodes and other threads owe nothing.
Fairness == WF_vars(Sender) /\ WF_vars(Receiver)

Spec == Init /\ [][Next]_vars /\ Fairness

-----------------------------------------------------------------------------
(* Properties.                                                             *)

\* The radio has the address and, if the transceiver takes it, the channel of the
\* configuration in force, whatever the shell does to the file while a restart is under
\* way and whenever restarts follow one another.  (A restart that failed half-way
\* leaves its address until one succeeds; after a channel that the transceiver refuses,
\* the radio is on an earlier one.)
OneConfiguration ==
  /\ IF in_force = NoSetting THEN channel = DefaultChannel
     ELSE IF in_force.channel \in Accepted THEN channel = in_force.channel
     ELSE channel \in Accepted \cup {DefaultChannel}
  /\ IF spc = "tune" THEN hw = Hw(cfg)
     ELSE torn \/ hw = IF in_force = NoSetting THEN 0 ELSE Hw(in_force)

Requested(c) == "restart" \in ToSet(smsg) /\ file = c

\* A restart that has been asked for takes hold: in the end the node runs with
\* the configuration in the file and receives, unless the file is changed,
\* the stack reports a failure, or power is lost.  Neither frames that keep coming
\* nor earlier restarts prevent it.
RestartTakesHold ==
  \A c \in {x \in Setting : Readable(x) /\ Hw(x) # 0} :
    Requested(c) ~>
      \/ in_force = c /\ listening
      \/ file # c \/ trouble \/ shell.at = "boot"

\* The sender comes back to its messages, although the receiver stops reading
\* its own after the first restart.
SenderReturns == []<>(spc = "idle")
=============================================================================
