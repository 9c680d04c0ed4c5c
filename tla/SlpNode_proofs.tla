--------------------------- MODULE SlpNode_proofs ---------------------------
(***************************************************************************)
(* Proofs about the 6LoWPAN node, for any settings, commands of the shell  *)
(* and sizes of the queues.                                                *)
(***************************************************************************)
EXTENDS SlpNode, TLAPS

\* A setting is not taken for the absence of one.
LEMMA SettingIsSet ==
  ASSUME NEW c \in Setting
  PROVE  c # NoSetting
  <1>1. DOMAIN c = {"id", "low", "type", "channel"}
    BY SettingAssumption
  <1>2. DOMAIN NoSetting = {"state"}
    BY DEF NoSetting
  <1>3. QED
    BY <1>1, <1>2

\* While the sender waits for the transceiver it has a setting in its hands, and the
\* radio is never on a channel that the transceiver refuses.
TuneInv ==
  /\ spc \in {"idle", "tune", "sleep"}
  /\ spc = "tune" => cfg \in Setting
  /\ channel \in Accepted \cup {DefaultChannel}

Inv == TuneInv /\ OneConfiguration

\* The radio and what depends on it.
radio_vars == <<spc, cfg, radio>>

LEMMA RadioUntouched ==
  ASSUME Inv, UNCHANGED radio_vars
  PROVE  Inv'
BY DEF Inv, TuneInv, OneConfiguration, Hw, NodeId, radio_vars, radio

LEMMA InvHolds == Spec => []Inv
<1>1. Init => Inv
  BY DEF Init, Inv, TuneInv, OneConfiguration
<1>2. Inv /\ [Next]_vars => Inv'
  <2> SUFFICES ASSUME Inv, [Next]_vars PROVE Inv'
    OBVIOUS
  <2>1. CASE RestartRefused
    BY <2>1, RadioUntouched DEF RestartRefused, radio_vars
  <2>2. CASE Restart
    <3>1. CASE Hw(file) # 0 /\ hw' = Hw(file) /\ spc' = "tune" /\ cfg' = file
      <4>1. file \in Setting
        BY <2>2 DEF Restart, Readable
      <4>2. UNCHANGED <<channel, in_force>>
        BY <2>2 DEF Restart
      <4>3. Hw(cfg)' = Hw(file)
        BY <3>1 DEF Hw, NodeId
      <4> QED
        BY <3>1, <4>1, <4>2, <4>3 DEF Inv, TuneInv, OneConfiguration
    <3>2. CASE torn' = TRUE /\ UNCHANGED <<spc, cfg>>
      <4>1. spc = "idle" /\ UNCHANGED <<channel, in_force>>
        BY <2>2 DEF Restart, Take
      <4> QED
        BY <3>2, <4>1 DEF Inv, TuneInv, OneConfiguration
    <3> QED
      BY <2>2, <3>1, <3>2 DEF Restart
  <2>3. CASE Tuned
    <3>1. cfg \in Setting /\ hw = Hw(cfg)
      BY <2>3 DEF Tuned, Inv, TuneInv, OneConfiguration
    <3>2. in_force' = cfg /\ in_force' # NoSetting
      BY <2>3, <3>1, SettingIsSet DEF Tuned
    <3>4. channel' = IF cfg.channel \in Accepted THEN cfg.channel ELSE channel
      BY <2>3 DEF Tuned, TuneTo
    <3>3. hw' = Hw(in_force)' /\ spc' = "idle"
      BY <2>3, <3>1, <3>2 DEF Tuned, Hw, NodeId
    <3> QED
      BY <3>2, <3>3, <3>4 DEF Inv, TuneInv, OneConfiguration
  <2>4. CASE SendFrame
    <3>1. spc = "idle" /\ spc' \in {"idle", "sleep"} /\ UNCHANGED <<cfg, radio>>
      BY <2>4 DEF SendFrame, Take
    <3> QED
      BY <3>1 DEF Inv, TuneInv, OneConfiguration, Hw, NodeId, radio
  <2>5. CASE Wake
    <3>1. spc = "sleep" /\ spc' = "idle" /\ UNCHANGED <<cfg, radio>>
      BY <2>5 DEF Wake
    <3> QED
      BY <3>1 DEF Inv, TuneInv, OneConfiguration, Hw, NodeId, radio
  <2>6. CASE PowerOff
    BY <2>6 DEF PowerOff, Inv, TuneInv, OneConfiguration
  <2>7. CASE \E options \in Command : OpenConfig(options)
    BY <2>7, RadioUntouched DEF OpenConfig, radio_vars
  <2>8. CASE StartOnReset \/ ReadConfig \/ ReadFails \/ EmptyConfig \/ WriteConfig \/ PostFrame
    BY <2>8, RadioUntouched
    DEF StartOnReset, ReadConfig, ReadFails, EmptyConfig, WriteConfig, PostFrame, radio_vars
  <2>9. CASE StartReceiver \/ Receive \/ Arrive
    BY <2>9, RadioUntouched DEF StartReceiver, Receive, Arrive, radio_vars
  <2>10. CASE UNCHANGED vars
    BY <2>10, RadioUntouched DEF vars, radio_vars
  <2> QED
    BY <2>1, <2>2, <2>3, <2>4, <2>5, <2>6, <2>7, <2>8, <2>9, <2>10 DEF Next, Sender, Receiver
<1> QED
  BY <1>1, <1>2, PTL DEF Spec

\* Whatever the shell writes while a restart is under way (ha_slp_init waits for the
\* transceiver with the address set and the channel not), radio and node id are of
\* one setting, for any settings, queues and sets of channels that the transceiver
\* takes.
THEOREM OneConfigurationHolds == Spec => []OneConfiguration
<1>1. Inv => OneConfiguration
  BY DEF Inv
<1> QED
  BY <1>1, InvHolds, PTL
=============================================================================
