----------------------------- MODULE MCSlpNode -----------------------------
(***************************************************************************)
(* SlpNode with settings that are right, of which two have one address     *)
(* (ids 1 and 257), and settings that the reader rejects, among them one   *)
(* that the shell accepts (id 65536); and a channel that is wrong.         *)
(***************************************************************************)
EXTENDS SlpNode

MCSetting == [id : {0, 1, 257, 65536}, low : BOOLEAN, type : {"0", "n"}, channel : {0, 1, 99}]

\* 99 is what the shell takes and the transceiver does not.
MCAccepted == {0, 1}

Set(f, v) == [field |-> f, value |-> v]
Start == [field |-> "start"]
Send == [field |-> "send"]

Full == <<Set("low", TRUE), Set("id", 1), Set("type", "n")>>

MCCommand ==
  {Full, <<Start>>, <<Set("id", 257), Set("channel", 1)>>, <<Send>>,
   <<Set("id", 65536), Set("channel", 99)>>}

Right == [id |-> 1, low |-> TRUE, type |-> "n", channel |-> 0]
MCLeftover == {Right}
MCFirstFile == {Absent, Right}
=============================================================================
