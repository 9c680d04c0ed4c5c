SPECIFICATION Spec
CONSTANTS
  Setting <- MCSetting
  Command <- MCCommand
  Leftover <- MCLeftover
  FirstFile <- MCFirstFile
  DefaultChannel = 0
  Accepted <- MCAccepted
  SenderSlots = 2
  ReceiverSlots = 1
  MaxInbox = 1
INVARIANT OneConfiguration
PROPERTIES
  RestartTakesHold
  SenderReturns
