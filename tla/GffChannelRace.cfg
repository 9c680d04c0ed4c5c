SPECIFICATION ChannelSpec
CONSTANTS
  QueueSize = 7
  MsgSlots = 1
  Frame <- ShortFrames
  Header = 1
  Byte <- Bytes
INVARIANT AddedStays
