SPECIFICATION ChannelSpec
CONSTANTS
  QueueSize = 7
  MsgSlots = 1
  Frame <- ShortFrames
  Header = 1
  Byte <- Bytes
CONSTRAINT NoFrameAfterBroken
INVARIANTS
  RingHoldsFrames
  LagIsDropped
PROPERTY FramesInOrder
