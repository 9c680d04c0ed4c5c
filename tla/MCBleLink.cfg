SPECIFICATION FairSpec
CONSTANTS
  Wait = 2
  MaxMsgs = 3
  UsartSize = 6
  Limit = 3
  PartSize = 2
  FrameSize = {1, 3}
  MaxOut = 2
  MaxIn = 2
  MaxLinks = 2
CHECK_DEADLOCK FALSE
INVARIANTS
  SleepIsTimed
  WholeIfCareful
  AllIfCareful
PROPERTY ThreadGetsIdle
