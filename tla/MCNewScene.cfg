SPECIFICATION FairSpec
CONSTANTS
  Name = {a, b}
  NoName = none
  Version = {v1}
  Invalid = invalid
  MaxRules = 1
  MaxSent = 3
  Wide = 3
  TimerRange = 3
  Timeout = 2
  MaxResend = 1
  Polite = FALSE
INVARIANTS
  TypeOK
  RunningIsActive
PROPERTIES
  ActiveFileStays
  UploadEnds
