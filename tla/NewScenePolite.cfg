SPECIFICATION Spec
CONSTANTS
  Name = {a, b, c}
  NoName = none
  Version = {v1, v2}
  Invalid = invalid
  MaxRules = 3
  MaxSent = 3
  Wide = 4
  TimerRange = 4
  Timeout = 3
  MaxResend = 1
  Polite = TRUE
SYMMETRY Symmetry
INVARIANTS
  SavedAsSent
  HalfLoadedNotRun
  LargestNeverSaved
