SPECIFICATION FairSpec
CONSTANTS
  Device = {d1, d2, d3}
  NoDevice = none
  Value = {v0}
  Default = v0
  MaxDevs = 2
  AliveTtl = 4
  SavePeriod = 0
  TtlRange = 3
INVARIANTS
  RestoredFromFile
PROPERTIES
  SaveWritesAll
  SlotsAreTable
  SilentIsForgotten
