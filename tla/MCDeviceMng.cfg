SPECIFICATION Spec
CONSTANTS
  Device = {d1, d2, d3, d4}
  NoDevice = none
  Value = {v0}
  Default = v0
  MaxDevs = 3
  AliveTtl = 3
  SavePeriod = 0
  TtlRange = 3
SYMMETRY Symmetry
INVARIANTS
  CountMatches
  NoDuplicates
  AnswerListsAll
