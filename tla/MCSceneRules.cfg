SPECIFICATION FairSpec
CONSTANTS
  a = a
  b = b
  lamp = lamp
  In = {a, b}
  Out = {lamp}
  Value = {0, 1}
  NoValue = NoValue
  RuleLists <- MCRuleLists
  Minute = 2
  Day = 4
  MaxNow = 3
  MaxReports = 2
  MsgSlots = 2
CHECK_DEADLOCK FALSE
INVARIANTS
  NoMissedEdge
  OncePerMinute
PROPERTIES
  NoFalseCommand
  CommandsEnd
