SPECIFICATION FairSpec
CONSTANTS
  Button = {button}
  Sensor = {sensor}
  OnOff = {lamp}
  Level = {bulb}
  NoDevice = NoDevice
  NoMsg = NoMsg
  Value = {0, 1}
  FirstValue = 0
  Command = {2, 101, 110}
  QueueSize = 2
INVARIANTS
  ServesAsRun
  ReportIsTrue
  OldValuesStay
  TableIsOwned
PROPERTY RunIsServed
