SPECIFICATION Spec
CONSTANTS
  Thread = {t1, t2}
  File = {f, g}
  Folder = {d}
  Version = {v1}
  NoVersion = none
  Clusters = 3
  Entries = 3
  LinksPerSector = 2
  EntriesPerSector = 2
  MaxSize = 2
  FS_LOCK = 3
  Suggested = {0}
CONSTRAINT NotHurt
SYMMETRY Symmetry
INVARIANTS
  CardIsSound
  SyncedSurvives
  OpenFilesStay
PROPERTY NothingLeaks
CHECK_DEADLOCK FALSE
