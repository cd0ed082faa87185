SPECIFICATION Spec
CONSTANTS
  Names = {a}
  Watched = {a}
  NoName = NoName
  MaxInstances = 1
  MaxRecords = 2
  MaxVersion = 3
  MaxCalls = 2
INVARIANTS AnnouncesItsRecord
CHECK_DEADLOCK FALSE
