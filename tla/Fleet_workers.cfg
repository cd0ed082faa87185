SPECIFICATION Spec
CONSTANTS
  Names = {a, b}
  Watched = {a}
  NoName = NoName
  MaxInstances = 1
  MaxRecords = 2
  MaxVersion = 3
  MaxCalls = 2
INVARIANTS OvershootIsBounded
PROPERTIES PauseHolds ReturnedIsNotEvicted FarewellHolds HeardIsShown
CHECK_DEADLOCK FALSE
