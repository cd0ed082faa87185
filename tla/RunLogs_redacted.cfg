SPECIFICATION Spec
CONSTANTS
  Viewers = {v1}
  Runners = {r1}
  Executors = {r1}
  NoRunner = NoRunner
  Buffer = 1
  MaxLines = 3
  MaxProbed = 1
  MaxFaults = 0
INVARIANTS RedactedWasInspected
CHECK_DEADLOCK FALSE
