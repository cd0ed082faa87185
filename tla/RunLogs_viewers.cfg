SPECIFICATION FairSpec
CONSTANTS
  Viewers = {v1, v2}
  Runners = {r1, r2}
  Executors = {r1}
  NoRunner = NoRunner
  Buffer = 1
  MaxLines = 3
  MaxProbed = 1
  MaxFaults = 1
INVARIANTS TailHasNoGaps 
PROPERTIES WatcherIsServed
CHECK_DEADLOCK FALSE
