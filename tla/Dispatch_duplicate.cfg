SPECIFICATION Spec
CONSTANTS
  u1 = u1
  w1 = w1
  w2 = w2
  r1 = r1
  east = east
  Runs = {u1}
  Workers = {w1, w2}
  Runners = {east}
  RunnerOf <- MCRunnerOf
  NoWorker = NoWorker
  NoRunner = NoRunner
  LegacyRuns = {}
  Relays = {r1}
  NoRelay = NoRelay
  NoEvent = NoEvent
  MaxHandlers = 2
  MaxFaults = 0
  MaxDeliver = 3
  Concurrency = 2
  Pausable = {w1}
  Lapsing = {}
  Timely = TRUE
PROPERTIES PendingKeepsMessage
CHECK_DEADLOCK FALSE
