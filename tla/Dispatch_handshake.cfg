SPECIFICATION FairSpec
CONSTANTS
  u1 = u1
  w1 = w1
  w2 = w2
  r1 = r1
  east = east
  Runs = {u1}
  Workers = {w1, w2}
  Runners = {east}
  RunnerOf <- MCRunnerOf
  NoWorker = NoWorker
  NoRunner = NoRunner
  LegacyRuns = {u1}
  Relays = {r1}
  NoRelay = NoRelay
  NoEvent = NoEvent
  MaxHandlers = 2
  MaxFaults = 1
  MaxDeliver = 2
  Concurrency = 2
  Pausable = {}
  Lapsing = {w1}
  Timely = FALSE
INVARIANTS TypeOK OneExecution RetiredRunIsOver
PROPERTIES NoDispatchOfFinishedRun PendingOutlivesClaims EveryRunEnds
CHECK_DEADLOCK FALSE
