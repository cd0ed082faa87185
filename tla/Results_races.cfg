SPECIFICATION Spec
CONSTANTS
  u1 = u1
  u2 = u2
  w1 = w1
  w2 = w2
  w3 = w3
  east = east
  west = west
  Runs = {u1, u2}
  Workers = {w1, w2, w3}
  Runners = {east, west}
  RunnerOf <- MCRunnerOf
  LegacyWorkers = {w2}
  LegacyRuns = {u2}
  NoWorker = NoWorker
  NoRunner = NoRunner
  MaxHandlers = 3
INVARIANTS OneExecutor HolderCanReport
PROPERTIES TerminalIsFinal OnlyExecutorCompletes PlacementIsKept ImplementsLifecycle
CHECK_DEADLOCK FALSE
