SPECIFICATION FairSpec
CONSTANTS
  p1 = p1
  p2 = p2
  reconciler = reconciler
  east = east
  Procs = {p1, p2}
  NoProc = NoProc
  Loops = {reconciler}
  Reconciler = reconciler
  Runners = {east}
  MinBackoff = 1
  MaxBackoff = 2
  MaxFaults = 2
INVARIANTS OneScanWithinLease
PROPERTIES SuccessMeansRestored LoopsKeepRunning QueuesComeBack
CHECK_DEADLOCK FALSE
