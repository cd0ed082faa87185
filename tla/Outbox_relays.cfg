SPECIFICATION FairSpec
CONSTANTS
  e1 = e1
  e2 = e2
  r1 = r1
  r2 = r2
  Events = {e1, e2}
  Unroutable = {e2}
  Relays = {r1, r2}
  NoRelay = NoRelay
  NoEvent = NoEvent
  BatchSize = 2
  MaxFaults = 1
INVARIANTS OneMessagePerEvent Withdrawable
PROPERTIES EveryRowSettles
CHECK_DEADLOCK FALSE
