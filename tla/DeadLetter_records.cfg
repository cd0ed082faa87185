SPECIFICATION Spec
CONSTANTS
  u1 = u1
  u2 = u2
  u3 = u3
  w1 = w1
  c1 = c1
  c2 = c2
  Runs = {u1, u2, u3}
  Workers = {w1}
  NoWorker = NoWorker
  p = p
  m = m
  Reasons = {p, m}
  Keys <- MCKeys
  Clients = {c1, c2}
  NoRun = NoRun
  NoKey = NoKey
SYMMETRY Symmetry
INVARIANTS OneRetryPerFailure RecordedRunIsNotWaiting
PROPERTIES AnswersHold
CHECK_DEADLOCK FALSE
