SPECIFICATION Spec
CONSTANTS
  c1 = c1
  c2 = c2
  u1 = u1
  u2 = u2
  w1 = w1
  w2 = w2
  w3 = w3
  scenario = scenario
  Clients = {c1, c2}
  Runners = {1, 2}
  Scenario = scenario
  ScenarioSpecs <- MCScenarioSpecs
  RunnerSpecs <- MCRunnerSpecs
  Workers = {w1, w2, w3}
  Fleets <- MCFleets
  HomeOf <- MCHomeOf
  Runs = {u1, u2}
  NoRunner = NoRunner
  MaxVersion = 3
  MaxEvents = 2
SYMMETRY Symmetry
INVARIANTS TypeOK VersionNamesContent DrawIsProportional
PROPERTIES NoLostUpdate SpreadsWithinDrift PreviewAgrees
CHECK_DEADLOCK FALSE
