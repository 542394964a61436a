SPECIFICATION FairSpec
CONSTANTS
  None = None
  Defs <- MCDefs
  Reactions = {"r1", "r2", "r3", "r4"}
  MaxRuns = 7
  Workflows = {"w", "v"}
  StepsOf <- MCSteps
  On <- MCOn
  Owner <- MCOwner
  Outcomes <- MCOutcomes
  Interval <- MCInterval
  WithChildren = {"r3"}
  MaxDepth = 3
  Lookback = 1
  MissGrace = 2
  Lag = 1
  MaxCrashes = 1
  MaxFaults = 1
  Scenarios <- MCScenarios
INVARIANTS TypeOK OncePerEvent RateBrake ChainBounded
PROPERTIES RetroBounded EventAnswered
CHECK_DEADLOCK FALSE
