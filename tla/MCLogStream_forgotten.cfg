CONSTANTS
  Slots = {q1, q2}
  None = None
  Budget = 2
  MaxFaults = 2
  Scenarios <- CrashScenarios
SPECIFICATION Spec
INVARIANT EndReachesServer
CHECK_DEADLOCK FALSE
