SPECIFICATION FairSpec
CONSTANTS
  r1 = r1
  r2 = r2
  a1 = a1
  a2 = a2
  None = None
  Runs <- MCRuns
  Agents <- MCAgents
  Slots <- MCSlots
  MaxRunning = 1
  Dispositions = {"killed"}
  Outcomes = {"success"}
  Scenarios <- LivenessScenarios
PROPERTIES LostRunsEnd StopReachesAgent DrainEnds
CHECK_DEADLOCK FALSE
