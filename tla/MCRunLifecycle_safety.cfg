SPECIFICATION Spec
CONSTANTS
  r1 = r1
  r2 = r2
  a1 = a1
  a2 = a2
  None = None
  Runs <- MCRuns
  Agents <- MCAgents
  Slots <- MCSlots
  MaxRunning = 2
  Dispositions = {"killed"}
  Outcomes = {"success"}
  Scenarios <- SafetyScenarios
SYMMETRY Symmetry
INVARIANTS TypeOK EndReported OneExecutor RunningIsHeld CloseSparesLive NeverRefused
PROPERTIES TerminalIsFinal ClaimedOnce ImplementsContract
CHECK_DEADLOCK FALSE
