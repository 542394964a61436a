CONSTANTS
  Slots = {q1, q2}
  None = None
  Budget = 2
  MaxFaults = 2
  Scenarios <- MCScenarios
SPECIFICATION Spec
INVARIANTS TypeOK Lossless AckedIsStored NoRepeat OutcomeTrue EndIsBrought
PROPERTY FlushEnds
CHECK_DEADLOCK FALSE
