SPECIFICATION FairSpec
CONSTANTS
  None = None
  Flows <- MCFlows
  Nodes <- MCNodes
  Walks <- MCWalks
  Kind <- MCKind
  Body <- MCBody
  Arms <- MCArms
  Pass <- MCPass
  Fail <- MCFail
  Ref <- MCRef
  OnOutput = {"bo"}
  Child <- MCChild
  FlowOf <- MCFlowOf
  Above <- MCAbove
  Depth <- MCDepth
  Retries <- MCRetries
  MaxTries = 2
  ContinueOn = {"b", "x"}
  Refused = {"l"}
  Local <- MCLocal
  MaxDepth = 1
  MaxCrashes = 1
  Scenarios <- MCScenarios
INVARIANTS TypeOK SuccessIsTrue StepsInOrder ParallelBound CancelReachesAll
PROPERTIES CancelHalts WorkflowEnds ImplementsContract
CHECK_DEADLOCK FALSE
