SPECIFICATION Spec
CONSTANTS
  cron = cron
  hand = hand
  token = token
  file = file
  reaction = reaction
  deferred = deferred
  free = free
  jq = jq
  jf = jf
  ja = ja
  k1 = k1
  k2 = k2
  p1 = p1
  p2 = p2
  None = None
  Fires <- MCFires
  Jobs <- MCJobs
  Keys <- MCKeys
  JobOf <- MCJobOf
  ProducerOf <- MCProducerOf
  PolicyOf <- MCPolicyOf
  KeyOf <- MCKeyOf
  QueueCap = 1
  Promoters = {p1, p2}
  Scenarios <- RaceScenario
INVARIANTS NeverSilent
CHECK_DEADLOCK FALSE
