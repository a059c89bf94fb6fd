SPECIFICATION MCSpec
CONSTANTS
  Agents = {a1, a2}
  Interval = 10
  Drift = 1
  Timeout = 3
  MaxBackoff = 40
  MaxFailures = 3
  LeaseDuration = 5
  RenewDeadline = 3
  Retry = 1
  MaxLatency = 1
  Staleness = 30
  None = None
  PodSpecs <- MCPodSpecs
INVARIANTS
  
  
  ChargeIsThePeak
