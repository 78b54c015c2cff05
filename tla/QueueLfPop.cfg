SPECIFICATION LfSpec
CONSTANTS
  TimeScale = 500
  IdScale = 2
  Buckets = 50
  Workloads <- TwoConsumers
INVARIANTS
  HeadIsNode
CHECK_DEADLOCK FALSE
