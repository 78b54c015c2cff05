SPECIFICATION MCSpec
CONSTANTS
  p1 = p1
  p2 = p2
  c1 = c1
  c2 = c2
  b1 = b1
  d1 = d1
  s1 = s1
  NoThread = NoThread
  Threads <- AllThreads
  Calls <- AllCalls
  Cancellable = {c1}
  BatchCount = 2
  MaxPush = 2
  TimeScale = 1
  IdScale = 1
  Buckets = 2
  Workloads <- AllWorkloads
INVARIANTS
  InflightExact
  ShutdownQuiesces
  FifoExact
  
PROPERTY ImplementsFifo
CHECK_DEADLOCK FALSE
