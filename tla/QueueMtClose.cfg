SPECIFICATION FairSpec
CONSTANTS
  p1 = p1
  p2 = p2
  c1 = c1
  c2 = c2
  b1 = b1
  d1 = d1
  s1 = s1
  NoThread = NoThread
  Threads <- CloseThreads
  Calls <- CloseCalls
  Cancellable = {}
  BatchCount = 2
  MaxPush = 0
PROPERTY ShutdownReleases
CHECK_DEADLOCK FALSE
