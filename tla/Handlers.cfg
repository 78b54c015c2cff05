SPECIFICATION MCSpec
CONSTANTS
  NoMsg = nomsg
  TopicsOf <- AllTopics
  FilterOf <- AllTopics
  Handlers = {h1, h2}
  Threads = {t1, t2}
  Topics = {a}
  SysTopics = {a}
  IncludeSys = {h1, h2}
  AsyncProcess = {h1, h2}
  InitiallyOpen = {h1, h2}
  Writers = {h1, h2}
  Calls = {"write", "resolve", "reset", "setcounter"}
  Kinds = {"plain", "force", "marked"}
  Modes = {"async", "check"}
  CounterValues = {0}
  MaxCalls = 3
SYMMETRY FullSymmetry
INVARIANTS
  MirrorsAgree
  CallsEnd
  Delivered
PROPERTIES
  TransitionsReal
CHECK_DEADLOCK FALSE
