SPECIFICATION Spec
CONSTANTS
  NoMsg = nomsg
  TopicsOf <- AllTopics
  FilterOf <- AllTopics
  Handlers = {h1, h2}
  Threads = {t1, t2}
  Topics = {a}
  SysTopics = {}
  IncludeSys = {}
  AsyncProcess = {}
  InitiallyOpen = {h1, h2}
  Writers = {h1, h2}
  Calls = {"write", "resolve"}
  Kinds = {"plain"}
  Modes = {"async"}
  CounterValues = {}
  MaxCalls = 5
SYMMETRY FullSymmetry
INVARIANTS
  UpToDate
CHECK_DEADLOCK FALSE
