SPECIFICATION MCSpec
CONSTANT MaxGeneration = 5
INVARIANTS
  TimerExact
  TreeExact
  
  EngineHonest
PROPERTIES
  ChangesReported
  LoopLeft
  
CHECK_DEADLOCK FALSE
