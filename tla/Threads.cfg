SPECIFICATION MCSpec
CONSTANTS
  r1 = r1
  Worker = worker
  Immediate = immediate
  Readers = {}
  Waiters = {}
  w1 = w1
  Scheduled = TRUE
  HasFn = TRUE
  BatchCount = 1
  Timed = FALSE
  FnThrows = FALSE
  MaxWrites = 2
  MaxTime = 2
  Callers = {c1}
  Delays <- SomeDelays
INVARIANTS
  NotEarly
  PipeItemsExact
PROPERTIES
  PipeDueOrder
  ImplementsExecutor
  HandlesExact
  
CHECK_DEADLOCK FALSE
