SPECIFICATION MCSpec
CONSTANTS
  MaxBytes = 8
  MaxDepth = 2
  MaxValues = 6
  Calls = {"c1", "c2"}
  Subs = {"s1", "s2"}
  Arguments <- SomeArguments
  Match <- SomeMatch
  Signals <- SomeSignals
  MaxInFlight = 1
  MaxQueuedCommands = 2
  MaxSignalMessages = 2
  MaxSignalBytes = 4
  Workloads <- SomeWorkloads
INVARIANTS
  CallsExact
  SignalsExact
  IoInOrder
PROPERTIES
  CallAnswered
  IoReturns
CHECK_DEADLOCK FALSE
