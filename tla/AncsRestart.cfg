SPECIFICATION Spec
CONSTANTS
  Uids = {"u1", "u2"}
  Workloads <- RestartWorkloads
INVARIANT
  ReadyListens
CHECK_DEADLOCK FALSE
