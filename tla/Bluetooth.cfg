SPECIFICATION MCSpec
CONSTANTS
  Uids = {"u1", "u2", "u3"}
  Workloads <- SomeWorkloads
  GattWorkloads <- SomeGattWorkloads
INVARIANTS
  RequestsExact
  AncsHonest
  BluezMirror
  
PROPERTIES
  
  MonitorHonest
CHECK_DEADLOCK FALSE
