SPECIFICATION MCSpec
CONSTANTS
  n1 = n1
  n2 = n2
  FirstStamp <- PairStamps
  Nodes = {n1, n2}
  NoMaster = nomaster
  Stamps = {1, 2, 3}
  PendingMax = 3
  SyncMax = 5
  Lossy = TRUE
  LinkCapacity = 1
  MaxDepartures = 2
  Pubs = {"p"}
  Subs = {"s1", "s2"}
  Clients = {"c1", "c2"}
  Capacity = 2
  Replay <- ReplayOneOrAll
  FailureCapacity = 1
  HasFilter = FALSE
  Throwing = {"s1"}
  MaxItems = 3
  MaxRegistrations = 2
INVARIANTS
  AssertsHold
  DeliveryExact
  LinksAgree
  BlockingPublish
PROPERTIES
  ConvergesFromStart
  CallReturns
  PopServed
CHECK_DEADLOCK FALSE
