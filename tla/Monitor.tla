------------------------------ MODULE Monitor -------------------------------
(***************************************************************************)
(* Dmn_AncsBluezMonitor: start() finds one device, pairs and connects it   *)
(* when it may, and starts the ANCS client on it, while the devices and    *)
(* the adapters change and the caller may cancel; stop() ends the client.  *)
(* Both hold the API mutex.  Deadlines pass at any poll.                   *)
(***************************************************************************)
EXTENDS Naturals, FiniteSets, Functions, TLC

CONSTANTS
  Adapters,
  Info,         \* device -> [adapter, name, address]
  NoAddress,    \* the empty address
  Configs,      \* [selector, byAddress, adapter (or AnyAdapter), existing, remaining, world]
  AnyAdapter, None,
  MaxChanges, MaxStarts

Devices == DOMAIN Info

VARIABLES
  config,
  world,        \* BlueZ: [powered: adapter -> BOOLEAN, devs: device -> [paired, connected]]
  at,           \* the stage of start()
  seen,         \* the last inventory that start() has read
  adapter, target,
  discovering, ancs, cancel,
  asked,        \* what start() has asked BlueZ for
  result,
  stuck,        \* a call that ends something has failed
  changes, starts

vars == <<config, world, at, seen, adapter, target, discovering, ancs, cancel, asked, result, stuck, changes, starts>>

Return(r) == at' = "idle" /\ result' = r
Go(stage) == at' = stage /\ UNCHANGED result
OrCancelled(r) == IF cancel THEN "Cancelled" ELSE r

\* selectDevice(), by address or by name
SelectDevice(inv, key, byAddress, path) ==
  {d \in DOMAIN inv.devs : (path = AnyAdapter \/ Info[d].adapter = path)
                             /\ (IF byAddress THEN Info[d].address ELSE Info[d].name) = key}
Select(inv, path) == SelectDevice(inv, config.selector, config.byAddress, path)
Matching(inv) == {a \in DOMAIN inv.powered : config.adapter \in {AnyAdapter, a}}
FindSelectedAdapter(inv) ==
  LET found == {a \in Matching(inv) : inv.powered[a]}
  IN IF Cardinality(found) = 1 THEN CHOOSE a \in found : TRUE ELSE None
FindDeviceAdapter(inv, d) == IF Info[d].adapter \in DOMAIN inv.powered THEN Info[d].adapter ELSE None

-----------------------------------------------------------------------------
(* start() *)

\* start() is refused when it is cancelled already or a session is active
Start ==
  /\ at = "idle" /\ starts < MaxStarts /\ starts' = starts + 1
  /\ cancel' \in BOOLEAN /\ asked' = {}
  /\ IF cancel' \/ ancs # "Stopped" THEN Return("refused")
                                    ELSE at' = "inventory" /\ result' = "none"
  /\ UNCHANGED <<config, world, seen, adapter, target, discovering, ancs, stuck, changes>>

\* the device that was selected must be usable as it is, or may be paired and connected
Checked(inv, found, a) ==
  IF Cardinality(found) # 1 THEN Return("DeviceNotFound") /\ UNCHANGED <<adapter, target>>
  ELSE LET d == CHOOSE x \in found : TRUE
           on == IF a = None THEN FindDeviceAdapter(inv, d) ELSE a
           state == inv.devs[d]
       IN IF on = None \/ ~inv.powered[on] THEN Return("Inventory") /\ UNCHANGED <<adapter, target>>
          ELSE /\ adapter' = on /\ target' = d
               /\ IF config.existing /\ ~state.paired THEN Return("Pairing")
                  ELSE IF config.existing /\ ~state.connected THEN Return("Connection")
                  ELSE Go(IF state.paired THEN "connect" ELSE "pair")

InventoryFails ==
  /\ at \in {"inventory", "again"} /\ Return("Inventory")
  /\ UNCHANGED <<config, world, seen, adapter, target, discovering, ancs, cancel, asked, stuck, changes, starts>>

Inventory ==
  /\ at = "inventory" /\ seen' = world
  /\ LET found == Select(world, config.adapter)
         first == FindSelectedAdapter(world)
     IN IF cancel THEN Return("Cancelled") /\ UNCHANGED <<adapter, target>>
        ELSE IF config.adapter # AnyAdapter /\ Cardinality(Matching(world)) # 1 THEN Return("Inventory") /\ UNCHANGED <<adapter, target>>
        ELSE IF found # {} \/ config.existing
          THEN Checked(world, found, IF config.adapter = AnyAdapter THEN None ELSE config.adapter)
        ELSE IF first = None THEN Return("Discovery") /\ UNCHANGED <<adapter, target>>
        ELSE Go("discover") /\ adapter' = first /\ UNCHANGED target
  /\ UNCHANGED <<config, world, discovering, ancs, cancel, asked, stuck, changes, starts>>

DiscoverStart ==
  /\ at = "discover" /\ asked' = asked \cup {"discover"}
  /\ \/ Return(OrCancelled("Discovery")) /\ UNCHANGED discovering
     \/ Go("poll") /\ discovering' = TRUE
  /\ UNCHANGED <<config, world, seen, adapter, target, ancs, cancel, stuck, changes, starts>>

\* a name is looked for until the deadline, an address until it is found
DiscoverPoll ==
  /\ at = "poll" /\ seen' = world
  /\ \E next \in {"poll", "undiscover"} :
       (config.byAddress /\ Select(world, adapter) # {} => next = "undiscover") /\ Go(next)
  /\ UNCHANGED <<config, world, adapter, target, discovering, ancs, cancel, asked, stuck, changes, starts>>

DiscoverStop ==
  /\ at = "undiscover"
  /\ \/ Return(OrCancelled("Discovery")) /\ stuck' = TRUE /\ UNCHANGED discovering
     \/ /\ discovering' = FALSE /\ UNCHANGED stuck
        /\ IF Cardinality(Select(seen, adapter)) # 1 THEN Return(OrCancelled("DeviceNotFound"))
           ELSE IF cancel THEN Return("Cancelled")
           ELSE Go("again")
  /\ UNCHANGED <<config, world, seen, adapter, target, ancs, cancel, asked, changes, starts>>

\* the adapter is the one the first inventory knew, powered as it was then
InventoryAgain ==
  /\ at = "again" /\ seen' = world
  /\ LET then == [world EXCEPT !.powered = [a \in {adapter} |-> TRUE]]
     IN Checked(then, Select(world, adapter), adapter)
  /\ UNCHANGED <<config, world, discovering, ancs, cancel, asked, stuck, changes, starts>>

\* the call has effect at once or later: BlueZ changes the device on its own
Ask(stage, what, next, error) ==
  /\ at = stage /\ asked' = asked \cup {what}
  /\ Return(error) \/ Go(next)
  /\ UNCHANGED <<config, world, seen, adapter, target, discovering, ancs, cancel, stuck, changes, starts>>

Pair == Ask("pair", "pair", "paired", "Pairing")

\* Mutant: the connection is not compared.
WaitAnyState(stage, connected, next, error) ==
  /\ at = stage /\ seen' = world
  /\ LET found == SelectDevice(world, Info[target].address, TRUE, adapter) \ {d \in Devices : Info[d].address = NoAddress}
     IN IF \E d \in found : found = {d} /\ world.devs[d].paired
          THEN Go(next) /\ target' \in found
          ELSE (Go(stage) \/ Return(error)) /\ UNCHANGED target
  /\ UNCHANGED <<config, world, adapter, discovering, ancs, cancel, asked, stuck, changes, starts>>

\* waitForDeviceState(): the selector is the address, and without one a name nobody has
WaitForDeviceState(stage, connected, next, error) ==
  /\ at = stage /\ seen' = world
  /\ LET found == SelectDevice(world, Info[target].address, TRUE, adapter) \ {d \in Devices : Info[d].address = NoAddress}
     IN IF \E d \in found : found = {d} /\ world.devs[d].paired /\ world.devs[d].connected \in connected
          THEN Go(next) /\ target' \in found
          ELSE (Go(stage) \/ Return(error)) /\ UNCHANGED target
  /\ UNCHANGED <<config, world, adapter, discovering, ancs, cancel, asked, stuck, changes, starts>>

WaitFails ==
  /\ at \in {"paired", "connected"}
  /\ Return(IF at = "paired" THEN "Pairing" ELSE "Connection")
  /\ UNCHANGED <<config, world, seen, adapter, target, discovering, ancs, cancel, asked, stuck, changes, starts>>

AlreadyConnected == seen.devs[target].connected
Remaining == ~config.existing \/ config.remaining

Connect == at = "connect" /\ ~config.existing /\ ~AlreadyConnected /\ Ask("connect", "connect", "connected", "Connection")
ConnectAvailableProfiles ==
  /\ at = "connect" /\ (config.existing \/ AlreadyConnected)
  /\ Remaining /\ Ask("connect", "profiles", "ancs", OrCancelled("Connection"))
ConnectNothing ==
  /\ at = "connect" /\ ~Remaining /\ Go("ancs")
  /\ UNCHANGED <<config, world, seen, adapter, target, discovering, ancs, cancel, asked, stuck, changes, starts>>

\* Dmn_AncsClient::start(), which on failure may leave its state Failed
AncsStart ==
  /\ at = "ancs"
  /\ IF cancel THEN Return("Cancelled") /\ UNCHANGED ancs
     ELSE \/ Go("started") /\ ancs' = "Ready"
          \/ Go("cleanup") /\ ancs' \in {"Failed", "Stopped"}
  /\ UNCHANGED <<config, world, seen, adapter, target, discovering, cancel, asked, stuck, changes, starts>>

AncsStarted ==
  /\ at = "started"
  /\ IF cancel THEN Go("cleanup") ELSE Return("session")
  /\ UNCHANGED <<config, world, seen, adapter, target, discovering, ancs, cancel, asked, stuck, changes, starts>>

Cleanup ==
  /\ at = "cleanup"
  /\ \/ Return("Cleanup") /\ ancs' = "Failed" /\ stuck' = TRUE
     \/ Return(OrCancelled("AncsStartup")) /\ ancs' = "Stopped" /\ UNCHANGED stuck
  /\ UNCHANGED <<config, world, seen, adapter, target, discovering, cancel, asked, changes, starts>>

Stop ==
  /\ at = "idle" /\ result = "session"
  /\ result' = "none" /\ ancs' = "Stopped"
  /\ UNCHANGED <<config, world, at, seen, adapter, target, discovering, cancel, asked, stuck, changes, starts>>

-----------------------------------------------------------------------------
(* the caller and BlueZ *)

Cancel ==
  /\ at # "idle" /\ ~cancel /\ cancel' = TRUE
  /\ UNCHANGED <<config, world, at, seen, adapter, target, discovering, ancs, asked, result, stuck, changes, starts>>

\* a session ends by itself
AncsFails ==
  /\ ancs = "Ready" /\ ancs' = "Failed"
  /\ UNCHANGED <<config, world, at, seen, adapter, target, discovering, cancel, asked, result, stuck, changes, starts>>

WorldChanges ==
  /\ changes < MaxChanges /\ changes' = changes + 1 /\ at # "idle"
  /\ \/ \E d \in Devices, state \in [paired: BOOLEAN, connected: BOOLEAN] : world' = [world EXCEPT !.devs = d :> state @@ @]
     \/ \E d \in DOMAIN world.devs : world' = [world EXCEPT !.devs = Restrict(@, DOMAIN @ \ {d})]
     \/ \E a \in DOMAIN world.powered : world' = [world EXCEPT !.powered[a] = ~@]
  /\ world' # world
  /\ UNCHANGED <<config, at, seen, adapter, target, discovering, ancs, cancel, asked, result, stuck, starts>>

-----------------------------------------------------------------------------
Init ==
  /\ config \in Configs /\ world = config.world /\ seen = world
  /\ at = "idle" /\ adapter = None /\ target = None /\ result = "none"
  /\ discovering = FALSE /\ ancs = "Stopped" /\ cancel = FALSE /\ asked = {} /\ stuck = FALSE
  /\ changes = 0 /\ starts = 0

Discover == DiscoverStart \/ DiscoverPoll \/ DiscoverStop
Reach ==
  \/ Pair \/ WaitForDeviceState("paired", BOOLEAN, "connect", "Pairing")
  \/ Connect \/ WaitForDeviceState("connected", {TRUE}, "ancs", "Connection") \/ WaitFails
  \/ ConnectAvailableProfiles \/ ConnectNothing
Next ==
  \/ Start \/ InventoryFails \/ Inventory \/ Discover \/ InventoryAgain \/ Reach
  \/ AncsStart \/ AncsStarted \/ Cleanup \/ Stop
  \/ Cancel \/ AncsFails \/ WorldChanges

Spec == Init /\ [][Next]_vars
-----------------------------------------------------------------------------
\* A start that fails leaves nothing behind: no discovery session and no ANCS
\* session that it began, unless the call that should have ended it failed.
FailedStartCleans ==
  result \notin {"none", "session", "refused"} /\ ~stuck => ~discovering /\ ancs = "Stopped"

\* A session is handed out only for a device that the last inventory said was
\* paired and connected, never to a caller who has cancelled, and one that
\* wants an existing connection only has made none.
SessionEarned ==
  [][result' = "session" /\ result # "session" =>
       /\ ~cancel
       /\ target \in DOMAIN seen.devs /\ seen.devs[target].paired /\ seen.devs[target].connected
       /\ Info[target].adapter = adapter /\ config.adapter \in {AnyAdapter, adapter}
       /\ config.existing => asked \subseteq {"profiles"}]_vars
=============================================================================
