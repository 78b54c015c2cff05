----------------------------- MODULE MCBluetooth -----------------------------
(***************************************************************************)
(* The Bluetooth clients: each behaviour is about one of the ANCS client   *)
(* (the variables of AncsClient), the GATT client (those of GattClient),   *)
(* the BlueZ client and the monitor that uses the three.  The others stay  *)
(* in their initial state.                                                 *)
(***************************************************************************)
EXTENDS MCAncsClient, GattClient

VARIABLES
  part,
  bluezLoad, bluez, wire, calls, dropped, callback, inv, snap, recovery, events, seeker,
  action, closing, done,
  config, world, at, seen, adapter, target, discovering, ancs, cancel, asked, result, stuck,
  changes, starts

bluezVars == <<bluezLoad, bluez, wire, calls, dropped, callback, inv, snap, recovery, events,
               seeker, action, closing, done>>
monitorVars == <<config, world, at, seen, adapter, target, discovering, ancs, cancel, asked,
                 result, stuck, changes, starts>>
-----------------------------------------------------------------------------
(* BlueZ: one adapter, and two devices of which one may have no address.   *)

Devices == {"d1", "d2"}
Object(address, on) == [address |-> address, on |-> on, paired |-> FALSE, seen |-> FALSE, path |-> "none"]
BluezQuiet ==
  [objects |-> ("a1" :> Object("A1", TRUE)) @@ ("d1" :> Object("X", FALSE)),
   changes |-> 0, restarts |-> 0, snapshots |-> 1, faults |-> 0, discovers |-> 0, acts |-> 0, closes |-> FALSE]

BluezWorkloads ==
  { [BluezQuiet EXCEPT !.changes = 3],
    [BluezQuiet EXCEPT !.changes = 1, !.restarts = 1, !.snapshots = 2],
    [BluezQuiet EXCEPT !.changes = 1, !.faults = 1],
    [BluezQuiet EXCEPT !.discovers = 2, !.restarts = 1, !.closes = TRUE],
    [BluezQuiet EXCEPT !.objects = "a1" :> Object("A1", TRUE), !.changes = 2],
    [BluezQuiet EXCEPT !.acts = 1, !.changes = 1] }

Bluez == INSTANCE BluezClient WITH
  Adapters <- {"a1"}, AdapterOf <- ("d1" :> "a1") @@ ("d2" :> "a1"),
  Addresses <- ("a1" :> {"A1"}) @@ ("d1" :> {"", "X"}) @@ ("d2" :> {"Y"}),
  MaxCallbacks <- 2, MaxStaged <- 2, MaxEvents <- 2, Workloads <- BluezWorkloads,
  load <- bluezLoad
-----------------------------------------------------------------------------
(* GATT: a notification, a wait for services, a write, and a device that   *)
(* comes and goes.                                                         *)

GattQuiet == [resolved |-> TRUE, notifies |-> 0, waits |-> 0, stops |-> 0, writes |-> 0, changes |-> 0, faults |-> 0]

SomeGattWorkloads ==
  { [GattQuiet EXCEPT !.notifies = 2, !.stops = 2, !.changes = 3, !.faults = 1],
    [GattQuiet EXCEPT !.waits = 2, !.changes = 3, !.faults = 1],
    [GattQuiet EXCEPT !.waits = 1, !.changes = 4, !.resolved = FALSE],
    [GattQuiet EXCEPT !.notifies = 1, !.writes = 1, !.changes = 2, !.faults = 1] }
-----------------------------------------------------------------------------
(* Monitor: two adapters, a device seen by both, and one without address.  *)

Phones ==
  "d1" :> [adapter |-> "hci0", name |-> "phone", address |-> "aa"] @@
  "d2" :> [adapter |-> "hci1", name |-> "phone", address |-> "aa"] @@
  "d3" :> [adapter |-> "hci0", name |-> "phone", address |-> "none"]
One == "hci0" :> TRUE
Two == "hci0" :> TRUE @@ "hci1" :> TRUE
NoDevice == [d \in {} |-> [paired |-> FALSE, connected |-> FALSE]]
Phone(d, ready) == d :> [paired |-> ready, connected |-> ready]

Config(selector, byAddress, on, existing, remaining, powered, devs) ==
  [selector |-> selector, byAddress |-> byAddress, adapter |-> on, existing |-> existing,
   remaining |-> remaining, world |-> [powered |-> powered, devs |-> devs]]

MonitorConfigs ==
  { Config("aa", TRUE, "any", FALSE, FALSE, One, NoDevice),
    Config("phone", FALSE, "any", FALSE, FALSE, One, NoDevice),
    Config("aa", TRUE, "hci0", FALSE, FALSE, Two, Phone("d1", FALSE)),
    Config("phone", FALSE, "any", FALSE, FALSE, Two, Phone("d3", FALSE)),
    Config("aa", TRUE, "hci1", FALSE, FALSE, One, NoDevice),
    Config("aa", TRUE, "any", TRUE, FALSE, Two, Phone("d1", TRUE)),
    Config("aa", TRUE, "hci0", TRUE, TRUE, Two, Phone("d1", TRUE)) }

Mon == INSTANCE Monitor WITH
  Adapters <- {"hci0", "hci1"}, Info <- Phones, NoAddress <- "none", Configs <- MonitorConfigs,
  AnyAdapter <- "any", None <- "nothing", MaxChanges <- 2, MaxStarts <- 2
-----------------------------------------------------------------------------
First(S) == CHOOSE x \in S : TRUE

MCInit ==
  /\ part \in {"ancs", "bluez", "gatt", "monitor"}
  /\ Init /\ Bluez!Init /\ GattInit /\ Mon!Init
  /\ part # "ancs" => load = First(Workloads)
  /\ part # "bluez" => bluezLoad = First(BluezWorkloads)
  /\ part # "gatt" => gattLoad = First(GattWorkloads)
  /\ part # "monitor" => config = First(MonitorConfigs)

MCNext ==
  \/ part = "ancs" /\ Next /\ UNCHANGED <<part, bluezVars, gattVars, monitorVars>>
  \/ part = "bluez" /\ Bluez!Next /\ UNCHANGED <<part, vars, gattVars, monitorVars>>
  \/ part = "gatt" /\ GattNext /\ UNCHANGED <<part, vars, bluezVars, monitorVars>>
  \/ part = "monitor" /\ Mon!Next /\ UNCHANGED <<part, vars, bluezVars, gattVars>>

MCFairness ==
  /\ WF_vars(part = "ancs" /\ Starter) /\ WF_vars(part = "ancs" /\ Stopper)
  /\ WF_vars(part = "ancs" /\ Writer) /\ WF_vars(part = "ancs" /\ Worker)
  /\ WF_vars(part = "ancs" /\ PhoneAnswers)

MCSpec == MCInit /\ [][MCNext]_<<part, vars, bluezVars, gattVars, monitorVars>> /\ MCFairness
-----------------------------------------------------------------------------
\* Dmn_BluezClient: whatever raced with it, a mirror that is available and has
\* settled is the inventory of the daemon, as long as no signal was dropped, and
\* each device is listed once, under its present path.
BluezMirror == Bluez!MirrorExact /\ Bluez!IndexExact

\* The monitor hands out a session only for a device that the last inventory
\* said was paired and connected, never to a caller who has cancelled, and
\* makes no connection for one who wants an existing connection only; a start
\* that fails leaves no discovery and no ANCS session behind, unless the call
\* that should have ended it failed.
MonitorHonest == Mon!SessionEarned /\ []Mon!FailedStartCleans
=============================================================================
