----------------------------- MODULE BluezClient ----------------------------
(***************************************************************************)
(* Dmn_BluezClient: a mirror of the adapters and devices of the BlueZ      *)
(* daemon, kept by signals and re-read by snapshots.  Messages of the      *)
(* daemon arrive in order; signals wait in a bounded queue for the         *)
(* callback thread.  snapshot() runs on a caller's or on the recovery      *)
(* thread, one at a time.  A step is one region under m_mutex.             *)
(***************************************************************************)
EXTENDS Integers, Sequences, SequencesExt, FiniteSets, TLC

CONSTANTS
  Adapters, Devices,     \* object paths
  AdapterOf,             \* device path -> adapter path
  Addresses,             \* device path -> the addresses it may have
  MaxCallbacks,          \* signals the D-Bus client queues
  MaxStaged,             \* s_maxStagedSignals
  MaxEvents,             \* s_maxQueuedEvents
  Workloads              \* bounds: [changes, restarts, snapshots, faults, discovers, acts, closes]

VARIABLES
  load,
  bluez,    \* the daemon: [up, objects, discovering, call]
  wire,     \* its messages under way, in order
  calls,    \* signals queued for the callback thread
  dropped,  \* signals the D-Bus client had no room for
  callback, \* callback thread: [at, events]
  inv,      \* the inventory and its flags
  snap,     \* the snapshot in progress: [at, who, before, objects, left]
  recovery, \* recovery thread: idle, snapshot, emit or stopped
  events,   \* number of events queued for the handler
  seeker,   \* startDiscovery()/stopDiscovery(): [at, adapter]
  action,   \* deviceAction(): [at, path, kind]
  closing,  \* the destructor: no, begun or done
  done      \* how often each bounded thing has happened

vars == <<load, bluez, wire, calls, dropped, callback, inv, snap, recovery, events, seeker, action, closing, done>>

Count(what) == done' = [done EXCEPT ![what] = @ + 1]
Within(what) == done[what] < load[what]
Without(f, keys) == [k \in DOMAIN f \ keys |-> f[k]]
NoPath == "none"

-----------------------------------------------------------------------------
(* the inventory *)

NoDiscovery == [active |-> FALSE, starting |-> FALSE, adapter |-> NoPath]

\* what every failure does: the mirror is dropped and marked unavailable
Cleared(i) == [i EXCEPT !.available = FALSE, !.adapters = <<>>, !.devices = <<>>, !.paths = <<>>]

CleanSlate(i) == [Cleared(i) EXCEPT !.loading = FALSE, !.overflow = FALSE, !.staged = <<>>]

\* the adapter's address where it is known, else its path; likewise for the device
DeviceIdentity(i, path, device) ==
  << IF AdapterOf[path] \in DOMAIN i.adapters THEN i.adapters[AdapterOf[path]].address ELSE AdapterOf[path],
     IF device.address = "" THEN path ELSE device.address >>

\* storeDevice(): one record per identity, one identity per path
StoreDevice(i, path, device) ==
  LET id == DeviceIdentity(i, path, device)
      existing == id \in DOMAIN i.devices
      otherPath == IF existing THEN {i.devices[id].path} \ {path} ELSE {}
      otherId == IF path \in DOMAIN i.paths THEN {i.paths[path]} \ {id} ELSE {}
      seen == device.seen \/ (existing /\ i.devices[id].seen)
  IN [i EXCEPT !.paths = (path :> id) @@ Without(@, otherPath),
               !.devices = (id :> [device EXCEPT !.path = path, !.seen = seen]) @@ Without(@, otherId)]

Discovering(i, path) == (i.discovery.active \/ i.discovery.starting) /\ AdapterOf[path] = i.discovery.adapter

NameOwnerChanged(i, s) ==
  LET lost == IF s.lost THEN [Cleared(i) EXCEPT !.discovery = NoDiscovery] ELSE i
  IN IF s.new THEN [lost EXCEPT !.recover = TRUE] ELSE lost

InterfacesAdded(i, s) ==
  IF s.path \in Adapters
    THEN [i EXCEPT !.adapters = (s.path :> s.of) @@ @]
    ELSE StoreDevice(i, s.path, [s.of EXCEPT !.seen = Discovering(i, s.path)])

InterfacesRemoved(i, s) ==
  IF s.path \in Adapters
    THEN [i EXCEPT !.adapters = Without(@, {s.path})]
    ELSE IF s.path \in DOMAIN i.paths
      THEN [i EXCEPT !.devices = Without(@, {i.paths[s.path]}), !.paths = Without(@, {s.path})]
      ELSE i

\* updateAdapter(), updateDevice(): a property that is sent is replaced, one that
\* is invalidated unknown (an address then empty), and any other stays
Updated(old, s) ==
  LET Change(p) == IF p \in DOMAIN s.changed THEN s.changed[p] ELSE IF p \in s.invalidated THEN "" ELSE old[p]
  IN [old EXCEPT !.address = Change("address"), !.on = Change("on"), !.paired = Change("paired")]

\* the properties of a device that is known; a new address re-files it
PropertiesChanged(i, s) ==
  CASE s.path \in Adapters /\ s.path \in DOMAIN i.adapters -> [i EXCEPT !.adapters[s.path] = Updated(@, s)]
    [] s.path \in Devices /\ s.path \in DOMAIN i.paths /\ i.paths[s.path] \in DOMAIN i.devices ->
         LET id == i.paths[s.path]
             device == [Updated(i.devices[id], s) EXCEPT !.path = s.path, !.seen = @ \/ Discovering(i, s.path)]
         IN IF DeviceIdentity(i, s.path, device) # id
              THEN StoreDevice([i EXCEPT !.devices = Without(@, {id})], s.path, device)
              ELSE [i EXCEPT !.devices[id] = device]
    [] OTHER -> i

\* a signal that does not decode changes nothing
ApplySignal(i, s) ==
  CASE s.member = "owner" -> NameOwnerChanged(i, s)
    [] s.member = "added" -> InterfacesAdded(i, s)
    [] s.member = "removed" -> InterfacesRemoved(i, s)
    [] s.member = "changed" -> PropertiesChanged(i, s)
    [] OTHER -> i

\* whether applySignal() has an event to emit
Emits(i, s) ==
  CASE s.member = "owner" -> s.lost
    [] s.member \in {"removed", "changed"} -> s.path \in DOMAIN i.adapters \cup DOMAIN i.paths
    [] OTHER -> TRUE

-----------------------------------------------------------------------------
(* the D-Bus client and the callback thread *)

Receive ==
  /\ wire # <<>>
  /\ wire' = Tail(wire)
  /\ LET m == Head(wire)
     IN IF m.member = "reply"
          THEN /\ snap' = IF snap.at = "wait"
                            THEN [snap EXCEPT !.at = "drain", !.objects = m.objects, !.valid = m.valid,
                                    !.left = Len(calls) + IF callback.at = "idle" THEN 0 ELSE 1]
                            ELSE snap
               /\ UNCHANGED <<calls, dropped>>
          ELSE /\ UNCHANGED snap
               /\ IF Len(calls) < MaxCallbacks
                    THEN calls' = Append(calls, m) /\ UNCHANGED dropped
                    ELSE dropped' = dropped + 1 /\ UNCHANGED calls
  /\ UNCHANGED <<load, bluez, callback, inv, recovery, events, seeker, action, closing, done>>

\* onSignal(): resynchronise after a loss, stage while loading, or apply
Signalled(i, s) ==
  CASE dropped # i.lastDropped ->
         LET lost == [Cleared(i) EXCEPT !.lastDropped = dropped, !.recover = TRUE]
         IN IF i.loading THEN [lost EXCEPT !.staged = <<>>, !.overflow = TRUE] ELSE lost
    [] dropped = i.lastDropped /\ i.loading ->
         IF Len(i.staged) >= MaxStaged
           THEN [Cleared(i) EXCEPT !.staged = <<>>, !.overflow = TRUE]
           ELSE [i EXCEPT !.staged = Append(@, s)]
    [] dropped = i.lastDropped /\ ~i.loading -> ApplySignal(i, s)

SignalEmits(i, s) ==
  CASE dropped # i.lastDropped -> TRUE
    [] dropped = i.lastDropped /\ i.loading -> Len(i.staged) >= MaxStaged
    [] dropped = i.lastDropped /\ ~i.loading -> Emits(i, s)

OnSignal ==
  /\ callback.at = "idle" /\ calls # <<>>
  /\ inv' = Signalled(inv, Head(calls))
  /\ calls' = Tail(calls)
  /\ callback' = [at |-> IF SignalEmits(inv, Head(calls)) THEN "emit" ELSE "end"]
  /\ UNCHANGED <<load, bluez, wire, dropped, snap, recovery, events, seeker, action, closing, done>>

\* emit(): an overflow of the event queue drops the mirror, too
Emit ==
  CASE closing = "done" -> UNCHANGED <<events, inv>>
    [] closing # "done" /\ events >= MaxEvents ->
         events' = 1 /\ inv' = [CleanSlate(inv) EXCEPT !.recover = TRUE]
    [] closing # "done" /\ events < MaxEvents -> events' = events + 1 /\ UNCHANGED inv

SignalEmit ==
  /\ callback.at = "emit"
  /\ Emit
  /\ callback' = [at |-> "end"]
  /\ UNCHANGED <<load, bluez, wire, calls, dropped, snap, recovery, seeker, action, closing, done>>

SignalEnd ==
  /\ callback.at = "end"
  /\ callback' = [at |-> "idle"]
  /\ snap' = IF snap.at = "drain" THEN [snap EXCEPT !.left = IF @ = 0 THEN 0 ELSE @ - 1] ELSE snap
  /\ UNCHANGED <<load, bluez, wire, calls, dropped, inv, recovery, events, seeker, action, closing, done>>

\* eventLoop(): the handler is given an event
HandleEvent ==
  /\ events > 0 /\ closing # "done"
  /\ events' = events - 1
  /\ UNCHANGED <<load, bluez, wire, calls, dropped, callback, inv, snap, recovery, seeker, action, closing, done>>

-----------------------------------------------------------------------------
(* snapshot() and the recovery thread *)

SnapBegin(who) ==
  /\ inv' = [inv EXCEPT !.loading = TRUE, !.overflow = FALSE, !.recover = @ /\ who # "recovery"]
  /\ snap' = [snap EXCEPT !.at = "wait", !.who = who, !.before = dropped]
  /\ bluez' = [bluez EXCEPT !.call = TRUE]
  /\ UNCHANGED <<load, wire, calls, dropped, callback, events, seeker, action, closing>>

Snapshot ==
  /\ snap.at = "idle" /\ closing = "no" /\ Within("snapshots") /\ Count("snapshots")
  /\ SnapBegin("caller") /\ UNCHANGED recovery

RecoveryBegin ==
  /\ recovery = "idle" /\ snap.at = "idle" /\ inv.recover /\ closing = "no"
  /\ SnapBegin("recovery") /\ recovery' = "snapshot" /\ UNCHANGED done

\* no reply: a timeout, or nobody to answer
SnapNoReply ==
  /\ snap.at = "wait"
  /\ \/ ~bluez.up /\ bluez.call /\ UNCHANGED done
     \/ Within("faults") /\ Count("faults")
  /\ bluez' = [bluez EXCEPT !.call = FALSE]
  /\ wire' = SelectSeq(wire, LAMBDA m : m.member # "reply")
  /\ snap' = [snap EXCEPT !.at = "drain", !.valid = FALSE, !.left = Len(calls) + IF callback.at = "idle" THEN 0 ELSE 1]
  /\ UNCHANGED <<load, calls, dropped, callback, inv, recovery, events, seeker, action, closing>>

OwnerLost(staged) == \E k \in DOMAIN staged : staged[k].member = "owner" /\ staged[k].lost

\* Mutant: staged signals are not applied to the objects of the reply.
LoadedUnstaged(i, objects) ==
  LET blank == [Cleared(i) EXCEPT !.adapters = [p \in DOMAIN objects \cap Adapters |-> objects[p]]]
  IN FoldSet(LAMBDA p, acc : StoreDevice(acc, p, objects[p]), blank, DOMAIN objects \cap Devices)

\* the objects of the reply, and the signals that came meanwhile on top
Loaded(i, objects) ==
  LET blank == [Cleared(i) EXCEPT !.adapters = [p \in DOMAIN objects \cap Adapters |-> objects[p]]]
      seen(p) == LET id == DeviceIdentity(blank, p, objects[p])
                 IN id \in DOMAIN i.devices /\ i.devices[id].seen
      stored == FoldSet(LAMBDA p, acc : StoreDevice(acc, p, [objects[p] EXCEPT !.seen = seen(p)]),
                        blank, DOMAIN objects \cap Devices)
  IN FoldLeft(ApplySignal, stored, i.staged)

SnapEnd ==
  /\ snap.at = "drain" /\ snap.left = 0 /\ callback.at # "emit"
  /\ inv' = IF ~snap.valid \/ dropped > snap.before \/ inv.overflow
              THEN CleanSlate(inv)
              ELSE LET i == [Loaded(inv, snap.objects) EXCEPT !.staged = <<>>, !.loading = FALSE]
                   IN IF OwnerLost(inv.staged) THEN Cleared(i) ELSE [i EXCEPT !.available = TRUE]
  /\ snap' = [snap EXCEPT !.at = "idle", !.objects = <<>>]
  /\ recovery' = IF snap.who = "recovery" THEN "emit" ELSE recovery
  /\ UNCHANGED <<load, bluez, wire, calls, dropped, callback, events, seeker, action, closing, done>>

RecoveryEmit ==
  /\ recovery = "emit"
  /\ Emit
  /\ recovery' = "idle"
  /\ UNCHANGED <<load, bluez, wire, calls, dropped, callback, snap, seeker, action, closing, done>>

-----------------------------------------------------------------------------
(* discovery and device actions *)

SetSeen(i, adapter, flags) ==
  [i EXCEPT !.discovery = flags,
            !.devices = [id \in DOMAIN @ |-> IF AdapterOf[@[id].path] = adapter THEN [@[id] EXCEPT !.seen = FALSE] ELSE @[id]]]

\* the checks, SetDiscoveryFilter, and the flag that discovery is starting
StartDiscovery(a) ==
  /\ seeker.at = "idle" /\ closing = "no" /\ Within("discovers") /\ Count("discovers")
  /\ a \in DOMAIN inv.adapters /\ inv.available /\ inv.adapters[a].on /\ ~inv.discovery.active
  /\ seeker' = [at |-> "starting", adapter |-> a]
  /\ inv' = SetSeen(inv, a, [active |-> inv.discovery.active, starting |-> TRUE, adapter |-> a])
  /\ UNCHANGED <<load, bluez, wire, calls, dropped, callback, snap, recovery, events, action, closing>>

StartDiscoveryEnd ==
  /\ seeker.at = "starting"
  /\ seeker' = [seeker EXCEPT !.at = "idle"]
  /\ IF bluez.up /\ seeker.adapter \in DOMAIN bluez.objects
       THEN /\ bluez' = [bluez EXCEPT !.discovering = seeker.adapter]
            /\ inv' = [inv EXCEPT !.discovery.active = TRUE, !.discovery.starting = FALSE]
       ELSE /\ inv' = SetSeen(inv, seeker.adapter, [NoDiscovery EXCEPT !.active = inv.discovery.active])
            /\ UNCHANGED bluez
  /\ UNCHANGED <<load, wire, calls, dropped, callback, snap, recovery, events, action, closing, done>>

\* an unsuccessful call leaves the session owned
StopDiscovery ==
  /\ seeker.at = "idle" /\ inv.discovery.active /\ closing # "done"
  /\ closing = "no" => Within("discovers")
  /\ IF closing = "no" THEN Count("discovers") ELSE UNCHANGED done
  /\ bluez.up /\ bluez.discovering = inv.discovery.adapter
  /\ bluez' = [bluez EXCEPT !.discovering = NoPath]
  /\ inv' = [inv EXCEPT !.discovery = NoDiscovery]
  /\ UNCHANGED <<load, wire, calls, dropped, callback, snap, recovery, events, seeker, action, closing>>

\* deviceAction(): exactly one device of the inventory matches the selector
Matches(selector) == {id \in DOMAIN inv.devices : inv.devices[id].path = selector \/ inv.devices[id].address = selector}

Requested(device, kind) ==
  CASE kind = "Pair" -> device.paired
    [] kind = "Connect" -> device.on
    [] kind = "Disconnect" -> ~device.on
    [] OTHER -> FALSE

DeviceAction(selector, kind) ==
  /\ action.at = "idle" /\ closing = "no" /\ Within("acts") /\ Count("acts")
  /\ inv.available /\ Cardinality(Matches(selector)) = 1
  /\ LET device == inv.devices[CHOOSE id \in Matches(selector) : TRUE]
     IN action' = IF Requested(device, kind) THEN action ELSE [at |-> "call", path |-> device.path, kind |-> kind]
  /\ UNCHANGED <<load, bluez, wire, calls, dropped, callback, inv, snap, recovery, events, seeker, closing>>

-----------------------------------------------------------------------------
(* ~Impl() *)

CloseBegin ==
  /\ closing = "no" /\ load.closes /\ (snap.at = "idle" \/ snap.who # "caller")
  /\ seeker.at = "idle" /\ action.at = "idle"
  /\ closing' = "begun"
  /\ UNCHANGED <<load, bluez, wire, calls, dropped, callback, inv, snap, recovery, events, seeker, action, done>>

CloseEnd ==
  /\ closing = "begun" /\ recovery = "idle" /\ snap.at = "idle"
  /\ ~inv.discovery.active \/ ~bluez.up \/ bluez.discovering # inv.discovery.adapter
  /\ closing' = "done"
  /\ calls' = <<>> /\ wire' = <<>>
  /\ UNCHANGED <<load, bluez, dropped, callback, inv, snap, recovery, events, seeker, action, done>>

-----------------------------------------------------------------------------
(* the daemon *)

Send(m) == wire' = IF closing = "done" THEN wire ELSE Append(wire, m)
Object(address, on, paired) == [address |-> address, on |-> on, paired |-> paired, seen |-> FALSE, path |-> NoPath]

\* the signal of a change carries what differs; an address that is gone is invalidated
Changed(p, old, new) ==
  LET differ == {f \in {"address", "on", "paired"} : old[f] # new[f]}
      gone == {f \in differ : f = "address" /\ new.address = ""}
  IN [member |-> "changed", path |-> p, changed |-> [f \in differ \ gone |-> new[f]], invalidated |-> gone]

Daemon == UNCHANGED <<load, calls, dropped, callback, inv, snap, recovery, events, seeker, closing>>

BluezAdds(p) ==
  /\ bluez.up /\ Within("changes") /\ Count("changes") /\ p \notin DOMAIN bluez.objects
  /\ p \in Devices => AdapterOf[p] \in DOMAIN bluez.objects
  /\ \E address \in Addresses[p] :
       LET o == Object(address, p \in Adapters, FALSE)
       IN /\ bluez' = [bluez EXCEPT !.objects = (p :> o) @@ @]
          /\ Send([member |-> "added", path |-> p, of |-> o])
  /\ Daemon /\ UNCHANGED action

BluezRemoves(p) ==
  /\ bluez.up /\ Within("changes") /\ Count("changes") /\ p \in DOMAIN bluez.objects
  /\ p \in Adapters => \A d \in DOMAIN bluez.objects \cap Devices : AdapterOf[d] # p
  /\ bluez' = [bluez EXCEPT !.objects = Without(@, {p}), !.discovering = IF @ = p THEN NoPath ELSE @]
  /\ Send([member |-> "removed", path |-> p])
  /\ Daemon /\ UNCHANGED action

\* a device gets another address, or connects or disconnects
BluezChanges(p) ==
  /\ bluez.up /\ Within("changes") /\ Count("changes") /\ p \in DOMAIN bluez.objects
  /\ \E address \in Addresses[p], on \in BOOLEAN :
       LET o == [bluez.objects[p] EXCEPT !.address = address, !.on = on]
       IN /\ o # bluez.objects[p]
          /\ bluez' = [bluez EXCEPT !.objects[p] = o]
          /\ Send(Changed(p, bluez.objects[p], o))
  /\ Daemon /\ UNCHANGED action

\* the call of a device action: done and signalled, or refused
BluezActs ==
  /\ action.at = "call"
  /\ action' = [action EXCEPT !.at = "idle"]
  /\ IF bluez.up /\ action.path \in DOMAIN bluez.objects
       THEN LET old == bluez.objects[action.path]
                o == CASE action.kind = "Pair" -> [old EXCEPT !.paired = TRUE]
                       [] action.kind \in {"Connect", "ConnectProfiles"} -> [old EXCEPT !.on = TRUE]
                       [] OTHER -> [old EXCEPT !.on = FALSE]
            IN /\ bluez' = [bluez EXCEPT !.objects[action.path] = o]
               /\ IF o = old THEN UNCHANGED wire ELSE Send(Changed(action.path, old, o))
       ELSE UNCHANGED <<bluez, wire>>
  /\ Daemon /\ UNCHANGED done

BluezReplies ==
  /\ bluez.up /\ bluez.call
  /\ bluez' = [bluez EXCEPT !.call = FALSE]
  /\ \/ Send([member |-> "reply", objects |-> bluez.objects, valid |-> TRUE]) /\ UNCHANGED done
     \/ Within("faults") /\ Count("faults") /\ Send([member |-> "reply", objects |-> <<>>, valid |-> FALSE])
  /\ Daemon /\ UNCHANGED action

BluezStops ==
  /\ bluez.up /\ Within("restarts") /\ Count("restarts")
  /\ bluez' = [bluez EXCEPT !.up = FALSE, !.objects = <<>>, !.discovering = NoPath]
  /\ Send([member |-> "owner", lost |-> TRUE, new |-> FALSE])
  /\ Daemon /\ UNCHANGED action

BluezStarts ==
  /\ ~bluez.up
  /\ bluez' = [bluez EXCEPT !.up = TRUE, !.objects = load.objects]
  /\ Send([member |-> "owner", lost |-> FALSE, new |-> TRUE])
  /\ Daemon /\ UNCHANGED <<action, done>>

BluezGarbage ==
  /\ bluez.up /\ Within("faults") /\ Count("faults")
  /\ Send([member |-> "garbage"])
  /\ Daemon /\ UNCHANGED <<action, bluez>>

-----------------------------------------------------------------------------
Init ==
  /\ load \in Workloads
  /\ bluez = [up |-> TRUE, objects |-> load.objects, discovering |-> NoPath, call |-> FALSE]
  /\ wire = <<>> /\ calls = <<>> /\ dropped = 0
  /\ callback = [at |-> "idle"]
  /\ inv = [available |-> FALSE, adapters |-> <<>>, devices |-> <<>>, paths |-> <<>>, loading |-> TRUE,
            overflow |-> FALSE, staged |-> <<>>, lastDropped |-> 0, recover |-> FALSE, discovery |-> NoDiscovery]
  /\ snap = [at |-> "idle", who |-> NoPath, before |-> 0, objects |-> <<>>, valid |-> TRUE, left |-> 0]
  /\ recovery = "idle" /\ events = 0
  /\ seeker = [at |-> "idle", adapter |-> NoPath]
  /\ action = [at |-> "idle", path |-> NoPath, kind |-> "Pair"]
  /\ closing = "no"
  /\ done = [changes |-> 0, restarts |-> 0, snapshots |-> 0, faults |-> 0, discovers |-> 0, acts |-> 0]

Next ==
  \/ Receive \/ OnSignal \/ SignalEmit \/ SignalEnd \/ HandleEvent
  \/ Snapshot \/ RecoveryBegin \/ SnapNoReply \/ SnapEnd \/ RecoveryEmit
  \/ \E a \in Adapters : StartDiscovery(a)
  \/ StartDiscoveryEnd \/ StopDiscovery
  \/ \E d \in Devices, kind \in {"Pair", "Connect", "Disconnect", "ConnectProfiles", "CancelConnection"} :
       \E selector \in {d} \cup Addresses[d] : DeviceAction(selector, kind)
  \/ CloseBegin \/ CloseEnd
  \/ \E p \in Adapters \cup Devices : BluezAdds(p) \/ BluezRemoves(p) \/ BluezChanges(p)
  \/ BluezActs \/ BluezReplies \/ BluezStops \/ BluezStarts \/ BluezGarbage

Spec == Init /\ [][Next]_vars
-----------------------------------------------------------------------------
Mirrored == inv.adapters @@ [p \in DOMAIN inv.paths |-> [inv.devices[inv.paths[p]] EXCEPT !.seen = FALSE, !.path = NoPath]]

\* Nothing is under way that could still change the mirror.
Settled ==
  /\ closing # "done" /\ wire = <<>> /\ calls = <<>> /\ callback.at = "idle"
  /\ snap.at = "idle" /\ ~inv.recover /\ dropped = inv.lastDropped

\* Whatever raced with it, a mirror that is available and has settled is the
\* inventory of the daemon, as long as the D-Bus client has dropped no signal.
MirrorExact == (inv.available /\ Settled /\ dropped = 0) => Mirrored = bluez.objects

\* The index by path and the records by identity are inverse to each other, so
\* that each device is listed once, under its present path.
IndexExact ==
  /\ \A p \in DOMAIN inv.paths : inv.paths[p] \in DOMAIN inv.devices /\ inv.devices[inv.paths[p]].path = p
  /\ \A id \in DOMAIN inv.devices :
       inv.devices[id].path \in DOMAIN inv.paths /\ inv.paths[inv.devices[id].path] = id
=============================================================================
