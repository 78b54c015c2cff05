------------------------------- MODULE Engine -------------------------------
(***************************************************************************)
(* Dmn_Engine over the BlueZ backend.  One control thread runs batches of  *)
(* jobs and, after each batch, reconciles the monitors with what the user  *)
(* intends and tells the frontend.  Backend calls block, so each runs on a *)
(* worker that posts its outcome as a job.  Monitors end on their own and  *)
(* post an event.  Backing off is a flag: how long it lasts is left open.  *)
(***************************************************************************)
EXTENDS Integers, Sequences, FiniteSets, SequencesExt, TLC

CONSTANTS
  Devices,
  SelectionLimit,   \* devices that can be selected, at least one
  Workloads         \* bounds: [world, saved, intents, commands, changes, faults, refreshes]

NoDevice == "none"

VARIABLES
  load,
  inbox,     \* posted jobs
  batch,     \* the jobs of this pass that are still to run
  at,        \* the control thread: wait, jobs, shutdown, join, closed
  eng,       \* all that only the control thread changes, and the cancel flags it sets
  tasks,     \* the workers: [kind, dev, at, ok, inv]
  back,      \* the backend: its mutex, m_cancel_connect, and the monitors it holds
  world,     \* what BlueZ says of each device
  told,      \* the last state and persist messages
  done       \* commands sent, and how often each bounded thing has happened

vars == <<load, inbox, batch, at, eng, tasks, back, world, told, done>>

Within(what) == done[what] < load[what]
Count(what) == done' = [done EXCEPT ![what] = @ + 1]

Job(job, dev, ok, inv) == [job |-> job, dev |-> dev, ok |-> ok, inv |-> inv]
Post(job) == inbox' = IF at = "closed" THEN inbox ELSE Append(inbox, job)
Task(kind, dev) == [kind |-> kind, dev |-> dev, at |-> "new", ok |-> "none", inv |-> <<>>]
Spawn(e, kind, dev) == [e EXCEPT !.spawned = @ \cup {Task(kind, dev)}]

-----------------------------------------------------------------------------
(* the selection model *)

Absent == [present |-> FALSE, paired |-> FALSE, connected |-> FALSE]

\* mergeSavedDevices(): those present, and the saved ones that are not
Merge(entries, saved) ==
  LET present == {d \in DOMAIN entries : entries[d].present}
  IN [d \in present |-> entries[d]] @@ [d \in Range(saved) |-> Absent]

SetDraftSelected(e, d, on) ==
  CASE ~on -> [e EXCEPT !.draft = SelectSeq(@, LAMBDA x : x # d)]
    [] on /\ d \notin Range(e.draft) /\ Len(e.draft) < SelectionLimit
          /\ (d \in Range(e.saved) \/ (d \in DOMAIN e.entries /\ e.entries[d].present)) ->
         [e EXCEPT !.draft = Append(@, d)]
    [] OTHER -> e

Unsaved(e) == e.saved # e.draft
TargetReady(e, d) == d \in Range(e.saved) /\ e.entries[d].present /\ e.entries[d].paired
CanConnect(e, d) == TargetReady(e, d) /\ ~e.entries[d].connected /\ e.connecting # d
CanDisconnect(e, d) == TargetReady(e, d) /\ (e.entries[d].connected \/ e.connecting = d)
MonitoringRequested(e, d) == d \in e.intents \/ (e.sess[d].phase = "starting" /\ ~e.sess[d].cancel)
CanStartMonitoring(e, d) ==
  TargetReady(e, d) /\ e.entries[d].connected /\ ~Unsaved(e) /\ ~MonitoringRequested(e, d)

-----------------------------------------------------------------------------
(* the handlers, each from the state of the engine to its next *)

Dirty(e) == [e EXCEPT !.dirty = TRUE]
Phase(e, d, phase) == Dirty([e EXCEPT !.sess[d].phase = phase])

RefreshInventory(e) == IF e.inventoryBusy THEN e ELSE Spawn([e EXCEPT !.inventoryBusy = TRUE], "inventory", NoDevice)

Inventoried(e, j) ==
  LET f == Dirty([e EXCEPT !.inventoryBusy = FALSE])
  IN IF j.ok = "ok" THEN [f EXCEPT !.entries = Merge(j.inv, e.saved), !.adapters = TRUE] ELSE f

\* recordStartFailure(): only of a device that is meant to be monitored
RecordFailure(e, d) == IF d \in e.intents THEN [e EXCEPT !.backoff = @ \cup {d}] ELSE e
ResetRetries(e, ds) == [e EXCEPT !.backoff = @ \ ds]

RunDisconnect(e, d, stopFirst) ==
  IF e.connectionBusy THEN Dirty(e)
  ELSE LET f == Dirty([e EXCEPT !.connectionBusy = TRUE, !.disconnecting = d])
       IN IF stopFirst THEN Spawn(Phase(f, d, "stopping"), "stopDisconnect", d) ELSE Spawn(f, "disconnect", d)

ResumeDisconnect(e, d) ==
  IF ~e.sess[d].after \/ e.sess[d].phase \in {"starting", "stopping"} THEN e
  ELSE RunDisconnect([e EXCEPT !.sess[d].after = FALSE], d, e.sess[d].phase = "active")

StartMonitor(e, d) ==
  Spawn([Phase(e, d, "starting") EXCEPT !.sess[d].cancel = FALSE], "start", d)

FinishStart(e, j) ==
  ResumeDisconnect(
    CASE j.ok = "ok" -> ResetRetries(Phase(e, j.dev, "active"), {j.dev})
      [] j.ok = "cancelled" -> Phase(e, j.dev, "idle")
      [] OTHER -> RecordFailure(Phase(e, j.dev, "idle"), j.dev), j.dev)

StopMonitor(e, d) == Spawn(Phase(e, d, "stopping"), "stop", d)
Stopped(e, j) == ResumeDisconnect(Phase(e, j.dev, "idle"), j.dev)

HandleMonitorEvent(e, j) ==
  IF e.sess[j.dev].phase = "active" THEN RecordFailure(Phase(e, j.dev, "idle"), j.dev) ELSE e

HandleConfigure(e, j) ==
  LET saved == SubSeq(load.saved, 1, IF Len(load.saved) < SelectionLimit THEN Len(load.saved) ELSE SelectionLimit)
  IN Dirty([e EXCEPT !.saved = saved, !.draft = saved, !.entries = Merge(@, saved),
                     !.intents = load.intents \cap Range(saved)])

HandleScan(e, j) ==
  LET on == j.ok = "on"
  IN CASE e.scanBusy \/ e.scanning = on -> e
       [] ~e.scanBusy /\ on /\ ~e.scanning /\ ~e.adapters -> Dirty(e)
       [] OTHER -> Spawn(Dirty([e EXCEPT !.scanBusy = TRUE]), IF on THEN "scanOn" ELSE "scanOff", NoDevice)

Scanned(e, j) ==
  RefreshInventory(Dirty([e EXCEPT !.scanBusy = FALSE, !.scanning = IF j.ok = "ok" THEN ~@ ELSE @]))

HandleSelect(e, j) ==
  IF j.dev \in DOMAIN e.entries THEN Dirty(SetDraftSelected(e, j.dev, j.ok = "on")) ELSE e

HandleSave(e, j) ==
  LET kept == e.intents \cap Range(e.draft)
      f == [e EXCEPT !.saved = e.draft, !.entries = Merge(@, e.draft), !.intents = kept, !.persist = TRUE]
  IN Dirty(ResetRetries(f, e.intents \ kept))

HandleDiscard(e, j) == Dirty([e EXCEPT !.draft = e.saved, !.entries = Merge(@, e.saved)])

HandleConnect(e, j) ==
  CASE j.dev \notin DOMAIN e.entries -> e
    [] j.dev \in DOMAIN e.entries /\ (e.connectionBusy \/ ~CanConnect(e, j.dev)) -> Dirty(e)
    [] OTHER -> Spawn(Dirty([e EXCEPT !.connectionBusy = TRUE, !.connecting = j.dev]), "connect", j.dev)

Connected(e, j) == RefreshInventory(Dirty([e EXCEPT !.connectionBusy = FALSE, !.connecting = NoDevice]))

\* the intent goes, and the monitor is stopped before the device is let go
HandleDisconnect(e, j) ==
  LET d == j.dev
      f == ResetRetries([e EXCEPT !.intents = @ \ {d}, !.persist = @ \/ d \in e.intents], {d})
  IN CASE d \notin DOMAIN e.entries -> e
       [] d \in DOMAIN e.entries /\ e.connecting = d -> Spawn(Dirty(e), "cancel", d)
       [] d \in DOMAIN e.entries /\ e.connecting # d /\ e.connectionBusy -> Dirty(e)
       [] d \in DOMAIN e.entries /\ ~e.connectionBusy /\ ~CanDisconnect(e, d) -> e
       [] OTHER ->
            CASE e.sess[d].phase = "starting" -> Dirty([f EXCEPT !.sess[d].after = TRUE, !.sess[d].cancel = TRUE])
              [] e.sess[d].phase = "stopping" -> Dirty([f EXCEPT !.sess[d].after = TRUE])
              [] OTHER -> RunDisconnect(f, d, e.sess[d].phase = "active")

Disconnected(e, j) ==
  LET f == Dirty([e EXCEPT !.connectionBusy = FALSE, !.disconnecting = NoDevice])
  IN RefreshInventory(IF j.inv = <<"stopped">> THEN Phase(f, j.dev, "idle") ELSE f)

HandleMonitor(e, j) ==
  LET d == j.dev
      told1(f) == Dirty(ResetRetries([f EXCEPT !.persist = TRUE], {d}))
  IN CASE d \notin DOMAIN e.entries -> e
       [] d \in DOMAIN e.entries /\ j.ok = "on" ->
            IF d \in e.intents THEN e
            ELSE IF CanStartMonitoring(e, d) THEN told1([e EXCEPT !.intents = @ \cup {d}]) ELSE Dirty(e)
       [] d \in DOMAIN e.entries /\ j.ok # "on" ->
            told1([e EXCEPT !.intents = @ \ {d}, !.sess[d].cancel = @ \/ e.sess[d].phase = "starting"])

\* the direct monitor, of one device that need not be saved
HandleDirectStart(e, j) ==
  IF e.direct.dev # NoDevice THEN e
  ELSE Spawn([e EXCEPT !.direct = [dev |-> j.dev, phase |-> "starting", cancel |-> FALSE]], "directStart", j.dev)

DirectStarted(e, j) ==
  IF j.ok = "ok" THEN [e EXCEPT !.direct.phase = "active"]
  ELSE [e EXCEPT !.direct.dev = NoDevice, !.direct.phase = "idle"]

HandleDirectStop(e, j) ==
  CASE e.direct.phase = "starting" -> [e EXCEPT !.direct.cancel = TRUE]
    [] e.direct.phase = "active" -> Spawn([e EXCEPT !.direct.phase = "stopping"], "directStop", e.direct.dev)
    [] OTHER -> e

DirectStopped(e, j) == [e EXCEPT !.direct.dev = NoDevice, !.direct.phase = "idle"]

Handle(e, j) ==
  CASE j.job = "refresh" -> RefreshInventory(e)       [] j.job = "inventoried" -> Inventoried(e, j)
    [] j.job = "configure" -> HandleConfigure(e, j)   [] j.job = "scan" -> HandleScan(e, j)
    [] j.job = "scanned" -> Scanned(e, j)             [] j.job = "select" -> HandleSelect(e, j)
    [] j.job = "save" -> HandleSave(e, j)             [] j.job = "discard" -> HandleDiscard(e, j)
    [] j.job = "connect" -> HandleConnect(e, j)       [] j.job = "connected" -> Connected(e, j)
    [] j.job = "disconnect" -> HandleDisconnect(e, j) [] j.job = "disconnected" -> Disconnected(e, j)
    [] j.job = "monitor" -> HandleMonitor(e, j)       [] j.job = "event" -> HandleMonitorEvent(e, j)
    [] j.job = "started" -> FinishStart(e, j)         [] j.job = "stopped" -> Stopped(e, j)
    [] j.job = "directStart" -> HandleDirectStart(e, j) [] j.job = "directStarted" -> DirectStarted(e, j)
    [] j.job = "directStop" -> HandleDirectStop(e, j) [] j.job = "directStopped" -> DirectStopped(e, j)
    [] j.job = "shutdown" -> [e EXCEPT !.quit = TRUE]

\* Dmn_DeviceMonitorController::reconcile(), and the commands it gives
Wanted(e, d) == d \in e.intents /\ TargetReady(e, d) /\ e.entries[d].connected

Reconcile(e) ==
  LET listed == DOMAIN e.entries
      f == ResetRetries(e, {d \in listed : ~Wanted(e, d)})
      stops == {d \in listed : f.sess[d].phase = "active" /\ ~Wanted(f, d)}
      starts == {d \in listed : f.sess[d].phase = "idle" /\ Wanted(f, d) /\ d \notin f.backoff}
  IN FoldLeft(StartMonitor, FoldLeft(StopMonitor, f, SetToSeq(stops)), SetToSeq(starts))

-----------------------------------------------------------------------------
(* the control thread *)

\* what the state message says, and the persist message
View(e) == [entries |-> e.entries, saved |-> e.saved, draft |-> e.draft, intents |-> e.intents,
            phase |-> [d \in DOMAIN e.entries |-> e.sess[d].phase], busy |-> e.connectionBusy \/ e.scanBusy,
            scanning |-> e.scanning, pending |-> <<e.connecting, e.disconnecting>>]
Persisted(e) == [saved |-> e.saved, intents |-> e.intents]

Flush(e) == told' = [state |-> IF e.dirty THEN View(e) ELSE told.state,
                     persist |-> IF e.persist THEN Persisted(e) ELSE told.persist]

TakeBatch ==
  /\ at = "wait" /\ inbox # <<>>
  /\ batch' = inbox /\ inbox' = <<>> /\ at' = "jobs"
  /\ UNCHANGED <<load, eng, tasks, back, world, told, done>>

RunJob ==
  /\ at = "jobs" /\ batch # <<>>
  /\ LET e == Handle(eng, Head(batch))
     IN /\ eng' = [e EXCEPT !.spawned = {}]
        /\ tasks' = tasks \cup e.spawned
        /\ IF e.quit THEN at' = "shutdown" /\ batch' = <<>> ELSE batch' = Tail(batch) /\ UNCHANGED at
        /\ told' = IF Head(batch).job = "configure" THEN [told EXCEPT !.persist = Persisted(e)] ELSE told
  /\ UNCHANGED <<load, inbox, back, world, done>>

\* the end of a pass, and a pass without jobs after a tick
Pass ==
  /\ at = "jobs" /\ batch = <<>>
  /\ \E due \in BOOLEAN :
       /\ due => Within("refreshes") /\ ~eng.inventoryBusy
       /\ IF due THEN Count("refreshes") ELSE UNCHANGED done
       /\ LET e == Reconcile(IF due THEN RefreshInventory(eng) ELSE eng)
          IN /\ eng' = [e EXCEPT !.spawned = {}, !.dirty = FALSE, !.persist = FALSE]
             /\ tasks' = tasks \cup e.spawned
             /\ Flush(e)
  /\ at' = "wait"
  /\ UNCHANGED <<load, inbox, batch, back, world>>

Tick ==
  /\ at = "wait" /\ inbox = <<>>
  /\ Within("refreshes") \/ Reconcile(eng).spawned # {}
  /\ at' = "jobs"
  /\ UNCHANGED <<load, inbox, batch, eng, tasks, back, world, told, done>>

\* m_next_attempt is reached
BackoffEnds(d) ==
  /\ d \in eng.backoff
  /\ eng' = ResetRetries(eng, {d})
  /\ UNCHANGED <<load, inbox, batch, at, tasks, back, world, told, done>>

\* shutdown(): the starts are cancelled and the scan ends ...
Shutdown ==
  /\ at = "shutdown" /\ (eng.scanning => back.lock = "free")
  /\ eng' = [eng EXCEPT !.sess = [d \in Devices |-> [@[d] EXCEPT !.cancel = TRUE]], !.direct.cancel = TRUE]
  /\ world' = IF eng.scanning THEN [world EXCEPT !.discovering = FALSE] ELSE world
  /\ at' = "join"
  /\ UNCHANGED <<load, inbox, batch, tasks, back, told, done>>

\* ... and, once every worker has ended, the monitors, and the engine
Close ==
  /\ at = "join" /\ tasks = {}
  /\ LET stops == (IF eng.direct.phase = "active" THEN {eng.direct.dev} ELSE {})
                  \cup {d \in DOMAIN eng.entries : eng.sess[d].phase # "idle"}
     IN back' = [back EXCEPT !.held = [d \in Devices |-> IF d \in stops THEN "none" ELSE @[d]]]
  /\ at' = "closed"
  /\ UNCHANGED <<load, inbox, batch, eng, tasks, world, told, done>>

-----------------------------------------------------------------------------
(* the workers *)

Step(t, u) == tasks' = (tasks \ {t}) \cup {u}
Ends(t, ok) == Step(t, [t EXCEPT !.at = "post", !.ok = ok])
Fault == Within("faults") /\ Count("faults")
Idle == UNCHANGED <<load, batch, at, eng, told>>

Outcome(kind) ==
  CASE kind = "inventory" -> "inventoried" [] kind \in {"scanOn", "scanOff"} -> "scanned"
    [] kind = "connect" -> "connected" [] kind \in {"disconnect", "stopDisconnect"} -> "disconnected"
    [] kind = "start" -> "started" [] kind = "stop" -> "stopped"
    [] kind = "directStart" -> "directStarted" [] kind = "directStop" -> "directStopped"

WorkPost(t) ==
  /\ t.at = "post"
  /\ Post(Job(Outcome(t.kind), t.dev, t.ok, t.inv))
  /\ tasks' = tasks \ {t}
  /\ Idle /\ UNCHANGED <<back, world, done>>

\* snapshot(), of the devices there are
WorkInventory(t) ==
  /\ t.kind = "inventory" /\ t.at = "new" /\ back.lock = "free"
  /\ LET found == {d \in Devices : world.devs[d].present}
     IN \/ Step(t, [t EXCEPT !.at = "post", !.ok = "ok", !.inv = [d \in found |-> world.devs[d]]]) /\ UNCHANGED done
        \/ Fault /\ Ends(t, "failed")
  /\ Idle /\ UNCHANGED <<inbox, back, world>>

WorkScan(t) ==
  /\ t.kind \in {"scanOn", "scanOff"} /\ t.at = "new" /\ back.lock = "free"
  /\ \/ Ends(t, "ok") /\ world' = [world EXCEPT !.discovering = t.kind = "scanOn"] /\ UNCHANGED done
     \/ Fault /\ Ends(t, "failed") /\ UNCHANGED world
  /\ Idle /\ UNCHANGED <<inbox, back>>

\* changeConnection(): the mutex, the call, and the state it should lead to
WorkChangeBegin(t) ==
  /\ t.kind \in {"connect", "disconnect"} /\ t.at = "new" /\ back.lock = "free"
  /\ back' = [back EXCEPT !.lock = t.kind, !.cancelled = IF t.kind = "connect" THEN FALSE ELSE @]
  /\ Step(t, [t EXCEPT !.at = "call"])
  /\ Idle /\ UNCHANGED <<inbox, world, done>>

WorkChangeCall(t) ==
  /\ t.at = "call" /\ t.kind \in {"connect", "disconnect"}
  /\ \/ /\ world.devs[t.dev].present /\ Step(t, [t EXCEPT !.at = "poll", !.ok = "ok"])
        /\ world' = [world EXCEPT !.devs[t.dev].connected = t.kind = "connect"] /\ UNCHANGED done
     \/ ~world.devs[t.dev].present /\ Step(t, [t EXCEPT !.at = "poll", !.ok = "failed"]) /\ UNCHANGED <<world, done>>
     \/ Fault /\ Step(t, [t EXCEPT !.at = "poll", !.ok = "failed"]) /\ UNCHANGED world
  /\ Idle /\ UNCHANGED <<inbox, back>>

WorkChangeEnd(t) ==
  /\ t.at = "poll"
  /\ Ends(t, CASE t.kind = "connect" /\ back.cancelled -> "cancelled"
               [] ~(t.kind = "connect" /\ back.cancelled) /\ t.ok = "ok"
                  /\ world.devs[t.dev].connected = (t.kind = "connect") -> "ok"
               [] OTHER -> "failed")
  /\ back' = [back EXCEPT !.lock = "free"]
  /\ Idle /\ UNCHANGED <<inbox, world, done>>

\* cancelConnect() takes no mutex: the flag, then the call, which fails the attempt
WorkCancel(t) ==
  /\ t.kind = "cancel" /\ t.at = "new"
  /\ back' = [back EXCEPT !.cancelled = TRUE]
  /\ Step(t, [t EXCEPT !.at = "abort"])
  /\ Idle /\ UNCHANGED <<inbox, world, done>>

WorkCancelCall(t) ==
  /\ t.at = "abort"
  /\ tasks' = {IF u.kind = "connect" /\ u.at = "call" THEN [u EXCEPT !.at = "poll", !.ok = "failed"] ELSE u : u \in tasks \ {t}}
  /\ world' = [world EXCEPT !.devs[t.dev].connected = FALSE]
  /\ Idle /\ UNCHANGED <<inbox, back, done>>

Cancelled(t) == IF t.kind = "start" THEN eng.sess[t.dev].cancel ELSE eng.direct.cancel

\* startMonitor(): Dmn_AncsBluezMonitor::start()
WorkStart(t) ==
  /\ t.kind \in {"start", "directStart"} /\ t.at = "new"
  /\ \/ Cancelled(t) /\ Ends(t, "cancelled") /\ UNCHANGED done
     \/ /\ ~Cancelled(t) /\ UNCHANGED done
        /\ IF world.devs[t.dev].present /\ world.devs[t.dev].connected
             THEN Step(t, [t EXCEPT !.at = "ready", !.ok = "live"])
             ELSE Ends(t, "failed")
     \/ Fault /\ Ends(t, "failed")
  /\ Idle /\ UNCHANGED <<inbox, back, world>>

\* ... whose monitor is kept, or stopped after a cancellation
WorkStarted(t) ==
  /\ t.at = "ready"
  /\ IF Cancelled(t) THEN Ends(t, "cancelled") /\ UNCHANGED back
     ELSE Ends(t, "ok") /\ back' = [back EXCEPT !.held[t.dev] = t.ok]
  /\ Idle /\ UNCHANGED <<inbox, world, done>>

\* Mutant: a disconnection that forgets the monitor.
WorkStopSkipped(t) ==
  /\ t.kind \in {"stop", "directStop", "stopDisconnect"} /\ t.at = "new"
  /\ IF t.kind = "stopDisconnect"
       THEN Step(t, [t EXCEPT !.kind = "disconnect", !.inv = <<"stopped">>]) /\ UNCHANGED back
       ELSE Ends(t, "ok") /\ back' = [back EXCEPT !.held[t.dev] = "none"]
  /\ Idle /\ UNCHANGED <<inbox, world, done>>

\* stopMonitor(), by itself or before a disconnection
WorkStop(t) ==
  /\ t.kind \in {"stop", "directStop", "stopDisconnect"} /\ t.at = "new"
  /\ back' = [back EXCEPT !.held[t.dev] = "none"]
  /\ IF t.kind = "stopDisconnect" THEN Step(t, [t EXCEPT !.kind = "disconnect", !.inv = <<"stopped">>]) ELSE Ends(t, "ok")
  /\ Idle /\ UNCHANGED <<inbox, world, done>>

-----------------------------------------------------------------------------
(* the frontend, the devices and their monitors *)

Send(c) ==
  /\ c \in load.commands \ done.sent /\ at # "closed"
  /\ done' = [done EXCEPT !.sent = @ \cup {c}]
  /\ Post(Job(c.job, c.dev, c.ok, <<>>))
  /\ UNCHANGED <<load, batch, at, eng, tasks, back, world, told>>

\* BlueZ tells the backend of every change, which asks for a refresh
DeviceChanges(d) ==
  /\ Within("changes") /\ Count("changes")
  /\ \/ world.devs[d].present /\ world' = [world EXCEPT !.devs[d].connected = ~@]
     \/ world.devs[d].present /\ world' = [world EXCEPT !.devs[d] = Absent]
  /\ Post(Job("refresh", NoDevice, "none", <<>>))
  /\ UNCHANGED <<load, batch, at, eng, tasks, back, told>>

\* a monitor ends with its link, or by an error
MonitorDies(d) ==
  /\ IF world.devs[d].connected THEN Fault ELSE UNCHANGED done
  /\ \/ back.held[d] = "live" /\ back' = [back EXCEPT !.held[d] = "dead"] /\ UNCHANGED tasks
     \/ /\ UNCHANGED back
        /\ \E t \in tasks : t.dev = d /\ t.at = "ready" /\ t.ok = "live" /\ Step(t, [t EXCEPT !.ok = "dead"])
  /\ Post(Job("event", d, "none", <<>>))
  /\ UNCHANGED <<load, batch, at, eng, world, told>>

-----------------------------------------------------------------------------
Init ==
  /\ load \in Workloads
  /\ inbox = <<Job("configure", NoDevice, "none", <<>>)>> /\ batch = <<>> /\ at = "wait"
  /\ eng = [entries |-> <<>>, saved |-> <<>>, draft |-> <<>>, intents |-> {}, adapters |-> FALSE,
            sess |-> [d \in Devices |-> [phase |-> "idle", cancel |-> FALSE, after |-> FALSE]], backoff |-> {},
            inventoryBusy |-> TRUE, scanning |-> FALSE, scanBusy |-> FALSE, connectionBusy |-> FALSE,
            connecting |-> NoDevice, disconnecting |-> NoDevice,
            direct |-> [dev |-> NoDevice, phase |-> "idle", cancel |-> FALSE],
            dirty |-> TRUE, persist |-> FALSE, quit |-> FALSE, spawned |-> {}]
  /\ tasks = {Task("inventory", NoDevice)}
  /\ back = [lock |-> "free", cancelled |-> FALSE, held |-> [d \in Devices |-> "none"]]
  /\ world = [devs |-> load.world, discovering |-> FALSE]
  /\ told = [state |-> View(eng), persist |-> Persisted(eng)]
  /\ done = [sent |-> {}, changes |-> 0, faults |-> 0, refreshes |-> 0]

Control == TakeBatch \/ RunJob \/ Pass \/ Tick \/ Shutdown \/ Close
Work(t) ==
  \/ WorkPost(t) \/ WorkInventory(t) \/ WorkScan(t) \/ WorkChangeBegin(t) \/ WorkChangeCall(t) \/ WorkChangeEnd(t)
  \/ WorkCancel(t) \/ WorkCancelCall(t) \/ WorkStart(t) \/ WorkStarted(t) \/ WorkStop(t)

Next ==
  \/ Control
  \/ \E t \in tasks : Work(t)
  \/ \E c \in load.commands : Send(c)
  \/ \E d \in Devices : BackoffEnds(d) \/ DeviceChanges(d) \/ MonitorDies(d)

Spec == Init /\ [][Next]_vars

\* the control thread runs, and a backend call ends by its deadline
FairSpec == Spec /\ WF_vars(Control) /\ WF_vars(\E t \in tasks : Work(t))
-----------------------------------------------------------------------------
Settled == at = "wait" /\ inbox = <<>> /\ tasks = {}

\* Whenever the control thread sleeps, the last state message says what the
\* engine knows and does, and the last persist message what it should keep.
FrontendCurrent == at = "wait" /\ ~eng.dirty => told = [state |-> View(eng), persist |-> Persisted(eng)]

\* An idle session has no live monitor behind it: none is left running by a
\* cancelled or failed start, a stop, or a disconnection.
IdleIsSilent ==
  Settled => \A d \in Devices : (back.held[d] = "live" /\ eng.direct.dev # d) => eng.sess[d].phase = "active"

\* A manual disconnection lets the device go only after its monitor has
\* stopped, unless the user asked for a monitor again meanwhile.
StopsBeforeDisconnect ==
  \A t \in tasks : (t.kind = "disconnect" /\ t.at = "call" /\ back.held[t.dev] = "live") =>
    \E c \in done.sent : c.job = "monitor" /\ c.dev = t.dev /\ c.ok = "on"

\* A shutdown always completes: the starts it cancels, the workers it joins and
\* the backend calls in flight end, whatever they were doing.
Closed == at \notin {"shutdown", "join"}
Closes == <>[]Closed
=============================================================================
