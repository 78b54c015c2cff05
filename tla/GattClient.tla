----------------------------- MODULE GattClient -----------------------------
(***************************************************************************)
(* Dmn_BluezGattClient: waiting for a device's services, discovering them, *)
(* notifications of a characteristic and acknowledged writes, all by calls *)
(* to BlueZ with a deadline.  Signals reach an observer when its match was *)
(* installed as they were sent and still is as they are delivered, one at  *)
(* a time.  One device, one characteristic.                                *)
(***************************************************************************)
EXTENDS Integers, Sequences, FiniteSets

CONSTANTS
  GattWorkloads   \* bounds: [resolved, notifies, waits, stops, writes, changes, faults]

ASSUME GattAssumption ==
  GattWorkloads \subseteq [resolved : BOOLEAN, notifies : Nat, waits : Nat, stops : Nat,
                          writes : Nat, changes : Nat, faults : Nat]

VARIABLES
  gattLoad,
  device,      \* BlueZ's view: [connected, resolved, present, notifying]
  signals,     \* signals under way: [kind, on, at, to]
  note,        \* the notification: [at, subs, invalidated, started, stopping]
  ender,       \* stopNotify(): idle or call
  wait,        \* waitForServicesResolved(): [at, subs, connected, resolved, failure, observed,
               \* readResolved, readConnected, result]
  gattWriter,  \* writeWithResponse(): idle, write, or its result
  told,        \* events given to the handler
  past,        \* history: a loss since StartNotify was called; the changes after which the
               \* device was last ready, and the last loss that the wait heard; the changes
               \* before its observers, and whether it heard a signal sent before them
  spent        \* how often each bounded thing has happened

gattVars == <<gattLoad, device, signals, note, ender, wait, gattWriter, told, past, spent>>

Within(what) == spent[what] < gattLoad[what]
Count(what) == spent' = [spent EXCEPT ![what] = @ + 1]
Observers == {"properties", "owner", "objects"}
Ready == device.connected /\ device.resolved

-----------------------------------------------------------------------------
(* startNotify() *)

\* a deadline has passed, or a call has failed
Fails == Within("faults") /\ Count("faults")

\* the observers are cancelled as startNotify() gives up before StartNotify
GiveUp == note' = [note EXCEPT !.at = "failed", !.subs = {}]

\* discover() and the checks of the characteristic
StartNotify ==
  /\ note.at \in {"idle", "failed", "stopped"} /\ Within("notifies")
  /\ LET fresh == [at |-> "subscribe", subs |-> {}, invalidated |-> FALSE, started |-> FALSE, stopping |-> FALSE]
     IN note' = IF Ready /\ device.present THEN fresh ELSE [fresh EXCEPT !.at = "failed"]
  /\ Count("notifies")
  /\ told' = <<>> /\ past' = [past EXCEPT !.lost = FALSE]
  /\ UNCHANGED <<gattLoad, device, signals, ender, wait, gattWriter>>

\* the observers are installed one after the other
InstallObserver ==
  /\ note.at = "subscribe"
  /\ LET next == CASE note.subs = {} -> "properties" [] note.subs = {"properties"} -> "owner" [] OTHER -> "objects"
     IN \/ /\ note' = [note EXCEPT !.subs = @ \cup {next}, !.at = IF next = "objects" THEN "call" ELSE @]
           /\ UNCHANGED spent
        \/ Fails /\ GiveUp
  /\ UNCHANGED <<gattLoad, device, signals, ender, wait, gattWriter, told, past>>

CallStartNotify ==
  /\ note.at = "call"
  /\ \/ device.present /\ device.connected
        /\ note' = [note EXCEPT !.at = "verify", !.started = ~note.invalidated]
        /\ device' = [device EXCEPT !.notifying = TRUE] /\ UNCHANGED spent
     \/ ~(device.present /\ device.connected) /\ GiveUp /\ UNCHANGED <<device, spent>>
     \/ Fails /\ GiveUp /\ UNCHANGED device
  /\ UNCHANGED <<gattLoad, signals, ender, wait, gattWriter, told, past>>

\* rollback(): stopNotify(), then the failure
Verify ==
  /\ note.at = "verify"
  /\ \/ note.invalidated /\ note' = [note EXCEPT !.at = "rollback"] /\ UNCHANGED spent
     \/ ~note.invalidated /\ UNCHANGED spent
        /\ note' = [note EXCEPT !.at = IF device.notifying THEN "confirm" ELSE "rollback"]
     \/ ~note.invalidated /\ Fails /\ note' = [note EXCEPT !.at = "rollback"]
  /\ UNCHANGED <<gattLoad, device, signals, ender, wait, gattWriter, told, past>>

\* the notification may have been invalidated as BlueZ was asked
Confirm ==
  /\ note.at = "confirm"
  /\ note' = [note EXCEPT !.at = IF note.invalidated THEN "rollback" ELSE "open"]
  /\ UNCHANGED <<gattLoad, device, signals, ender, wait, gattWriter, told, past, spent>>

-----------------------------------------------------------------------------
(* stopNotify(), of the handle or of the rollback *)

StopNotify ==
  /\ ender = "idle"
  /\ note.at = "rollback" \/ (note.at = "open" /\ Within("stops"))
  /\ IF note.at = "open" THEN Count("stops") ELSE UNCHANGED spent
  /\ IF ~note.started \/ note.invalidated \/ note.stopping
       THEN /\ note' = [note EXCEPT !.at = IF @ = "open" THEN "stopped" ELSE "failed", !.subs = {}]
            /\ UNCHANGED ender
       ELSE note' = [note EXCEPT !.stopping = TRUE] /\ ender' = "call"
  /\ UNCHANGED <<gattLoad, device, signals, wait, gattWriter, told, past>>

\* a failure keeps the notification, for another stop
StopNotifyEnd ==
  /\ ender = "call"
  /\ ender' = "idle"
  /\ \/ /\ device' = [device EXCEPT !.notifying = FALSE]
        /\ note' = [note EXCEPT !.started = FALSE, !.stopping = FALSE, !.subs = {},
                                !.at = IF @ = "open" THEN "stopped" ELSE "failed"]
        /\ UNCHANGED spent
     \/ /\ Fails /\ UNCHANGED device
        /\ note' = [note EXCEPT !.stopping = FALSE, !.at = IF @ = "rollback" THEN "failed" ELSE @,
                                !.subs = IF note.at = "rollback" THEN {} ELSE @]
  /\ UNCHANGED <<gattLoad, signals, wait, gattWriter, told, past>>

-----------------------------------------------------------------------------
(* waitForServicesResolved() *)

WaitBegin ==
  /\ wait.at \in {"idle", "end"} /\ Within("waits") /\ Count("waits")
  /\ wait' = [at |-> "subscribe", subs |-> {}, connected |-> "unknown", resolved |-> "unknown", failure |-> FALSE,
              observed |-> FALSE, readResolved |-> "unknown", readConnected |-> "unknown", result |-> "none"]
  /\ past' = [past EXCEPT !.ready = IF Ready THEN spent.changes ELSE -1, !.loss = -1, !.stale = FALSE]
  /\ UNCHANGED <<gattLoad, device, signals, note, ender, gattWriter, told>>

WaitEnd(result) == wait' = [wait EXCEPT !.at = "end", !.subs = {}, !.result = result]

WaitSubscribe ==
  /\ wait.at = "subscribe"
  /\ \/ /\ wait' = [wait EXCEPT !.subs = Observers, !.at = "resolved"]
        /\ past' = [past EXCEPT !.since = spent.changes] /\ UNCHANGED spent
     \/ Fails /\ WaitEnd("error") /\ UNCHANGED past
  /\ UNCHANGED <<gattLoad, device, signals, note, ender, gattWriter, told>>

Word(b) == IF b THEN "yes" ELSE "no"

\* getDeviceState(): ServicesResolved is read first, then Connected
WaitRead ==
  /\ wait.at \in {"resolved", "connected"}
  /\ \/ /\ device.present /\ UNCHANGED spent
        /\ wait' = IF wait.at = "resolved"
                     THEN [wait EXCEPT !.at = "connected", !.readResolved = Word(device.resolved)]
                     ELSE [wait EXCEPT !.at = "check", !.readConnected = Word(device.connected)]
     \/ ~device.present /\ WaitEnd("error") /\ UNCHANGED spent
     \/ Fails /\ WaitEnd("error")
  /\ UNCHANGED <<gattLoad, device, signals, note, ender, gattWriter, told, past>>

\* Mutant: what was read counts before what signals said.
KnownByRead(w) == [w EXCEPT !.connected = w.readConnected, !.resolved = w.readResolved]

\* what signals said counts before what was read
Known(w) == [w EXCEPT !.connected = IF @ = "unknown" THEN w.readConnected ELSE @,
                      !.resolved = IF @ = "unknown" THEN w.readResolved ELSE @]

Verdict(w) ==
  CASE w.failure -> "error"
    [] ~w.failure /\ w.connected = "yes" /\ w.resolved = "yes" -> "ok"
    [] ~w.failure /\ w.connected = "no" /\ w.observed -> "disconnected"
    [] OTHER -> "none"

WaitCheck ==
  /\ wait.at = "check"
  /\ LET w == Known(wait)
     IN wait' = IF Verdict(w) = "none" THEN [w EXCEPT !.at = "sleep"]
                ELSE [w EXCEPT !.at = "end", !.subs = {}, !.result = Verdict(w)]
  /\ UNCHANGED <<gattLoad, device, signals, note, ender, gattWriter, told, past, spent>>

WaitTimeout ==
  /\ wait.at = "sleep"
  /\ WaitEnd("timeout")
  /\ UNCHANGED <<gattLoad, device, signals, note, ender, gattWriter, told, past, spent>>

-----------------------------------------------------------------------------
(* the callbacks *)

WaitGets(s) == \E o \in wait.subs : <<"wait", o>> \in s.to

\* the wait's: they store, and wake a waiter that sleeps
WaitHears(s) ==
  IF ~WaitGets(s) THEN UNCHANGED wait
  ELSE LET w == CASE s.kind = "connected" -> [wait EXCEPT !.connected = Word(s.on), !.observed = TRUE]
                  [] s.kind = "resolved" -> [wait EXCEPT !.resolved = Word(s.on)]
                  [] s.kind \in {"owner", "removed"} -> [wait EXCEPT !.failure = TRUE]
                  [] OTHER -> wait
       IN wait' = IF wait.at = "sleep" THEN [w EXCEPT !.at = "check"] ELSE w

Loss(s) == s.kind \in {"owner", "removed"} \/ (s.kind \in {"connected", "resolved"} /\ ~s.on)

Observer(s) == CASE s.kind = "owner" -> "owner" [] s.kind = "removed" -> "objects" [] OTHER -> "properties"

\* the notification's: values until the first loss, which is told once
NoteHears(s) ==
  IF Observer(s) \notin note.subs \/ <<"note", Observer(s)>> \notin s.to \/ note.invalidated
    THEN UNCHANGED <<note, told>>
    ELSE /\ note' = IF Loss(s) THEN [note EXCEPT !.invalidated = TRUE] ELSE note
         /\ told' = IF Loss(s) THEN Append(told, "invalidated")
                    ELSE IF s.kind = "value" THEN Append(told, "value") ELSE told

\* what the wait has heard of
Heard(s) ==
  IF ~WaitGets(s) THEN past
  ELSE [past EXCEPT !.loss = IF Loss(s) THEN s.at ELSE @, !.stale = @ \/ s.at <= past.since]

Deliver ==
  /\ signals # <<>>
  /\ signals' = Tail(signals)
  /\ WaitHears(Head(signals))
  /\ NoteHears(Head(signals))
  /\ past' = Heard(Head(signals))
  /\ UNCHANGED <<gattLoad, device, ender, gattWriter, spent>>

-----------------------------------------------------------------------------
(* writeWithResponse() *)

Write ==
  /\ gattWriter \in {"idle", "written", "refused"} /\ Within("writes") /\ Count("writes")
  /\ gattWriter' = IF Ready /\ device.present THEN "write" ELSE "refused"
  /\ UNCHANGED <<gattLoad, device, signals, note, ender, wait, told, past>>

WriteEnd ==
  /\ gattWriter = "write"
  /\ \/ device.present /\ device.connected /\ gattWriter' = "written" /\ UNCHANGED spent
     \/ ~(device.present /\ device.connected) /\ gattWriter' = "refused" /\ UNCHANGED spent
     \/ Fails /\ gattWriter' = "refused"
  /\ UNCHANGED <<gattLoad, device, signals, note, ender, wait, told, past>>

-----------------------------------------------------------------------------
(* BlueZ *)

Signal(kind, on) == [kind |-> kind, on |-> on, at |-> spent.changes + 1,
                     to |-> ({"note"} \X note.subs) \cup ({"wait"} \X wait.subs)]

\* a loss once StartNotify is called, or about to be
MarkLoss == past' = [past EXCEPT !.lost = @ \/ note.at \in {"call", "verify", "confirm", "open"}]

\* the services go with the connection, and are said to be gone first
DeviceDisconnects ==
  /\ device.connected /\ Within("changes") /\ Count("changes")
  /\ device' = [device EXCEPT !.connected = FALSE, !.resolved = FALSE, !.notifying = FALSE]
  /\ signals' = signals \o (IF device.resolved THEN <<Signal("resolved", FALSE)>> ELSE <<>>) \o <<Signal("connected", FALSE)>>
  /\ MarkLoss
  /\ UNCHANGED <<gattLoad, note, ender, wait, gattWriter, told>>

DeviceUnresolves ==
  /\ device.resolved /\ Within("changes") /\ Count("changes")
  /\ device' = [device EXCEPT !.resolved = FALSE, !.notifying = FALSE]
  /\ signals' = Append(signals, Signal("resolved", FALSE)) /\ MarkLoss
  /\ UNCHANGED <<gattLoad, note, ender, wait, gattWriter, told>>

DeviceReturns(what) ==
  /\ device.present /\ Within("changes") /\ Count("changes")
  /\ ~device[what] /\ (what = "resolved" => device.connected)
  /\ device' = [device EXCEPT ![what] = TRUE]
  /\ signals' = Append(signals, Signal(what, TRUE))
  /\ past' = IF device'.connected /\ device'.resolved THEN [past EXCEPT !.ready = spent.changes + 1] ELSE past
  /\ UNCHANGED <<gattLoad, note, ender, wait, gattWriter, told>>

DeviceVanishes(how) ==
  /\ device.present /\ Within("changes") /\ Count("changes")
  /\ device' = [connected |-> FALSE, resolved |-> FALSE, present |-> FALSE, notifying |-> FALSE]
  /\ signals' = Append(signals, Signal(how, FALSE)) /\ MarkLoss
  /\ UNCHANGED <<gattLoad, note, ender, wait, gattWriter, told>>

DeviceNotifies ==
  /\ device.notifying /\ Within("changes") /\ Count("changes")
  /\ signals' = Append(signals, Signal("value", TRUE))
  /\ UNCHANGED <<gattLoad, device, note, ender, wait, gattWriter, told, past>>

-----------------------------------------------------------------------------
GattInit ==
  /\ gattLoad \in GattWorkloads
  /\ device = [connected |-> TRUE, resolved |-> gattLoad.resolved, present |-> TRUE, notifying |-> FALSE]
  /\ signals = <<>>
  /\ note = [at |-> "idle", subs |-> {}, invalidated |-> FALSE, started |-> FALSE, stopping |-> FALSE]
  /\ ender = "idle"
  /\ wait = [at |-> "idle", subs |-> {}, connected |-> "unknown", resolved |-> "unknown", failure |-> FALSE,
             observed |-> FALSE, readResolved |-> "unknown", readConnected |-> "unknown", result |-> "none"]
  /\ gattWriter = "idle" /\ told = <<>>
  /\ past = [lost |-> FALSE, ready |-> -1, loss |-> -1, since |-> 0, stale |-> FALSE]
  /\ spent = [notifies |-> 0, waits |-> 0, stops |-> 0, writes |-> 0, changes |-> 0, faults |-> 0]

Notifier == InstallObserver \/ CallStartNotify \/ Verify \/ Confirm
Waiter == WaitSubscribe \/ WaitRead \/ WaitCheck \/ WaitTimeout

GattNext ==
  \/ StartNotify \/ Notifier \/ StopNotify \/ StopNotifyEnd
  \/ WaitBegin \/ Waiter
  \/ Deliver \/ Write \/ WriteEnd
  \/ DeviceDisconnects \/ DeviceUnresolves \/ DeviceNotifies
  \/ \E what \in {"connected", "resolved"} : DeviceReturns(what)
  \/ \E how \in {"owner", "removed"} : DeviceVanishes(how)

GattSpec == GattInit /\ [][GattNext]_gattVars
-----------------------------------------------------------------------------
\* No loss of the link goes unnoticed: of one since StartNotify was called,
\* an open notification has told its handler or is about to.
LossReported ==
  (note.at = "open" /\ past.lost /\ ~\E k \in DOMAIN signals : Loss(signals[k])) =>
    "invalidated" \in {told[k] : k \in DOMAIN told}

\* The handler is told of one loss, and of no value after it; an open
\* notification that was not lost is one BlueZ serves.
NotificationHonest ==
  /\ \A k \in DOMAIN told : told[k] = "invalidated" => k = Len(told)
  /\ (note.at = "open" /\ ~note.invalidated /\ ~past.lost) => device.notifying

\* A wait that succeeds is right: the device was connected with its services
\* resolved at a moment of the wait, later than any loss the wait has heard of,
\* unless it heard a signal that was sent, for an earlier wait, before it
\* subscribed: that counts for more than what it then read.
WaitTruthful == (wait.result = "ok" /\ ~past.stale) => past.ready >= 0 /\ past.ready > past.loss

\* Dmn_BluezGattClient: an open notification has told its handler of any loss of
\* the link since StartNotify was called, once and as the last thing; one that
\* was not lost is served by BlueZ; and a wait for services that succeeds is
\* right about a moment later than any loss it has heard of.
GattHonest == LossReported /\ NotificationHonest /\ WaitTruthful
=============================================================================
