-------------------------- MODULE GattClient_proofs -------------------------
(***************************************************************************)
(* GattClient for any workload: however often notifications are started    *)
(* and stopped, services waited for, and whatever the device does, no loss *)
(* of the link goes unnoticed and no wait succeeds without cause.          *)
(***************************************************************************)
EXTENDS GattClient, SequenceFacts

-----------------------------------------------------------------------------
(* The invariant.                                                          *)

Words == {"unknown", "yes", "no"}
Kinds == {"connected", "resolved", "owner", "removed", "value"}
Steps == {"subscribe", "call", "verify", "confirm", "open", "rollback", "idle", "failed", "stopped"}
SignalSet == [kind : Kinds, on : BOOLEAN, at : Nat, to : SUBSET ({"note", "wait"} \X Observers)]

DeviceSet == [connected : BOOLEAN, resolved : BOOLEAN, present : BOOLEAN, notifying : BOOLEAN]
NoteSet ==
  [at : Steps, subs : SUBSET Observers, invalidated : BOOLEAN, started : BOOLEAN,
   stopping : BOOLEAN]
WaitSet ==
  [at : {"idle", "subscribe", "resolved", "connected", "check", "sleep", "end"},
   subs : SUBSET Observers, connected : Words, resolved : Words, failure : BOOLEAN,
   observed : BOOLEAN, readResolved : Words, readConnected : Words,
   result : {"none", "ok", "error", "disconnected", "timeout"}]
PastSet == [lost : BOOLEAN, ready : Int, loss : Int, since : Nat, stale : BOOLEAN]
SpentSet ==
  [notifies : Nat, waits : Nat, stops : Nat, writes : Nat, changes : Nat, faults : Nat]

GattTypeOK ==
  /\ gattLoad \in GattWorkloads
  /\ device \in DeviceSet
  /\ signals \in Seq(SignalSet)
  /\ note \in NoteSet
  /\ ender \in {"idle", "call"}
  /\ wait \in WaitSet
  /\ gattWriter \in {"idle", "write", "written", "refused"}
  /\ told \in Seq({"value", "invalidated"})
  /\ past \in PastSet
  /\ spent \in SpentSet

Gained(s) == s.kind = "resolved" /\ s.on
Gone(s) == s.kind = "resolved" /\ ~s.on
Cut(s) == s.kind = "connected" /\ ~s.on

\* Signals tell the changes of the device in their order, the loss of the
\* services before that of the connection.
SignalsFit ==
  /\ device.resolved => device.connected
  /\ device.connected => device.present
  /\ \A k \in DOMAIN signals : signals[k].at <= spent.changes
  /\ \A i, k \in DOMAIN signals : i < k =>
       \/ signals[i].at < signals[k].at
       \/ (signals[i].at = signals[k].at /\ Loss(signals[i]) /\ Loss(signals[k]))
  /\ Ready => \A k \in DOMAIN signals : Loss(signals[k]) => signals[k].at < spent.changes
  /\ device.present /\ ~device.resolved =>
       \A i \in DOMAIN signals : Gained(signals[i]) => \E k \in DOMAIN signals : i < k /\ Gone(signals[k])
  /\ \A i, k \in DOMAIN signals : i < k /\ Gained(signals[i]) /\ Cut(signals[k]) =>
       \E j \in DOMAIN signals : i < j /\ j < k /\ Gone(signals[j])

Setup == {"call", "verify", "confirm", "open"}

\* From StartNotify on all observers are there, so a loss is told or under way
\* to one of them.
NoteFits ==
  /\ note.at \in Setup => note.subs = Observers
  /\ note.at = "subscribe" =>
       note.subs \in {{}, {"properties"}, {"properties", "owner"}} /\ ~past.lost
  /\ note.invalidated <=> \E k \in DOMAIN told : told[k] = "invalidated"
  /\ \A k \in DOMAIN told : told[k] = "invalidated" => k = Len(told)
  /\ note.at \in Setup /\ past.lost /\ ~note.invalidated =>
       \E k \in DOMAIN signals :
          Loss(signals[k]) /\ <<"note", Observer(signals[k])>> \in signals[k].to
  /\ note.at \in {"confirm", "open"} /\ ~past.lost => device.notifying

Waiting == {"resolved", "connected", "check", "sleep"}
KnownResolved == IF wait.resolved = "unknown" THEN wait.readResolved ELSE wait.resolved

\* A wait is told every change since it subscribed, in order; what it takes for
\* resolved was so after the last loss it has heard of, or a signal that says
\* otherwise is under way to it, before any that says the link is gone.
WaitFits ==
  /\ wait.subs = IF wait.at \in Waiting THEN Observers ELSE {}
  /\ wait.at = "subscribe" => wait.resolved = "unknown" /\ wait.readResolved = "unknown"
  /\ wait.result # "none" => wait.at = "end"
  /\ past.since <= spent.changes
  /\ past.loss <= spent.changes
  /\ \A k \in DOMAIN signals :
       past.loss < signals[k].at \/ (past.loss = signals[k].at /\ Loss(signals[k]))
  /\ wait.at # "idle" /\ Ready =>
       /\ past.ready >= 0 /\ past.ready > past.loss
       /\ \A k \in DOMAIN signals : Loss(signals[k]) => past.ready > signals[k].at
  /\ wait.at \in Waiting => \A k \in DOMAIN signals :
       signals[k].at > past.since =>
         /\ {"wait"} \X Observers \subseteq signals[k].to
         /\ Gained(signals[k]) => past.ready >= signals[k].at
  /\ (wait.at \in Waiting /\ ~past.stale /\ ~wait.failure /\ KnownResolved = "yes") =>
       /\ past.ready >= 0 /\ past.ready > past.loss
       /\ device.present /\ ~device.resolved =>
            \E k \in DOMAIN signals : Gone(signals[k]) /\ signals[k].at > past.since
       /\ \A k \in DOMAIN signals : Cut(signals[k]) /\ signals[k].at >= past.ready =>
            \E j \in DOMAIN signals : j < k /\ Gone(signals[j]) /\ signals[j].at > past.since

GattInv == GattTypeOK /\ SignalsFit /\ NoteFits /\ WaitFits /\ WaitTruthful

-----------------------------------------------------------------------------
(* What steps do to the signals under way.                                 *)

\* A bounded thing is counted; the changes only as such.
LEMMA Counting ==
  ASSUME GattTypeOK,
         NEW what \in {"notifies", "waits", "stops", "writes", "changes", "faults"}, Count(what)
  PROVE  /\ spent' \in SpentSet
         /\ spent'.changes = IF what = "changes" THEN spent.changes + 1 ELSE spent.changes
<1>1. spent \in SpentSet
  BY DEF GattTypeOK, SpentSet
<1>2. CASE what = "notifies"
  BY <1>1, <1>2 DEF Count, SpentSet
<1>3. CASE what = "waits"
  BY <1>1, <1>3 DEF Count, SpentSet
<1>4. CASE what = "stops"
  BY <1>1, <1>4 DEF Count, SpentSet
<1>5. CASE what = "writes"
  BY <1>1, <1>5 DEF Count, SpentSet
<1>6. CASE what = "changes"
  BY <1>1, <1>6 DEF Count, SpentSet
<1>7. CASE what = "faults"
  BY <1>1, <1>7 DEF Count, SpentSet
<1> QED
  BY <1>2, <1>3, <1>4, <1>5, <1>6, <1>7

\* The signals by their numbers.
LEMMA SignalAt ==
  ASSUME GattTypeOK
  PROVE  /\ Len(signals) \in Nat /\ DOMAIN signals = 1 .. Len(signals)
         /\ \A k \in 1 .. Len(signals) :
              /\ signals[k] \in SignalSet /\ signals[k].at \in Nat /\ signals[k].on \in BOOLEAN
              /\ signals[k].kind \in Kinds
<1>1. signals \in Seq(SignalSet)
  BY DEF GattTypeOK
<1>2. Len(signals) \in Nat /\ DOMAIN signals = 1 .. Len(signals) /\ \A k \in 1 .. Len(signals) : signals[k] \in SignalSet
  BY <1>1
<1> QED
  BY <1>2 DEF SignalSet

\* Deliver takes the first.
LEMMA RestAt ==
  ASSUME GattTypeOK, signals # <<>>, signals' = Tail(signals)
  PROVE  /\ signals' \in Seq(SignalSet) /\ Len(signals) \in Nat \ {0}
         /\ Head(signals) = signals[1] /\ 1 \in DOMAIN signals
         /\ DOMAIN signals = 1 .. Len(signals) /\ DOMAIN signals' = 1 .. Len(signals) - 1
         /\ \A k \in 1 .. Len(signals) - 1 : signals'[k] = signals[k + 1]
  BY TailRest DEF GattTypeOK

\* A signal of this change.
LEMMA NewSignal ==
  ASSUME GattTypeOK, NEW kind \in Kinds, NEW on \in BOOLEAN
  PROVE  /\ Signal(kind, on) \in SignalSet
         /\ Signal(kind, on).kind = kind /\ Signal(kind, on).on = on
         /\ Signal(kind, on).at = spent.changes + 1
         /\ Signal(kind, on).to = ({"note"} \X note.subs) \cup ({"wait"} \X wait.subs)
  BY DEF GattTypeOK, Signal, SignalSet, NoteSet, WaitSet, SpentSet

\* One signal, or two, are sent.
LEMMA OneSent ==
  ASSUME GattTypeOK, NEW s \in SignalSet, signals' = Append(signals, s)
  PROVE  /\ signals' \in Seq(SignalSet)
         /\ DOMAIN signals' = 1 .. Len(signals) + 1 /\ DOMAIN signals = 1 .. Len(signals)
         /\ \A k \in 1 .. Len(signals) : signals'[k] = signals[k]
         /\ signals'[Len(signals) + 1] = s /\ Len(signals) \in Nat
  BY DEF GattTypeOK

\* The services are said to be gone before the connection.
LEMMA CutSent ==
  ASSUME GattTypeOK, DeviceDisconnects
  PROVE  /\ signals' \in Seq(SignalSet) /\ Len(signals) \in Nat
         /\ device.resolved =>
              /\ DOMAIN signals' = 1 .. Len(signals) + 2 /\ DOMAIN signals = 1 .. Len(signals)
              /\ \A k \in 1 .. Len(signals) : signals'[k] = signals[k]
              /\ signals'[Len(signals) + 1] = Signal("resolved", FALSE)
              /\ signals'[Len(signals) + 2] = Signal("connected", FALSE)
         /\ ~device.resolved =>
              /\ DOMAIN signals' = 1 .. Len(signals) + 1 /\ DOMAIN signals = 1 .. Len(signals)
              /\ \A k \in 1 .. Len(signals) : signals'[k] = signals[k]
              /\ signals'[Len(signals) + 1] = Signal("connected", FALSE)
<1> DEFINE gone == Signal("resolved", FALSE)
           cut == Signal("connected", FALSE)
<1>1. gone \in SignalSet /\ cut \in SignalSet /\ signals \in Seq(SignalSet)
  BY NewSignal DEF Kinds, GattTypeOK
<1>2. signals' = signals \o (IF device.resolved THEN <<gone>> ELSE <<>>) \o <<cut>>
  BY DEF DeviceDisconnects
<1> HIDE DEF gone, cut
<1>3. CASE device.resolved
  <2>1. signals' = Append(Append(signals, gone), cut)
    <3>1. signals \o <<gone>> = Append(signals, gone) /\ Append(signals, gone) \in Seq(SignalSet)
      BY <1>1
    <3>2. signals' = Append(signals, gone) \o <<cut>>
      BY <1>2, <1>3, <3>1
    <3> DEFINE longer == Append(signals, gone)
    <3>3. longer \in Seq(SignalSet)
      BY <3>1
    <3> HIDE DEF longer
    <3>4. longer \o <<cut>> = Append(longer, cut)
      BY <1>1, <3>3
    <3> QED
      BY <3>2, <3>4 DEF longer
  <2>2. /\ signals' \in Seq(SignalSet) /\ Len(signals) \in Nat
        /\ DOMAIN signals' = 1 .. Len(signals) + 2 /\ DOMAIN signals = 1 .. Len(signals)
        /\ \A k \in 1 .. Len(signals) : signals'[k] = signals[k]
        /\ signals'[Len(signals) + 1] = gone /\ signals'[Len(signals) + 2] = cut
    BY <1>1, <2>1
  <2> QED
    BY <1>3, <2>2 DEF gone, cut
<1>4. CASE ~device.resolved
  <2>1. signals' = Append(signals, cut)
    BY <1>1, <1>2, <1>4
  <2>2. /\ signals' \in Seq(SignalSet) /\ Len(signals) \in Nat
        /\ DOMAIN signals' = 1 .. Len(signals) + 1 /\ DOMAIN signals = 1 .. Len(signals)
        /\ \A k \in 1 .. Len(signals) : signals'[k] = signals[k]
        /\ signals'[Len(signals) + 1] = cut
    BY <1>1, <2>1
  <2> QED
    BY <1>4, <2>2 DEF gone, cut
<1> QED
  BY <1>3, <1>4

\* The steps by what they do to the device and the signals.
Still == UNCHANGED <<signals, device.connected, device.resolved, device.present>>
Calls ==
  \/ StartNotify \/ InstallObserver \/ CallStartNotify \/ Verify \/ Confirm
  \/ StopNotify \/ StopNotifyEnd
  \/ WaitBegin \/ WaitSubscribe \/ WaitRead \/ WaitCheck \/ WaitTimeout
  \/ Write \/ WriteEnd
Sending ==
  \/ DeviceDisconnects \/ DeviceUnresolves \/ DeviceNotifies
  \/ \E what \in {"connected", "resolved"} : DeviceReturns(what)
  \/ \E how \in {"owner", "removed"} : DeviceVanishes(how)

\* The types as the provers need them.
LEMMA Fields ==
  ASSUME GattTypeOK
  PROVE  /\ device.connected \in BOOLEAN /\ device.resolved \in BOOLEAN
         /\ device.present \in BOOLEAN /\ device.notifying \in BOOLEAN
         /\ note.subs \subseteq Observers /\ note.invalidated \in BOOLEAN
         /\ past.lost \in BOOLEAN /\ past.stale \in BOOLEAN
         /\ past.ready \in Int /\ past.loss \in Int /\ past.since \in Nat
         /\ wait.resolved \in Words /\ wait.readResolved \in Words /\ wait.failure \in BOOLEAN
         /\ spent.changes \in Nat
  BY DEF GattTypeOK, DeviceSet, NoteSet, PastSet, WaitSet, SpentSet

\* What the calls of the client leave as it is.
LEMMA CallsStill ==
  ASSUME GattTypeOK, Calls
  PROVE  /\ Still /\ spent'.changes = spent.changes
         /\ spent' \in SpentSet
<1>1. device \in DeviceSet
  BY DEF GattTypeOK
<1>2. Still
  BY <1>1 DEF DeviceSet, Calls, Still, StartNotify, InstallObserver, CallStartNotify, Verify, Confirm, StopNotify,
              StopNotifyEnd, WaitBegin, WaitSubscribe, WaitRead, WaitCheck, WaitTimeout, Write, WriteEnd
<1>3. \/ spent' = spent \/ Count("notifies") \/ Count("waits") \/ Count("stops") \/ Count("writes")
      \/ Count("faults")
  BY DEF Calls, StartNotify, InstallObserver, CallStartNotify, Verify, Confirm, StopNotify, StopNotifyEnd,
         WaitBegin, WaitSubscribe, WaitRead, WaitCheck, WaitTimeout, Write, WriteEnd, Fails
<1>4. spent \in SpentSet
  BY DEF GattTypeOK
<1> QED
  BY <1>2, <1>3, <1>4, Counting

\* What a signal under way and a change of the device leave as they are.
LEMMA SendingStill ==
  ASSUME GattTypeOK, Sending
  PROVE  /\ UNCHANGED <<gattLoad, note, ender, wait, gattWriter, told>>
         /\ spent'.changes = spent.changes + 1
         /\ spent' \in SpentSet
<1>1. UNCHANGED <<gattLoad, note, ender, wait, gattWriter, told>> /\ Count("changes")
  BY DEF Sending, DeviceDisconnects, DeviceUnresolves, DeviceNotifies, DeviceReturns, DeviceVanishes
<1> QED
  BY <1>1, Counting

-----------------------------------------------------------------------------
(* Types.                                                                  *)

\* Calls about notifications keep the types.
LEMMA NotifyTypes ==
  ASSUME GattTypeOK, StartNotify \/ InstallObserver \/ CallStartNotify \/ Verify \/ Confirm
                       \/ StopNotify \/ StopNotifyEnd
  PROVE  GattTypeOK'
<1>1. spent' \in SpentSet /\ signals' = signals
  BY CallsStill DEF Calls, Still
<1>2. /\ note \in NoteSet /\ device \in DeviceSet /\ past \in PastSet
      /\ told \in Seq({"value", "invalidated"})
  BY DEF GattTypeOK
<1>3. /\ note' \in NoteSet /\ device' \in DeviceSet /\ past' \in PastSet
      /\ told' \in Seq({"value", "invalidated"}) /\ ender' \in {"idle", "call"}
      /\ UNCHANGED <<gattLoad, wait, gattWriter>>
  <2>1. CASE StartNotify
    <3>1. note' \in NoteSet
      BY <1>2, <2>1 DEF StartNotify, NoteSet, Steps
    <3>2. past' \in PastSet
      BY <1>2, <2>1 DEF StartNotify, PastSet
    <3> QED
      BY <1>2, <2>1, <3>1, <3>2 DEF StartNotify, GattTypeOK
  <2>2. CASE InstallObserver
    <3>1. PICK next \in Observers :
             \/ note' = [note EXCEPT !.subs = @ \cup {next}, !.at = IF next = "objects" THEN "call" ELSE @]
             \/ GiveUp
      <4>1. (CASE note.subs = {} -> "properties" [] note.subs = {"properties"} -> "owner" [] OTHER -> "objects")
              \in Observers
        BY DEF Observers
      <4> QED
        BY <2>2, <4>1 DEF InstallObserver
    <3>2. note.subs \cup {next} \in SUBSET Observers /\ {} \in SUBSET Observers
      BY <1>2 DEF NoteSet
    <3>3. note' \in NoteSet
      BY <1>2, <3>1, <3>2 DEF GiveUp, NoteSet, Steps
    <3> QED
      BY <1>2, <2>2, <3>3 DEF InstallObserver, GattTypeOK
  <2>3. CASE CallStartNotify
    <3>1. note' \in NoteSet
      BY <1>2, <2>3 DEF CallStartNotify, GiveUp, NoteSet, Steps
    <3>2. device' \in DeviceSet
      BY <1>2, <2>3 DEF CallStartNotify, DeviceSet
    <3> QED
      BY <1>2, <2>3, <3>1, <3>2 DEF CallStartNotify, GattTypeOK
  <2>4. CASE Verify \/ Confirm
    <3>1. \E at \in {"rollback", "confirm", "open"} : note' = [note EXCEPT !.at = at]
      BY <2>4 DEF Verify, Confirm
    <3>2. note' \in NoteSet
      BY <1>2, <3>1 DEF NoteSet, Steps
    <3> QED
      BY <1>2, <2>4, <3>2 DEF Verify, Confirm, GattTypeOK
  <2>5. CASE StopNotify
    <3>1. \/ \E at \in {"stopped", "failed"} : note' = [note EXCEPT !.at = at, !.subs = {}]
          \/ note' = [note EXCEPT !.stopping = TRUE]
      BY <2>5 DEF StopNotify
    <3>2. note' \in NoteSet
      BY <1>2, <3>1 DEF NoteSet, Steps
    <3> QED
      BY <1>2, <2>5, <3>2 DEF StopNotify, GattTypeOK
  <2>6. CASE StopNotifyEnd
    <3>1. note' \in NoteSet
      BY <1>2, <2>6 DEF StopNotifyEnd, NoteSet, Steps
    <3>2. device' \in DeviceSet
      BY <1>2, <2>6 DEF StopNotifyEnd, DeviceSet
    <3> QED
      BY <1>2, <2>6, <3>1, <3>2 DEF StopNotifyEnd, GattTypeOK
  <2> QED
    BY <2>1, <2>2, <2>3, <2>4, <2>5, <2>6
<1> QED
  BY <1>1, <1>3 DEF GattTypeOK

\* So do waits and writes.
LEMMA WaitTypes ==
  ASSUME GattTypeOK, WaitBegin \/ WaitSubscribe \/ WaitRead \/ WaitCheck \/ WaitTimeout \/ Write \/ WriteEnd
  PROVE  GattTypeOK'
<1>1. spent' \in SpentSet
  BY CallsStill DEF Calls
<1>2. wait \in WaitSet /\ past \in PastSet /\ spent.changes \in Nat
  BY DEF GattTypeOK, SpentSet
<1>3. wait' \in WaitSet
  <2>1. CASE WaitBegin
    BY <2>1 DEF WaitBegin, Words, Observers, WaitSet
  <2>2. CASE WaitSubscribe
    <3>1. Observers \in SUBSET Observers /\ {} \in SUBSET Observers
      OBVIOUS
    <3>2. \/ wait' = [wait EXCEPT !.subs = Observers, !.at = "resolved"]
          \/ wait' = [wait EXCEPT !.at = "end", !.subs = {}, !.result = "error"]
      BY <2>2 DEF WaitSubscribe, WaitEnd
    <3> QED
      BY <1>2, <3>1, <3>2 DEF WaitSet
  <2>3. CASE WaitRead
    <3>1. \/ wait' = [wait EXCEPT !.at = "connected", !.readResolved = Word(device.resolved)]
          \/ wait' = [wait EXCEPT !.at = "check", !.readConnected = Word(device.connected)]
          \/ wait' = [wait EXCEPT !.at = "end", !.subs = {}, !.result = "error"]
      BY <2>3 DEF WaitRead, WaitEnd
    <3>2. \/ \E read \in Words : wait' = [wait EXCEPT !.at = "connected", !.readResolved = read]
          \/ \E read \in Words : wait' = [wait EXCEPT !.at = "check", !.readConnected = read]
          \/ wait' = [wait EXCEPT !.at = "end", !.subs = {}, !.result = "error"]
      BY <3>1 DEF Word, Words
    <3>3. CASE \E read \in Words : wait' = [wait EXCEPT !.at = "connected", !.readResolved = read]
      BY <1>2, <3>3 DEF WaitSet
    <3>4. CASE \E read \in Words : wait' = [wait EXCEPT !.at = "check", !.readConnected = read]
      BY <1>2, <3>4 DEF WaitSet
    <3>5. CASE wait' = [wait EXCEPT !.at = "end", !.subs = {}, !.result = "error"]
      BY <1>2, <3>5 DEF WaitSet
    <3> QED
      BY <3>2, <3>3, <3>4, <3>5
  <2>4. CASE WaitCheck
    <3>1. Known(wait) \in WaitSet
      BY <1>2 DEF Known, Words, WaitSet
    <3>2. Verdict(Known(wait)) \in {"none", "ok", "error", "disconnected"}
      BY DEF Verdict
    <3> DEFINE w == Known(wait)
    <3>3. \/ wait' = [w EXCEPT !.at = "sleep"]
          \/ wait' = [w EXCEPT !.at = "end", !.subs = {}, !.result = Verdict(w)]
      BY <2>4 DEF WaitCheck
    <3>4. w \in WaitSet /\ Verdict(w) \in {"none", "ok", "error", "disconnected"}
      BY <3>1, <3>2
    <3> HIDE DEF w
    <3>5. CASE wait' = [w EXCEPT !.at = "sleep"]
      BY <3>4, <3>5 DEF WaitSet
    <3>6. CASE wait' = [w EXCEPT !.at = "end", !.subs = {}, !.result = Verdict(w)]
      BY <3>4, <3>6 DEF WaitSet
    <3> QED
      BY <3>3, <3>5, <3>6
  <2>5. CASE WaitTimeout
    BY <1>2, <2>5 DEF WaitTimeout, WaitEnd, WaitSet
  <2>6. CASE Write \/ WriteEnd
    BY <1>2, <2>6 DEF Write, WriteEnd
  <2> QED
    BY <2>1, <2>2, <2>3, <2>4, <2>5, <2>6
<1>4. past' \in PastSet
  <2>1. CASE WaitBegin
    <3>1. PICK n \in Int, m \in Int : past' = [past EXCEPT !.ready = n, !.loss = m, !.stale = FALSE]
      <4> DEFINE n == IF Ready THEN spent.changes ELSE -1
      <4>1. past' = [past EXCEPT !.ready = n, !.loss = -1, !.stale = FALSE]
        BY <2>1 DEF WaitBegin
      <4>2. n \in Int
        BY <1>2 DEF Ready
      <4>3. -1 \in Int
        OBVIOUS
      <4> HIDE DEF n
      <4> QED
        BY <4>1, <4>2, <4>3
    <3> QED
      BY <1>2, <3>1 DEF PastSet
  <2>2. CASE WaitSubscribe
    BY <1>2, <2>2 DEF WaitSubscribe, PastSet
  <2>3. CASE WaitRead \/ WaitCheck \/ WaitTimeout \/ Write \/ WriteEnd
    BY <1>2, <2>3 DEF WaitRead, WaitCheck, WaitTimeout, Write, WriteEnd
  <2> QED
    BY <2>1, <2>2, <2>3
<1>5. gattWriter' \in {"idle", "write", "written", "refused"}
  BY DEF WaitBegin, WaitSubscribe, WaitRead, WaitCheck, WaitTimeout, Write, WriteEnd, GattTypeOK
<1>6. UNCHANGED <<gattLoad, device, signals, note, ender, told>>
  BY DEF WaitBegin, WaitSubscribe, WaitRead, WaitCheck, WaitTimeout, Write, WriteEnd
<1> QED
  BY <1>1, <1>3, <1>4, <1>5, <1>6 DEF GattTypeOK

\* So does a callback.
LEMMA DeliverTypes ==
  ASSUME GattTypeOK, Deliver
  PROVE  GattTypeOK'
<1> DEFINE s == Head(signals)
<1>1. /\ note \in NoteSet /\ wait \in WaitSet /\ past \in PastSet
      /\ told \in Seq({"value", "invalidated"}) /\ signals \in Seq(SignalSet)
  BY DEF GattTypeOK
<1>2. signals' \in Seq(SignalSet) /\ s \in SignalSet
  BY <1>1, TailRest DEF Deliver
<1>3. s.at \in Nat /\ s.on \in BOOLEAN
  BY <1>2 DEF SignalSet
<1>4. WaitHears(s) /\ NoteHears(s) /\ past' = Heard(s)
  BY DEF Deliver
<1> HIDE DEF s
<1>5. wait' \in WaitSet
  <2>1. Word(s.on) \in Words
    BY DEF Word, Words
  <2> DEFINE heard == CASE s.kind = "connected" -> [wait EXCEPT !.connected = Word(s.on), !.observed = TRUE]
                        [] s.kind = "resolved" -> [wait EXCEPT !.resolved = Word(s.on)]
                        [] s.kind \in {"owner", "removed"} -> [wait EXCEPT !.failure = TRUE]
                        [] OTHER -> wait
  <2>2. heard \in WaitSet
    BY <1>1, <2>1 DEF WaitSet
  <2>3. wait' = wait \/ wait' = heard \/ wait' = [heard EXCEPT !.at = "check"]
    BY <1>4 DEF WaitHears
  <2> HIDE DEF heard
  <2> QED
    BY <1>1, <2>2, <2>3 DEF WaitSet
<1>6. note' \in NoteSet
  BY <1>1, <1>4 DEF NoteHears, NoteSet
<1>7. told' \in Seq({"value", "invalidated"})
  <2>1. told' = told \/ told' = Append(told, "invalidated") \/ told' = Append(told, "value")
    BY <1>4 DEF NoteHears
  <2>2. told \in Seq({"value", "invalidated"})
    BY <1>1
  <2>3. Append(told, "invalidated") \in Seq({"value", "invalidated"})
    BY <2>2
  <2>4. Append(told, "value") \in Seq({"value", "invalidated"})
    BY <2>2
  <2> QED
    BY <2>1, <2>2, <2>3, <2>4
<1>8. past' \in PastSet
  <2>1. \/ past' = past
        \/ past' = [past EXCEPT !.loss = IF Loss(s) THEN s.at ELSE @, !.stale = @ \/ s.at <= past.since]
    BY <1>4 DEF Heard
  <2>2. /\ (IF Loss(s) THEN s.at ELSE past.loss) \in Int
        /\ (past.stale \/ s.at <= past.since) \in BOOLEAN
    BY <1>1, <1>3 DEF PastSet
  <2> QED
    BY <1>1, <2>1, <2>2 DEF PastSet
<1> QED
  BY <1>2, <1>5, <1>6, <1>7, <1>8 DEF Deliver, GattTypeOK

\* So does BlueZ.
LEMMA SendingTypes ==
  ASSUME GattTypeOK, Sending
  PROVE  GattTypeOK'
<1>1. /\ UNCHANGED <<gattLoad, note, ender, wait, gattWriter, told>>
      /\ spent' \in SpentSet
  BY SendingStill
<1>2. /\ device' \in DeviceSet
      /\ past' \in PastSet
  <2>1. device \in DeviceSet /\ past \in PastSet /\ spent.changes \in Nat
    BY DEF GattTypeOK, SpentSet
  <2>2. ASSUME NEW d \in {"connected", "resolved"}, DeviceReturns(d)
        PROVE  device' \in DeviceSet /\ past' \in PastSet
    <3>1. device' \in DeviceSet
      <4>1. device' = [device EXCEPT ![d] = TRUE]
        BY <2>2 DEF DeviceReturns
      <4>2. CASE d = "connected"
        BY <2>1, <4>1, <4>2 DEF DeviceSet
      <4>3. CASE d = "resolved"
        BY <2>1, <4>1, <4>3 DEF DeviceSet
      <4> QED
        BY <4>2, <4>3
    <3>2. past' \in PastSet
      <4>1. past' = past \/ past' = [past EXCEPT !.ready = spent.changes + 1]
        BY <2>2 DEF DeviceReturns
      <4>2. spent.changes + 1 \in Int
        BY <2>1
      <4> QED
        BY <2>1, <4>1, <4>2 DEF PastSet
    <3> QED
      BY <3>1, <3>2
  <2>3. CASE DeviceDisconnects \/ DeviceUnresolves
    <3>1. device' \in DeviceSet
      BY <2>1, <2>3 DEF DeviceDisconnects, DeviceUnresolves, DeviceSet
    <3>2. past' \in PastSet
      BY <2>1, <2>3 DEF DeviceDisconnects, DeviceUnresolves, MarkLoss, PastSet
    <3> QED
      BY <3>1, <3>2
  <2>4. ASSUME NEW how \in {"owner", "removed"}, DeviceVanishes(how)
        PROVE  device' \in DeviceSet /\ past' \in PastSet
    <3>1. device' \in DeviceSet
      BY <2>4 DEF DeviceVanishes, DeviceSet
    <3>2. past' \in PastSet
      BY <2>1, <2>4 DEF DeviceVanishes, MarkLoss, PastSet
    <3> QED
      BY <3>1, <3>2
  <2>5. CASE DeviceNotifies
    BY <2>1, <2>5 DEF DeviceNotifies
  <2> QED
    BY <2>2, <2>3, <2>4, <2>5 DEF Sending
<1>3. signals' \in Seq(SignalSet)
  <2>1. CASE DeviceDisconnects
    BY <2>1, CutSent
  <2>2. CASE ~DeviceDisconnects
    <3>1. \E kind \in Kinds, on \in BOOLEAN : signals' = Append(signals, Signal(kind, on))
      BY <2>2 DEF Sending, DeviceUnresolves, DeviceNotifies, DeviceReturns, DeviceVanishes, Kinds
    <3> QED
      BY <3>1, NewSignal, OneSent
  <2> QED
    BY <2>1, <2>2
<1> QED
  BY <1>1, <1>2, <1>3 DEF GattTypeOK

\* Every step is a call, a callback or BlueZ's.
LEMMA Cases == GattNext => Calls \/ Deliver \/ Sending
  BY DEF GattNext, Notifier, Waiter, Calls, Sending

\* Every step keeps the types.
LEMMA TypesStep ==
  ASSUME GattTypeOK, [GattNext]_gattVars
  PROVE  GattTypeOK'
<1>1. CASE GattNext
  BY <1>1, Cases, NotifyTypes, WaitTypes, DeliverTypes, SendingTypes DEF Calls
<1>2. CASE UNCHANGED gattVars
  BY <1>2 DEF gattVars, GattTypeOK
<1> QED
  BY <1>1, <1>2

-----------------------------------------------------------------------------
(* The signals fit the device.                                             *)

\* Calls send nothing.
LEMMA CallsSignals ==
  ASSUME GattTypeOK, SignalsFit, Calls
  PROVE  SignalsFit'
<1>1. Still /\ spent'.changes = spent.changes
  BY CallsStill
<1>2. Ready' = Ready
  BY <1>1 DEF Still, Ready
<1> QED
  BY <1>1, <1>2 DEF SignalsFit, Still, Loss, Gained, Gone, Cut

\* The first signal goes, and takes no loss of the services from behind a gain.
LEMMA DeliverSignals ==
  ASSUME GattTypeOK, SignalsFit, Deliver
  PROVE  SignalsFit'
<1> DEFINE n == Len(signals)
<1>1. /\ n \in Nat \ {0} /\ DOMAIN signals = 1 .. n /\ DOMAIN signals' = 1 .. n - 1
      /\ \A k \in 1 .. n - 1 : signals'[k] = signals[k + 1]
  BY RestAt DEF Deliver
<1>2. UNCHANGED <<device, spent>> /\ Ready' = Ready
  BY DEF Deliver, Ready
<1>3. \A k \in 1 .. n : signals[k].at \in Nat
  BY SignalAt
<1> HIDE DEF n
<1>4. \A k \in 1 .. n - 1 :
        /\ Loss(signals'[k]) = Loss(signals[k + 1]) /\ Gained(signals'[k]) = Gained(signals[k + 1])
        /\ Gone(signals'[k]) = Gone(signals[k + 1]) /\ Cut(signals'[k]) = Cut(signals[k + 1])
        /\ signals'[k].at = signals[k + 1].at /\ k + 1 \in 1 .. n
  BY <1>1
<1>5. \A j \in 1 .. n : j > 1 => j - 1 \in 1 .. n - 1 /\ (j - 1) + 1 = j
  BY <1>1
<1>6. /\ device'.resolved => device'.connected
      /\ device'.connected => device'.present
      /\ \A k \in DOMAIN signals' : signals'[k].at <= spent'.changes
      /\ Ready' => \A k \in DOMAIN signals' : Loss(signals'[k]) => signals'[k].at < spent'.changes
  BY <1>1, <1>2, <1>4 DEF SignalsFit
<1>7. \A i, k \in 1 .. n - 1 : i < k =>
         \/ signals'[i].at < signals'[k].at
         \/ (signals'[i].at = signals'[k].at /\ Loss(signals'[i]) /\ Loss(signals'[k]))
  <2>1. SUFFICES ASSUME NEW i \in 1 .. n - 1, NEW k \in 1 .. n - 1, i < k
                 PROVE  \/ signals'[i].at < signals'[k].at
                        \/ (signals'[i].at = signals'[k].at /\ Loss(signals'[i]) /\ Loss(signals'[k]))
    OBVIOUS
  <2>2. i + 1 \in DOMAIN signals /\ k + 1 \in DOMAIN signals /\ i + 1 < k + 1
    BY <1>1, <2>1
  <2>3. \/ signals[i + 1].at < signals[k + 1].at
        \/ (signals[i + 1].at = signals[k + 1].at /\ Loss(signals[i + 1]) /\ Loss(signals[k + 1]))
    BY <2>2 DEF SignalsFit
  <2> QED
    BY <1>4, <2>3
<1>8. ASSUME device'.present, ~device'.resolved, NEW i \in 1 .. n - 1, Gained(signals'[i])
      PROVE  \E k \in 1 .. n - 1 : i < k /\ Gone(signals'[k])
  <2>1. PICK k \in 1 .. n : i + 1 < k /\ Gone(signals[k])
    BY <1>1, <1>2, <1>4, <1>8 DEF SignalsFit
  <2>2. k - 1 \in 1 .. n - 1 /\ i < k - 1 /\ Gone(signals'[k - 1])
    BY <1>1, <1>4, <1>5, <2>1
  <2> QED
    BY <2>2
<1>9. ASSUME NEW i \in 1 .. n - 1, NEW k \in 1 .. n - 1, i < k, Gained(signals'[i]), Cut(signals'[k])
      PROVE  \E j \in 1 .. n - 1 : i < j /\ j < k /\ Gone(signals'[j])
  <2>1. PICK j \in 1 .. n : i + 1 < j /\ j < k + 1 /\ Gone(signals[j])
    <3>1. /\ i + 1 \in DOMAIN signals /\ k + 1 \in DOMAIN signals /\ i + 1 < k + 1
          /\ Gained(signals[i + 1]) /\ Cut(signals[k + 1])
      BY <1>1, <1>4, <1>9
    <3> QED
      BY <1>1, <3>1 DEF SignalsFit
  <2>2. j - 1 \in 1 .. n - 1 /\ i < j - 1 /\ j - 1 < k /\ Gone(signals'[j - 1])
    BY <1>1, <1>4, <1>5, <2>1
  <2> QED
    BY <2>2
<1> QED
  BY <1>1, <1>6, <1>7, <1>8, <1>9 DEF SignalsFit

\* One more signal, of a change that fits.
LEMMA SentFits ==
  ASSUME GattTypeOK, SignalsFit, NEW s \in SignalSet, signals' = Append(signals, s),
         s.at = spent.changes + 1, spent'.changes = spent.changes + 1,
         device' \in DeviceSet,
         device'.resolved => device'.connected, device'.connected => device'.present,
         Ready' => ~Loss(s),
         device'.present /\ ~device'.resolved =>
           /\ ~Gained(s)
           /\ Gone(s) \/ (device.present /\ ~device.resolved),
         ~Cut(s)
           \/ (device.present /\ ~device.resolved)
  PROVE  SignalsFit'
<1> DEFINE n == Len(signals)
<1>1. /\ n \in Nat /\ DOMAIN signals' = 1 .. n + 1 /\ DOMAIN signals = 1 .. n
      /\ \A k \in 1 .. n : signals'[k] = signals[k]
      /\ signals'[n + 1] = s
  BY OneSent
<1>2. /\ \A k \in 1 .. n : signals[k].at \in Nat /\ signals[k].at <= spent.changes
      /\ spent.changes \in Nat
  BY <1>1, SignalAt, Fields DEF SignalsFit
<1> HIDE DEF n
<1>3. \A k \in 1 .. n + 1 : k \in 1 .. n \/ k = n + 1
  BY <1>1
<1>4. \A k \in 1 .. n : k < n + 1 /\ k \in 1 .. n + 1 /\ n + 1 \in 1 .. n + 1 /\ ~(n + 1 < k)
  BY <1>1
<1>5. /\ \A k \in 1 .. n + 1 : signals'[k].at <= spent'.changes
      /\ Ready' => \A k \in 1 .. n + 1 : Loss(signals'[k]) => signals'[k].at < spent'.changes
  BY <1>1, <1>2, <1>3
<1>6. \A i, k \in 1 .. n + 1 : i < k =>
         \/ signals'[i].at < signals'[k].at
         \/ (signals'[i].at = signals'[k].at /\ Loss(signals'[i]) /\ Loss(signals'[k]))
  <2>1. \A i \in 1 .. n : signals'[i].at < signals'[n + 1].at
    BY <1>1, <1>2
  <2>2. \A i, k \in 1 .. n : i < k =>
         \/ signals'[i].at < signals'[k].at
         \/ (signals'[i].at = signals'[k].at /\ Loss(signals'[i]) /\ Loss(signals'[k]))
    BY <1>1 DEF SignalsFit
  <2>3. ~(n + 1 < n + 1)
    BY <1>1
  <2> QED
    BY <1>3, <1>4, <2>1, <2>2, <2>3
<1>7. ASSUME device'.present, ~device'.resolved, NEW i \in 1 .. n + 1, Gained(signals'[i])
      PROVE  \E k \in 1 .. n + 1 : i < k /\ Gone(signals'[k])
  <2>1. i \in 1 .. n /\ Gained(signals[i])
    BY <1>1, <1>3, <1>7
  <2>2. CASE Gone(s)
    BY <1>1, <1>4, <2>1, <2>2
  <2>3. CASE device.present /\ ~device.resolved
    <3>1. PICK k \in 1 .. n : i < k /\ Gone(signals[k])
      BY <1>1, <2>1, <2>3 DEF SignalsFit
    <3> QED
      BY <1>1, <1>4, <3>1
  <2> QED
    BY <1>7, <2>2, <2>3
<1>8. ASSUME NEW i \in 1 .. n + 1, NEW k \in 1 .. n + 1, i < k, Gained(signals'[i]), Cut(signals'[k])
      PROVE  \E j \in 1 .. n + 1 : i < j /\ j < k /\ Gone(signals'[j])
  <2>1. i \in 1 .. n /\ Gained(signals[i])
    <3>1. ~(n + 1 < k)
      BY <1>1
    <3> QED
      BY <1>1, <1>3, <1>8, <3>1
  <2>2. CASE k \in 1 .. n
    <3>1. PICK j \in 1 .. n : i < j /\ j < k /\ Gone(signals[j])
      BY <1>1, <1>8, <2>1, <2>2 DEF SignalsFit
    <3> QED
      BY <1>1, <1>4, <3>1
  <2>3. CASE k = n + 1
    <3>1. PICK j \in 1 .. n : i < j /\ Gone(signals[j])
      BY <1>1, <1>8, <2>1, <2>3 DEF SignalsFit
    <3> QED
      BY <1>1, <1>4, <2>3, <3>1
  <2> QED
    BY <1>3, <2>2, <2>3
<1> QED
  BY <1>1, <1>5, <1>6, <1>7, <1>8 DEF SignalsFit

\* The loss of a connection with services sends two.
LEMMA CutFits ==
  ASSUME GattTypeOK, SignalsFit, DeviceDisconnects, device.resolved,
         spent'.changes = spent.changes + 1
  PROVE  SignalsFit'
<1> DEFINE n == Len(signals)
<1>1. /\ n \in Nat /\ DOMAIN signals' = 1 .. n + 2 /\ DOMAIN signals = 1 .. n
      /\ \A k \in 1 .. n : signals'[k] = signals[k]
      /\ signals'[n + 1] = Signal("resolved", FALSE)
      /\ signals'[n + 2] = Signal("connected", FALSE)
  BY CutSent
<1>2. /\ \A k \in 1 .. n : signals[k].at \in Nat /\ signals[k].at <= spent.changes
      /\ spent.changes \in Nat
  BY <1>1, SignalAt, Fields DEF SignalsFit
<1>3. /\ Gone(signals'[n + 1]) /\ Loss(signals'[n + 1]) /\ ~Gained(signals'[n + 1]) /\ ~Cut(signals'[n + 1])
      /\ signals'[n + 1].at = spent.changes + 1
      /\ Cut(signals'[n + 2]) /\ Loss(signals'[n + 2]) /\ ~Gained(signals'[n + 2])
      /\ signals'[n + 2].at = spent.changes + 1
  <2>1. "resolved" \in Kinds /\ "connected" \in Kinds /\ FALSE \in BOOLEAN
    BY DEF Kinds
  <2>2. /\ Signal("resolved", FALSE).kind = "resolved" /\ Signal("resolved", FALSE).on = FALSE
        /\ Signal("resolved", FALSE).at = spent.changes + 1
        /\ Signal("connected", FALSE).kind = "connected" /\ Signal("connected", FALSE).on = FALSE
        /\ Signal("connected", FALSE).at = spent.changes + 1
    BY <2>1, NewSignal
  <2>3. /\ signals'[n + 1].kind = "resolved" /\ ~signals'[n + 1].on
        /\ signals'[n + 1].at = spent.changes + 1
        /\ signals'[n + 2].kind = "connected" /\ ~signals'[n + 2].on
        /\ signals'[n + 2].at = spent.changes + 1
    BY <1>1, <2>2
  <2> QED
    BY <2>3 DEF Gone, Loss, Gained, Cut
<1>4. ~device'.connected /\ ~device'.resolved /\ ~Ready'
  <2>1. device \in DeviceSet
    BY DEF GattTypeOK
  <2> QED
    BY <2>1 DEF DeviceDisconnects, DeviceSet, Ready
<1> HIDE DEF n
<1>5. \A k \in 1 .. n + 2 : k \in 1 .. n \/ k = n + 1 \/ k = n + 2
  BY <1>1
<1>6. /\ \A k \in 1 .. n : k < n + 1 /\ k < n + 2 /\ k \in 1 .. n + 2 /\ ~(n + 1 < k) /\ ~(n + 2 < k)
      /\ n + 1 \in 1 .. n + 2 /\ n + 1 < n + 2 /\ ~(n + 2 < n + 1) /\ ~(n + 1 < n + 1) /\ ~(n + 2 < n + 2)
  BY <1>1
<1> DEFINE now == spent.changes
<1>0. /\ now \in Nat /\ spent'.changes = now + 1
      /\ \A k \in 1 .. n : signals'[k].at = signals[k].at /\ signals'[k].at \in Nat /\ signals'[k].at <= now
      /\ signals'[n + 1].at = now + 1 /\ signals'[n + 2].at = now + 1
  BY <1>1, <1>2, <1>3
<1> HIDE DEF now
<1>7. \A k \in 1 .. n + 2 : signals'[k].at <= spent'.changes
  <2>1. TAKE k \in 1 .. n + 2
  <2>2. CASE k \in 1 .. n
    BY <1>0, <2>2
  <2>3. CASE k = n + 1
    BY <1>0, <2>3
  <2>4. CASE k = n + 2
    BY <1>0, <2>4
  <2> QED
    BY <1>5, <2>2, <2>3, <2>4
<1>8. \A i, k \in 1 .. n + 2 : i < k =>
         \/ signals'[i].at < signals'[k].at
         \/ (signals'[i].at = signals'[k].at /\ Loss(signals'[i]) /\ Loss(signals'[k]))
  <2>1. \A i \in 1 .. n : signals'[i].at < signals'[n + 1].at /\ signals'[i].at < signals'[n + 2].at
    BY <1>0
  <2>2. \A i, k \in 1 .. n : i < k =>
         \/ signals'[i].at < signals'[k].at
         \/ (signals'[i].at = signals'[k].at /\ Loss(signals'[i]) /\ Loss(signals'[k]))
    BY <1>1 DEF SignalsFit
  <2> QED
    BY <1>3, <1>5, <1>6, <2>1, <2>2
<1>9. \A i \in 1 .. n + 2 : Gained(signals'[i]) =>
        \E k \in 1 .. n + 2 : i < k /\ Gone(signals'[k])
  BY <1>3, <1>5, <1>6
<1>10. ASSUME NEW i \in 1 .. n + 2, NEW k \in 1 .. n + 2, i < k, Gained(signals'[i]), Cut(signals'[k])
       PROVE  \E j \in 1 .. n + 2 : i < j /\ j < k /\ Gone(signals'[j])
  <2>1. i \in 1 .. n /\ Gained(signals[i])
    BY <1>1, <1>3, <1>5, <1>10
  <2>2. CASE k \in 1 .. n
    <3>1. PICK j \in 1 .. n : i < j /\ j < k /\ Gone(signals[j])
      BY <1>1, <1>10, <2>1, <2>2 DEF SignalsFit
    <3> QED
      BY <1>1, <1>6, <3>1
  <2>3. CASE k = n + 2
    BY <1>3, <1>6, <2>1, <2>3
  <2> QED
    BY <1>3, <1>5, <1>10, <2>2, <2>3
<1> QED
  BY <1>1, <1>4, <1>7, <1>8, <1>9, <1>10 DEF SignalsFit

\* BlueZ's signals follow its changes.
LEMMA SendingSignals ==
  ASSUME GattTypeOK, SignalsFit, Sending
  PROVE  SignalsFit'
<1>1. spent'.changes = spent.changes + 1 /\ device' \in DeviceSet /\ device \in DeviceSet
  BY SendingStill, SendingTypes DEF GattTypeOK
<1>2. /\ device.resolved => device.connected
      /\ device.connected => device.present
  BY DEF SignalsFit
<1>3. \A kind \in Kinds, on \in BOOLEAN :
        /\ Signal(kind, on) \in SignalSet /\ Signal(kind, on).at = spent.changes + 1
        /\ Signal(kind, on).kind = kind /\ Signal(kind, on).on = on
  BY NewSignal
<1>4. /\ "resolved" \in Kinds /\ "connected" \in Kinds /\ "owner" \in Kinds /\ "removed" \in Kinds
      /\ "value" \in Kinds
  BY DEF Kinds
<1>5. CASE DeviceDisconnects /\ device.resolved
  BY <1>1, <1>5, CutFits
<1>6. CASE DeviceDisconnects /\ ~device.resolved
  <2> DEFINE s == Signal("connected", FALSE)
  <2>1. s \in SignalSet /\ s.at = spent.changes + 1 /\ s.kind = "connected" /\ ~s.on
    BY <1>3, <1>4
  <2>2. signals' = Append(signals, s)
    <3>1. signals \in Seq(SignalSet) /\ signals \o <<>> = signals
      BY DEF GattTypeOK
    <3>2. signals' = signals \o <<s>>
      BY <1>6, <3>1 DEF DeviceDisconnects
    <3> HIDE DEF s
    <3> QED
      BY <2>1, <3>1, <3>2
  <2>3. device.present /\ ~Ready' /\ ~device'.connected /\ ~device'.resolved
    BY <1>1, <1>2, <1>6 DEF DeviceDisconnects, DeviceSet, Ready
  <2>4. ~Gained(s) /\ ~Gone(s) /\ Cut(s)
    BY <2>1 DEF Gained, Gone, Cut
  <2> HIDE DEF s
  <2> QED
    BY <1>1, <1>6, <2>1, <2>2, <2>3, <2>4, SentFits
<1>7. CASE DeviceUnresolves
  <2> DEFINE s == Signal("resolved", FALSE)
  <2>1. s \in SignalSet /\ s.at = spent.changes + 1 /\ s.kind = "resolved" /\ ~s.on
    BY <1>3, <1>4
  <2>2. signals' = Append(signals, s)
    BY <1>7 DEF DeviceUnresolves
  <2>3. ~Ready' /\ ~device'.resolved /\ (device'.connected => device'.present)
    BY <1>1, <1>2, <1>7 DEF DeviceUnresolves, DeviceSet, Ready
  <2>4. ~Gained(s) /\ Gone(s) /\ ~Cut(s)
    BY <2>1 DEF Gained, Gone, Cut
  <2> HIDE DEF s
  <2> QED
    BY <1>1, <2>1, <2>2, <2>3, <2>4, SentFits
<1>8. ASSUME NEW what \in {"connected", "resolved"}, DeviceReturns(what) PROVE SignalsFit'
  <2> DEFINE s == Signal(what, TRUE)
  <2>1. s \in SignalSet /\ s.at = spent.changes + 1 /\ s.kind = what /\ s.on
    BY <1>3, <1>4
  <2>2. signals' = Append(signals, s)
    BY <1>8 DEF DeviceReturns
  <2>3. /\ device'.resolved => device'.connected
        /\ device'.connected => device'.present
        /\ device.present /\ (what = "resolved" => device'.resolved)
        /\ (what = "connected" => ~device.resolved)
    BY <1>1, <1>2, <1>8 DEF DeviceReturns, DeviceSet
  <2>4. ~Loss(s) /\ ~Cut(s) /\ (Gained(s) => what = "resolved")
    BY <2>1 DEF Gained, Loss, Cut
  <2> HIDE DEF s
  <2> QED
    BY <1>1, <2>1, <2>2, <2>3, <2>4, SentFits
<1>9. ASSUME NEW how \in {"owner", "removed"}, DeviceVanishes(how) PROVE SignalsFit'
  <2> DEFINE s == Signal(how, FALSE)
  <2>1. s \in SignalSet /\ s.at = spent.changes + 1 /\ s.kind = how
    BY <1>3, <1>4
  <2>2. signals' = Append(signals, s)
    BY <1>9 DEF DeviceVanishes
  <2>3. ~Ready' /\ ~device'.connected /\ ~device'.resolved /\ ~device'.present
    BY <1>9 DEF DeviceVanishes, Ready
  <2>4. ~Cut(s)
    BY <2>1 DEF Cut
  <2> HIDE DEF s
  <2> QED
    BY <1>1, <2>1, <2>2, <2>3, <2>4, SentFits
<1>10. CASE DeviceNotifies
  <2> DEFINE s == Signal("value", TRUE)
  <2>1. s \in SignalSet /\ s.at = spent.changes + 1 /\ s.kind = "value"
    BY <1>3, <1>4
  <2>2. signals' = Append(signals, s) /\ device' = device
    BY <1>10 DEF DeviceNotifies
  <2>3. ~Cut(s) /\ ~Gained(s) /\ ~Loss(s)
    BY <2>1 DEF Cut, Gained, Loss
  <2> HIDE DEF s
  <2> QED
    BY <1>1, <1>2, <2>1, <2>2, <2>3, SentFits
<1> QED
  BY <1>5, <1>6, <1>7, <1>8, <1>9, <1>10 DEF Sending

\* Every step.
LEMMA SignalsStep ==
  ASSUME GattTypeOK, SignalsFit, [GattNext]_gattVars
  PROVE  SignalsFit'
<1>1. CASE GattNext
  BY <1>1, Cases, CallsSignals, DeliverSignals, SendingSignals
<1>2. CASE UNCHANGED gattVars
  BY <1>2 DEF gattVars, SignalsFit, Ready
<1> QED
  BY <1>1, <1>2

-----------------------------------------------------------------------------
(* What a change of the device sends.                                      *)

\* To whom a signal of now goes.
Now(s) == s.at = spent.changes + 1 /\ s.to = ({"note"} \X note.subs) \cup ({"wait"} \X wait.subs)

\* Signals under way stay, those added go to the observers there are.
LEMMA Sent ==
  ASSUME GattTypeOK, Sending
  PROVE  /\ Len(signals) \in Nat /\ DOMAIN signals = 1 .. Len(signals)
         /\ \A k \in DOMAIN signals : k \in DOMAIN signals' /\ signals'[k] = signals[k]
         /\ \A k \in DOMAIN signals' : k \in DOMAIN signals \/ (k \in Nat /\ k > Len(signals) /\ Now(signals'[k]))
<1>1. \A kind \in Kinds, on \in BOOLEAN : Signal(kind, on) \in SignalSet /\ Now(Signal(kind, on))
  BY NewSignal DEF Now
<1>2. CASE DeviceDisconnects
  <2>1. /\ Now(Signal("resolved", FALSE)) /\ Now(Signal("connected", FALSE))
    BY <1>1 DEF Kinds
  <2> DEFINE n == Len(signals)
  <2>2. n \in Nat
    BY SignalAt
  <2>3. CASE device.resolved
    <3>1. /\ DOMAIN signals' = 1 .. n + 2 /\ DOMAIN signals = 1 .. n
          /\ \A k \in 1 .. n : signals'[k] = signals[k]
          /\ Now(signals'[n + 1]) /\ Now(signals'[n + 2])
      BY <1>2, <2>1, <2>3, CutSent
    <3> HIDE DEF n
    <3>2. \A k \in 1 .. n + 2 : k \in 1 .. n \/ (k \in Nat /\ k > n /\ (k = n + 1 \/ k = n + 2))
      BY <2>2
    <3>3. \A k \in 1 .. n : k \in 1 .. n + 2
      BY <2>2
    <3> QED
      BY <2>2, <3>1, <3>2, <3>3 DEF n
  <2>4. CASE ~device.resolved
    <3>1. /\ DOMAIN signals' = 1 .. n + 1 /\ DOMAIN signals = 1 .. n
          /\ \A k \in 1 .. n : signals'[k] = signals[k]
          /\ Now(signals'[n + 1])
      BY <1>2, <2>1, <2>4, CutSent
    <3> HIDE DEF n
    <3>2. \A k \in 1 .. n + 1 : k \in 1 .. n \/ (k \in Nat /\ k > n /\ k = n + 1)
      BY <2>2
    <3>3. \A k \in 1 .. n : k \in 1 .. n + 1
      BY <2>2
    <3> QED
      BY <2>2, <3>1, <3>2, <3>3 DEF n
  <2> QED
    BY <2>3, <2>4
<1>3. CASE ~DeviceDisconnects
  <2>1. PICK kind \in Kinds, on \in BOOLEAN : signals' = Append(signals, Signal(kind, on))
    BY <1>3 DEF Sending, DeviceUnresolves, DeviceNotifies, DeviceReturns, DeviceVanishes, Kinds
  <2> DEFINE s == Signal(kind, on)
             n == Len(signals)
  <2>2. s \in SignalSet /\ Now(s) /\ signals' = Append(signals, s)
    BY <1>1, <2>1
  <2> HIDE DEF s
  <2>3. /\ DOMAIN signals' = 1 .. n + 1 /\ DOMAIN signals = 1 .. n /\ n \in Nat
        /\ \A k \in 1 .. n : signals'[k] = signals[k]
        /\ Now(signals'[n + 1])
    BY <2>2, OneSent
  <2> HIDE DEF n
  <2>4. \A k \in 1 .. n + 1 : k \in 1 .. n \/ (k \in Nat /\ k > n /\ k = n + 1)
    BY <2>3
  <2>5. \A k \in 1 .. n : k \in 1 .. n + 1
    BY <2>3
  <2> QED
    BY <2>3, <2>4, <2>5 DEF n
<1> QED
  BY <1>2, <1>3

\* What BlueZ says as the link is lost.
LEMMA LossSent ==
  ASSUME GattTypeOK, Sending
  PROVE  \/ past'.lost = past.lost /\ device'.notifying = device.notifying
         \/ MarkLoss /\ \E k \in DOMAIN signals' : k \notin DOMAIN signals /\ Loss(signals'[k])
<1>1. /\ Loss(Signal("connected", FALSE)) /\ Loss(Signal("resolved", FALSE))
      /\ \A how \in {"owner", "removed"} : Loss(Signal(how, FALSE))
      /\ \A kind \in Kinds : Signal(kind, FALSE) \in SignalSet
  BY NewSignal DEF Loss, Kinds
<1>2. CASE DeviceDisconnects
  <2>1. \E k \in DOMAIN signals' : k \notin DOMAIN signals /\ signals'[k] = Signal("connected", FALSE)
    <3> DEFINE s == Signal("connected", FALSE)
               n == Len(signals)
    <3>1. \/ DOMAIN signals' = 1 .. n + 2 /\ DOMAIN signals = 1 .. n /\ signals'[n + 2] = s
          \/ DOMAIN signals' = 1 .. n + 1 /\ DOMAIN signals = 1 .. n /\ signals'[n + 1] = s
      BY <1>2, CutSent
    <3>2. n \in Nat
      BY SignalAt
    <3> HIDE DEF s, n
    <3>3. /\ n + 1 \in 1 .. n + 1 /\ n + 1 \notin 1 .. n /\ n + 2 \in 1 .. n + 2 /\ n + 2 \notin 1 .. n
      BY <3>2
    <3>4. \E k \in DOMAIN signals' : k \notin DOMAIN signals /\ signals'[k] = s
      BY <3>1, <3>3
    <3> QED
      BY <3>4 DEF s
  <2> QED
    BY <1>1, <1>2, <2>1 DEF DeviceDisconnects
<1>3. CASE DeviceUnresolves
  <2> DEFINE s == Signal("resolved", FALSE)
  <2>1. s \in SignalSet /\ Loss(s) /\ signals' = Append(signals, s)
    BY <1>1, <1>3 DEF DeviceUnresolves, Kinds
  <2> HIDE DEF s
  <2>2. \E k \in DOMAIN signals' : k \notin DOMAIN signals /\ signals'[k] = s
    BY <2>1, OneSent
  <2> QED
    BY <1>3, <2>1, <2>2 DEF DeviceUnresolves
<1>4. ASSUME NEW how \in {"owner", "removed"}, DeviceVanishes(how)
      PROVE  MarkLoss /\ \E k \in DOMAIN signals' : k \notin DOMAIN signals /\ Loss(signals'[k])
  <2> DEFINE s == Signal(how, FALSE)
  <2>1. s \in SignalSet /\ Loss(s) /\ signals' = Append(signals, s)
    BY <1>1, <1>4 DEF DeviceVanishes, Kinds
  <2> HIDE DEF s
  <2>2. \E k \in DOMAIN signals' : k \notin DOMAIN signals /\ signals'[k] = s
    BY <2>1, OneSent
  <2> QED
    BY <1>4, <2>1, <2>2 DEF DeviceVanishes
<1>5. ASSUME NEW what \in {"connected", "resolved"}, DeviceReturns(what)
      PROVE  past'.lost = past.lost /\ device'.notifying = device.notifying
  BY <1>5 DEF DeviceReturns, GattTypeOK, DeviceSet, PastSet
<1>6. CASE DeviceNotifies
  BY <1>6 DEF DeviceNotifies
<1> QED
  BY <1>2, <1>3, <1>4, <1>5, <1>6 DEF Sending

-----------------------------------------------------------------------------
(* The notification.                                                       *)

\* Of the calls, those about the notification take its steps in order.
LEMMA CallsNote ==
  ASSUME GattTypeOK, NoteFits, Calls
  PROVE  NoteFits'
<1>1. signals' = signals /\ note \in NoteSet /\ device \in DeviceSet /\ past \in PastSet
  BY CallsStill DEF Still, GattTypeOK
<1> DEFINE SameTold == told' = told /\ past'.lost = past.lost /\ note'.invalidated = note.invalidated
<1>2. ASSUME SameTold, device'.notifying = device.notifying,
             note'.at = note.at \/ note'.at \notin Setup \cup {"subscribe"},
             note'.subs = note.subs \/ note'.at \notin Setup \cup {"subscribe"}
      PROVE  NoteFits'
  BY <1>1, <1>2 DEF NoteFits, Setup, Loss, Observer
<1>3. CASE StartNotify
  <2>1. /\ told' = <<>> /\ ~past'.lost /\ note'.subs = {} /\ note'.at \in {"subscribe", "failed"}
        /\ note'.invalidated = FALSE
    BY <1>1, <1>3 DEF StartNotify, PastSet
  <2> QED
    BY <2>1 DEF NoteFits, Setup
<1>4. CASE InstallObserver
  <2>1. SameTold /\ device' = device
    BY <1>1, <1>4 DEF InstallObserver, GiveUp, NoteSet
  <2>2. CASE GiveUp
    <3>1. note'.at = "failed"
      BY <1>1, <2>2 DEF GiveUp, NoteSet
    <3> QED
      BY <1>2, <2>1, <3>1 DEF Setup
  <2>3. CASE ~GiveUp
    <3>1. note.at = "subscribe" /\ note.subs \in {{}, {"properties"}, {"properties", "owner"}} /\ ~past.lost
      BY <1>4 DEF InstallObserver, NoteFits
    <3>2. {"properties", "owner"} # {} /\ {"properties", "owner"} # {"properties"} /\ {"properties"} # {}
      OBVIOUS
    <3>3. \/ note'.subs = {"properties"} /\ note'.at = "subscribe"
          \/ note'.subs = {"properties", "owner"} /\ note'.at = "subscribe"
          \/ note'.subs = Observers /\ note'.at = "call"
      <4>1. CASE note.subs = {}
        <5>1. note' = [note EXCEPT !.subs = note.subs \cup {"properties"}, !.at = note.at]
          BY <1>4, <2>3, <4>1 DEF InstallObserver
        <5> QED
          BY <1>1, <3>1, <4>1, <5>1 DEF NoteSet
      <4>2. CASE note.subs = {"properties"}
        <5>1. note' = [note EXCEPT !.subs = note.subs \cup {"owner"}, !.at = note.at]
          BY <1>4, <2>3, <3>2, <4>2 DEF InstallObserver
        <5> QED
          BY <1>1, <3>1, <4>2, <5>1 DEF NoteSet
      <4>3. CASE note.subs = {"properties", "owner"}
        <5>1. note' = [note EXCEPT !.subs = note.subs \cup {"objects"}, !.at = "call"]
          BY <1>4, <2>3, <3>2, <4>3 DEF InstallObserver
        <5> QED
          BY <1>1, <4>3, <5>1 DEF NoteSet, Observers
      <4> QED
        BY <3>1, <4>1, <4>2, <4>3
    <3> QED
      BY <1>1, <2>1, <3>1, <3>3 DEF NoteFits, Setup
  <2> QED
    BY <2>2, <2>3
<1>5. CASE CallStartNotify
  <2>1. SameTold
    BY <1>1, <1>5 DEF CallStartNotify, GiveUp, NoteSet
  <2>2. \/ note'.at = "failed"
        \/ note'.at = "verify" /\ note'.subs = note.subs
    BY <1>1, <1>5 DEF CallStartNotify, GiveUp, NoteSet
  <2>3. note.at = "call"
    BY <1>5 DEF CallStartNotify
  <2> QED
    BY <1>1, <2>1, <2>2, <2>3 DEF NoteFits, Setup, Loss, Observer
<1>6. CASE Verify
  <2>1. SameTold /\ device' = device /\ note.at = "verify" /\ note'.subs = note.subs
    BY <1>1, <1>6 DEF Verify, NoteSet
  <2>2. note'.at = "rollback" \/ (note'.at = "confirm" /\ device.notifying)
    BY <1>1, <1>6 DEF Verify, NoteSet
  <2> QED
    BY <1>1, <2>1, <2>2 DEF NoteFits, Setup, Loss, Observer
<1>7. CASE Confirm
  <2>1. SameTold /\ device' = device /\ note.at = "confirm" /\ note'.subs = note.subs
    BY <1>1, <1>7 DEF Confirm, NoteSet
  <2>2. note'.at = "rollback" \/ note'.at = "open"
    BY <1>1, <1>7 DEF Confirm, NoteSet
  <2> QED
    BY <1>1, <2>1, <2>2 DEF NoteFits, Setup, Loss, Observer
<1>8. CASE StopNotify
  <2>1. SameTold /\ device' = device
    BY <1>1, <1>8 DEF StopNotify, NoteSet
  <2>2. \/ note'.at \in {"stopped", "failed"}
        \/ note'.at = note.at /\ note'.subs = note.subs
    BY <1>1, <1>8 DEF StopNotify, NoteSet
  <2> QED
    BY <1>2, <2>1, <2>2 DEF Setup
<1>9. CASE StopNotifyEnd
  <2>1. SameTold
    BY <1>1, <1>9 DEF StopNotifyEnd, NoteSet
  <2>2. \/ note'.at \in {"stopped", "failed"}
        \/ note'.at = note.at /\ note'.subs = note.subs /\ device' = device
    BY <1>1, <1>9 DEF StopNotifyEnd, NoteSet
  <2>3. CASE note'.at \in {"stopped", "failed"}
    BY <2>1, <2>3 DEF NoteFits, Setup
  <2> QED
    BY <1>2, <2>1, <2>2, <2>3
<1>10. CASE WaitBegin \/ WaitSubscribe \/ WaitRead \/ WaitCheck \/ WaitTimeout \/ Write \/ WriteEnd
  <2>1. note' = note /\ told' = told /\ device' = device
    BY <1>10 DEF WaitBegin, WaitSubscribe, WaitRead, WaitCheck, WaitTimeout, Write, WriteEnd
  <2>2. past'.lost = past.lost
    BY <1>1, <1>10 DEF WaitBegin, WaitSubscribe, WaitRead, WaitCheck, WaitTimeout, Write, WriteEnd, PastSet
  <2> QED
    BY <1>2, <2>1, <2>2
<1> QED
  BY <1>3, <1>4, <1>5, <1>6, <1>7, <1>8, <1>9, <1>10 DEF Calls

\* The first loss is told, and nothing after it.
LEMMA DeliverNote ==
  ASSUME GattTypeOK, NoteFits, Deliver
  PROVE  NoteFits'
<1> DEFINE n == Len(signals)
           s == Head(signals)
<1>1. /\ n \in Nat \ {0} /\ DOMAIN signals = 1 .. n /\ DOMAIN signals' = 1 .. n - 1
      /\ \A k \in 1 .. n - 1 : signals'[k] = signals[k + 1]
      /\ s = signals[1]
  BY RestAt DEF Deliver
<1>2. /\ device' = device /\ past'.lost = past.lost /\ NoteHears(s)
  BY DEF Deliver, Heard, GattTypeOK, PastSet
<1>3. note \in NoteSet /\ told \in Seq({"value", "invalidated"}) /\ note.invalidated \in BOOLEAN
  BY Fields DEF GattTypeOK
<1> HIDE DEF n, s
<1>4. \A j \in 1 .. n : j # 1 => j - 1 \in 1 .. n - 1 /\ signals'[j - 1] = signals[j]
  <2>1. \A j \in 1 .. n : j # 1 => j - 1 \in 1 .. n - 1 /\ (j - 1) + 1 = j
    BY <1>1
  <2> QED
    BY <1>1, <2>1
<1>5. \A k \in 1 .. n : Observer(signals[k]) \in Observers
  BY DEF Observer, Observers
<1> DEFINE hears == Observer(s) \in note.subs /\ <<"note", Observer(s)>> \in s.to /\ ~note.invalidated
<1>6. CASE hears /\ Loss(s)
  <2>1. note' = [note EXCEPT !.invalidated = TRUE] /\ told' = Append(told, "invalidated")
    BY <1>2, <1>6 DEF NoteHears
  <2>2. note'.invalidated /\ note'.at = note.at /\ note'.subs = note.subs
    BY <1>3, <2>1 DEF NoteSet
  <2>3. /\ DOMAIN told' = 1 .. Len(told) + 1 /\ Len(told') = Len(told) + 1 /\ Len(told) \in Nat
        /\ \A k \in 1 .. Len(told) : told'[k] = told[k] /\ told'[Len(told) + 1] = "invalidated"
        /\ DOMAIN told = 1 .. Len(told) /\ told'[Len(told) + 1] = "invalidated"
    BY <1>3, <2>1
  <2>4. \A k \in DOMAIN told : told[k] # "invalidated"
    BY <1>6 DEF NoteFits
  <2>5. \A k \in DOMAIN told' : told'[k] = "invalidated" => k = Len(told')
    BY <2>3, <2>4
  <2>6. \E k \in DOMAIN told' : told'[k] = "invalidated"
    BY <2>3
  <2> QED
    BY <1>2, <2>2, <2>5, <2>6 DEF NoteFits
<1>7. CASE ~(hears /\ Loss(s))
  <2>1. note' = note /\ (told' = told \/ (~note.invalidated /\ told' = Append(told, "value")))
    BY <1>2, <1>7 DEF NoteHears
  <2>2. /\ note.invalidated <=> \E k \in DOMAIN told' : told'[k] = "invalidated"
        /\ \A k \in DOMAIN told' : told'[k] = "invalidated" => k = Len(told')
    <3>1. CASE told' = told
      BY <3>1 DEF NoteFits
    <3>2. CASE ~note.invalidated /\ told' = Append(told, "value")
      <4>1. /\ DOMAIN told' = 1 .. Len(told) + 1 /\ DOMAIN told = 1 .. Len(told) /\ Len(told) \in Nat
            /\ \A k \in 1 .. Len(told) : told'[k] = told[k]
            /\ told'[Len(told) + 1] = "value"
        BY <1>3, <3>2
      <4>2. \A k \in DOMAIN told : told[k] # "invalidated"
        BY <3>2 DEF NoteFits
      <4>3. \A k \in DOMAIN told' : told'[k] # "invalidated"
        BY <4>1, <4>2
      <4> QED
        BY <3>2, <4>3
    <3> QED
      BY <2>1, <3>1, <3>2
  <2>3. ASSUME note.at \in Setup, past.lost, ~note.invalidated
        PROVE  \E k \in DOMAIN signals' :
                 Loss(signals'[k]) /\ <<"note", Observer(signals'[k])>> \in signals'[k].to
    <3>1. PICK k \in 1 .. n : Loss(signals[k]) /\ <<"note", Observer(signals[k])>> \in signals[k].to
      BY <1>1, <2>3 DEF NoteFits
    <3>2. k # 1
      <4>1. note.subs = Observers
        BY <2>3 DEF NoteFits
      <4>2. (hears /\ Loss(s)) \/ k # 1
        BY <1>1, <1>5, <2>3, <3>1, <4>1
      <4> QED
        BY <1>7, <4>2
    <3> QED
      BY <1>1, <1>4, <3>1, <3>2
  <2>4. (\E k \in DOMAIN signals' : Loss(signals'[k]) /\ <<"note", Observer(signals'[k])>> \in signals'[k].to)
        = (\E k \in DOMAIN signals : Loss(signals[k]) /\ <<"note", Observer(signals[k])>> \in signals[k].to)'
    BY DEF Loss, Observer
  <2> QED
    BY <1>2, <2>1, <2>2, <2>3, <2>4 DEF NoteFits
<1> QED
  BY <1>6, <1>7

\* A loss is sent to the observers.
LEMMA SendingNote ==
  ASSUME GattTypeOK, NoteFits, Sending
  PROVE  NoteFits'
<1>1. UNCHANGED <<note, told>>
  BY SendingStill
<1>2. /\ \A k \in DOMAIN signals : k \in DOMAIN signals' /\ signals'[k] = signals[k]
      /\ \A k \in DOMAIN signals' : k \in DOMAIN signals \/ Now(signals'[k])
  BY Sent
<1> DEFINE Told == \E k \in DOMAIN signals' :
                     Loss(signals'[k]) /\ <<"note", Observer(signals'[k])>> \in signals'[k].to
<1>3. past.lost \in BOOLEAN /\ past \in PastSet
  BY Fields DEF GattTypeOK
<1>4. /\ note.at \in Setup /\ past'.lost /\ ~note.invalidated => Told
      /\ note.at \in {"confirm", "open"} /\ ~past'.lost => device'.notifying
      /\ note.at = "subscribe" => ~past'.lost
  <2>1. CASE past'.lost = past.lost /\ device'.notifying = device.notifying
    BY <1>2, <2>1 DEF NoteFits
  <2>2. CASE MarkLoss /\ \E k \in DOMAIN signals' : k \notin DOMAIN signals /\ Loss(signals'[k])
    <3>1. PICK k \in DOMAIN signals' : Now(signals'[k]) /\ Loss(signals'[k])
      BY <1>2, <2>2
    <3>2. note.at \in Setup => Told
      <4>1. Observer(signals'[k]) \in Observers
        BY DEF Observer, Observers
      <4>2. note.at \in Setup => <<"note", Observer(signals'[k])>> \in signals'[k].to
        BY <3>1, <4>1 DEF Now, NoteFits
      <4> QED
        BY <3>1, <4>2
    <3>3. past'.lost = (past.lost \/ note.at \in Setup)
      BY <1>3, <2>2 DEF MarkLoss, PastSet, Setup
    <3> QED
      BY <3>2, <3>3 DEF NoteFits, Setup
  <2> QED
    BY <2>1, <2>2, LossSent
<1>5. Told = (\E k \in DOMAIN signals : Loss(signals[k]) /\ <<"note", Observer(signals[k])>> \in signals[k].to)'
  BY DEF Loss, Observer
<1> QED
  BY <1>1, <1>4, <1>5 DEF NoteFits

\* Every step.
LEMMA NoteStep ==
  ASSUME GattTypeOK, NoteFits, [GattNext]_gattVars
  PROVE  NoteFits'
<1>1. CASE GattNext
  BY <1>1, Cases, CallsNote, DeliverNote, SendingNote
<1>2. CASE UNCHANGED gattVars
  BY <1>2 DEF gattVars, NoteFits, Loss, Observer
<1> QED
  BY <1>1, <1>2

-----------------------------------------------------------------------------
(* The wait.                                                               *)

\* A wait that succeeds knows its services resolved.
LEMMA KnownGood ==
  ASSUME GattTypeOK
  PROVE  /\ Known(wait) \in WaitSet
         /\ Known(wait).resolved = KnownResolved /\ Known(wait).readResolved = wait.readResolved
         /\ Known(wait).failure = wait.failure /\ Known(wait).at = wait.at
         /\ Known(wait).subs = wait.subs /\ Known(wait).result = wait.result
         /\ Verdict(Known(wait)) = "ok" => ~wait.failure /\ KnownResolved = "yes"
<1>1. wait \in WaitSet
  BY DEF GattTypeOK
<1>2. /\ Known(wait) \in WaitSet
      /\ Known(wait).resolved = KnownResolved /\ Known(wait).readResolved = wait.readResolved
      /\ Known(wait).failure = wait.failure /\ Known(wait).at = wait.at
      /\ Known(wait).subs = wait.subs /\ Known(wait).result = wait.result
  BY <1>1 DEF WaitSet, Words, Known, KnownResolved
<1>3. Verdict(Known(wait)) = "ok" => ~Known(wait).failure /\ Known(wait).resolved = "yes"
  BY DEF Verdict
<1> QED
  BY <1>2, <1>3

\* What a wait that takes its services for resolved relies on.
Relies ==
  /\ past.ready >= 0 /\ past.ready > past.loss
  /\ device.present /\ ~device.resolved =>
       \E k \in DOMAIN signals : Gone(signals[k]) /\ signals[k].at > past.since
  /\ \A k \in DOMAIN signals : Cut(signals[k]) /\ signals[k].at >= past.ready =>
       \E j \in DOMAIN signals : j < k /\ Gone(signals[j]) /\ signals[j].at > past.since

\* Of the device's services being there now, a wait has cause.
LEMMA ReadyRelies ==
  ASSUME GattTypeOK, SignalsFit, WaitFits, wait.at # "idle", device.resolved
  PROVE  Relies
<1>1. Ready
  BY DEF SignalsFit, Ready
<1>2. \A k \in DOMAIN signals : Cut(signals[k]) => Loss(signals[k])
  BY DEF Cut, Loss
<1>3. /\ past.ready >= 0 /\ past.ready > past.loss
      /\ \A k \in DOMAIN signals : Loss(signals[k]) => past.ready > signals[k].at
  BY <1>1 DEF WaitFits
<1>4. past.ready \in Int /\ \A k \in DOMAIN signals : signals[k].at \in Nat
  BY SignalAt, Fields
<1> QED
  BY <1>2, <1>3, <1>4 DEF Relies

\* Calls that concern no wait.
LEMMA OtherCalls ==
  ASSUME GattTypeOK, WaitFits, Calls, wait' = wait,
         past'.ready = past.ready, past'.loss = past.loss, past'.since = past.since,
         past'.stale = past.stale
  PROVE  WaitFits'
<1>1. Still /\ spent'.changes = spent.changes
  BY CallsStill
<1>2. Ready' = Ready /\ KnownResolved' = KnownResolved
  BY <1>1 DEF Still, Ready, KnownResolved
<1> QED
  BY <1>1, <1>2 DEF WaitFits, Still, Loss, Gained, Gone, Cut

\* A wait that ends, or goes on with what it knows.
LEMMA WaitGoesOn ==
  ASSUME GattTypeOK, WaitFits, Calls, past' = past,
         \/ wait.at # "idle" /\ wait'.at = "end" /\ wait'.subs = {}
         \/ /\ wait.at \in Waiting /\ wait'.at \in Waiting /\ wait'.subs = wait.subs
            /\ wait'.result = wait.result /\ wait'.failure = wait.failure
            /\ KnownResolved' = "yes" => KnownResolved = "yes" \/ Relies
  PROVE  WaitFits'
<1>1. Still /\ spent'.changes = spent.changes
  BY CallsStill
<1>2. Ready' = Ready /\ Relies' = Relies
  BY <1>1 DEF Still, Ready, Relies, Gone, Cut
<1>3. /\ past'.since <= spent'.changes /\ past'.loss <= spent'.changes
      /\ \A k \in DOMAIN signals' :
           past'.loss < signals'[k].at \/ (past'.loss = signals'[k].at /\ Loss(signals'[k]))
  BY <1>1 DEF WaitFits, Still, Loss
<1>4. Ready' =>
        /\ past'.ready >= 0 /\ past'.ready > past'.loss
        /\ \A k \in DOMAIN signals' : Loss(signals'[k]) => past'.ready > signals'[k].at
  BY <1>1, <1>2 DEF WaitFits, Still, Loss, Waiting
<1>5. CASE wait.at # "idle" /\ wait'.at = "end" /\ wait'.subs = {}
  BY <1>3, <1>4, <1>5 DEF WaitFits, Waiting, Loss
<1>6. CASE /\ wait.at \in Waiting /\ wait'.at \in Waiting /\ wait'.subs = wait.subs
           /\ wait'.result = wait.result /\ wait'.failure = wait.failure
           /\ KnownResolved' = "yes" => KnownResolved = "yes" \/ Relies
  <2>1. \A k \in DOMAIN signals' :
          signals'[k].at > past'.since =>
            /\ {"wait"} \X Observers \subseteq signals'[k].to
            /\ Gained(signals'[k]) => past'.ready >= signals'[k].at
    BY <1>1, <1>6 DEF WaitFits, Still, Gained
  <2>2. (~past'.stale /\ ~wait'.failure /\ KnownResolved' = "yes") => Relies'
    BY <1>2, <1>6 DEF WaitFits, Relies
  <2>3. wait'.at # "subscribe" /\ wait'.at # "end" /\ wait.at # "end" /\ wait'.result = "none"
    BY <1>6 DEF WaitFits, Waiting
  <2>4. wait'.subs = Observers
    BY <1>6 DEF WaitFits
  <2> QED
    BY <1>3, <1>4, <1>6, <2>1, <2>2, <2>3, <2>4 DEF WaitFits, Relies, Loss, Gained, Gone, Cut
<1> QED
  BY <1>5, <1>6

\* Calls: a new wait has heard of nothing, and none is under way to it; what it
\* reads as resolved is so.
LEMMA CallsWait ==
  ASSUME GattTypeOK, SignalsFit, WaitFits, Calls
  PROVE  WaitFits'
<1>1. wait \in WaitSet /\ past \in PastSet /\ spent.changes \in Nat
  BY Fields DEF GattTypeOK
<1>2. Still /\ spent'.changes = spent.changes
  BY CallsStill
<1>3. /\ \A k \in DOMAIN signals : signals[k].at \in Nat
      /\ \A k \in DOMAIN signals : signals[k].at <= spent.changes
  BY SignalAt DEF SignalsFit
<1>4. CASE WaitBegin
  <2>1. /\ wait'.at = "subscribe" /\ wait'.subs = {} /\ wait'.resolved = "unknown"
        /\ wait'.readResolved = "unknown" /\ wait'.result = "none"
    BY <1>4 DEF WaitBegin
  <2>2. /\ past'.loss = -1 /\ past'.since = past.since
        /\ past'.ready = IF Ready THEN spent.changes ELSE -1
    BY <1>1, <1>4 DEF WaitBegin, PastSet
  <2>3. signals' = signals /\ Ready' = Ready
    BY <1>2 DEF Still, Ready
  <2>4. \A k \in DOMAIN signals' : past'.loss < signals'[k].at
    BY <1>3, <2>2, <2>3
  <2>5. Ready' => /\ past'.ready >= 0 /\ past'.ready > past'.loss
                  /\ \A k \in DOMAIN signals' : Loss(signals'[k]) => past'.ready > signals'[k].at
    BY <1>1, <1>3, <2>2, <2>3 DEF SignalsFit
  <2>6. past'.since <= spent'.changes /\ past'.loss <= spent'.changes
    BY <1>1, <1>2, <2>2 DEF WaitFits
  <2> QED
    BY <2>1, <2>4, <2>5, <2>6 DEF WaitFits, Waiting, Loss
<1>5. CASE WaitSubscribe /\ wait'.at = "end"
  <2>1. wait.at # "idle" /\ past' = past /\ wait'.subs = {}
    BY <1>1, <1>5 DEF WaitSubscribe, WaitEnd, WaitSet
  <2> QED
    BY <1>5, <2>1, WaitGoesOn
<1>6. CASE WaitSubscribe /\ wait'.at # "end"
  <2>1. /\ wait' = [wait EXCEPT !.subs = Observers, !.at = "resolved"]
        /\ past' = [past EXCEPT !.since = spent.changes] /\ wait.at = "subscribe"
    BY <1>1, <1>6 DEF WaitSubscribe, WaitEnd, WaitSet
  <2>2. /\ wait'.subs = Observers /\ wait'.at = "resolved" /\ wait'.result = wait.result
        /\ wait'.resolved = wait.resolved /\ wait'.readResolved = wait.readResolved
    BY <1>1, <2>1 DEF WaitSet
  <2>3. past'.since = spent.changes /\ past'.loss = past.loss /\ past'.ready = past.ready
    BY <1>1, <2>1 DEF PastSet
  <2>4. wait'.result = "none" /\ wait'.resolved = "unknown" /\ wait'.readResolved = "unknown"
    BY <2>1, <2>2 DEF WaitFits
  <2>5. KnownResolved' # "yes"
    BY <2>4 DEF KnownResolved
  <2>6. signals' = signals /\ Ready' = Ready
    BY <1>2 DEF Still, Ready
  <2>7. \A k \in DOMAIN signals' : ~(signals'[k].at > past'.since)
    BY <1>1, <1>3, <2>3, <2>6
  <2>8. /\ past'.since <= spent'.changes /\ past'.loss <= spent'.changes
        /\ \A k \in DOMAIN signals' :
             past'.loss < signals'[k].at \/ (past'.loss = signals'[k].at /\ Loss(signals'[k]))
    BY <1>1, <1>2, <2>3, <2>6 DEF WaitFits, Loss
  <2>9. Ready' => /\ past'.ready >= 0 /\ past'.ready > past'.loss
                  /\ \A k \in DOMAIN signals' : Loss(signals'[k]) => past'.ready > signals'[k].at
    BY <2>1, <2>3, <2>6 DEF WaitFits, Loss
  <2> QED
    BY <2>2, <2>4, <2>5, <2>7, <2>8, <2>9 DEF WaitFits, Waiting, Loss
<1>7. CASE WaitRead \/ WaitTimeout
  <2>1. /\ past' = past
        /\ wait.at \in Waiting
        /\ \/ wait'.at = "end" /\ wait'.subs = {}
           \/ /\ wait.at = "resolved" /\ device.present
              /\ wait' = [wait EXCEPT !.at = "connected", !.readResolved = Word(device.resolved)]
           \/ wait' = [wait EXCEPT !.at = "check", !.readConnected = Word(device.connected)]
    BY <1>1, <1>7 DEF WaitRead, WaitTimeout, WaitEnd, WaitSet, Waiting
  <2>2. CASE wait'.at = "end" /\ wait'.subs = {}
    BY <2>1, <2>2, WaitGoesOn DEF Waiting
  <2>3. CASE wait' = [wait EXCEPT !.at = "connected", !.readResolved = Word(device.resolved)]
    <3>1. /\ wait'.at = "connected" /\ wait'.subs = wait.subs /\ wait'.result = wait.result
          /\ wait'.failure = wait.failure /\ wait'.resolved = wait.resolved
          /\ wait'.readResolved = Word(device.resolved)
      BY <1>1, <2>3 DEF WaitSet
    <3>2. KnownResolved' = "yes" => KnownResolved = "yes" \/ device.resolved
      BY <3>1 DEF KnownResolved, Word
    <3>3. wait.at # "idle"
      BY <2>1 DEF Waiting
    <3>4. KnownResolved' = "yes" => KnownResolved = "yes" \/ Relies
      BY <3>2, <3>3, ReadyRelies
    <3>5. wait'.at \in Waiting
      BY <3>1 DEF Waiting
    <3> QED
      BY <2>1, <3>1, <3>4, <3>5, WaitGoesOn
  <2>4. CASE wait' = [wait EXCEPT !.at = "check", !.readConnected = Word(device.connected)]
    <3>1. /\ wait'.at = "check" /\ wait'.subs = wait.subs /\ wait'.result = wait.result
          /\ wait'.failure = wait.failure /\ wait'.resolved = wait.resolved
          /\ wait'.readResolved = wait.readResolved
      BY <1>1, <2>4 DEF WaitSet
    <3>2. KnownResolved' = KnownResolved /\ wait'.at \in Waiting
      BY <3>1 DEF KnownResolved, Waiting
    <3> QED
      BY <2>1, <3>1, <3>2, WaitGoesOn
  <2> QED
    BY <2>1, <2>2, <2>3, <2>4
<1>8. CASE WaitCheck
  <2> DEFINE w == Known(wait)
  <2>1. /\ w \in WaitSet /\ w.resolved = KnownResolved /\ w.readResolved = wait.readResolved
        /\ w.failure = wait.failure /\ w.subs = wait.subs /\ w.result = wait.result
    BY KnownGood
  <2>2. /\ past' = past /\ wait.at = "check"
        /\ \/ wait' = [w EXCEPT !.at = "sleep"]
           \/ wait' = [w EXCEPT !.at = "end", !.subs = {}, !.result = Verdict(w)]
    BY <1>8 DEF WaitCheck
  <2> HIDE DEF w
  <2>3. CASE wait' = [w EXCEPT !.at = "sleep"]
    <3>1. /\ wait'.at = "sleep" /\ wait'.subs = wait.subs /\ wait'.result = wait.result
          /\ wait'.failure = wait.failure /\ wait'.resolved = KnownResolved
          /\ wait'.readResolved = wait.readResolved
      BY <2>1, <2>3 DEF WaitSet
    <3>2. KnownResolved' = KnownResolved
      BY <3>1 DEF KnownResolved
    <3>3. wait.at \in Waiting /\ wait'.at \in Waiting
      BY <2>2, <3>1 DEF Waiting
    <3> QED
      BY <2>2, <3>1, <3>2, <3>3, WaitGoesOn
  <2>4. CASE wait' = [w EXCEPT !.at = "end", !.subs = {}, !.result = Verdict(w)]
    <3>1. wait'.at = "end" /\ wait'.subs = {} /\ wait.at # "idle"
      BY <2>1, <2>2, <2>4 DEF WaitSet
    <3> QED
      BY <2>2, <3>1, WaitGoesOn
  <2> QED
    BY <2>2, <2>3, <2>4
<1>9. CASE StartNotify \/ InstallObserver \/ CallStartNotify \/ Verify \/ Confirm \/ StopNotify
           \/ StopNotifyEnd \/ Write \/ WriteEnd
  <2>1. wait' = wait /\ (past' = past \/ past' = [past EXCEPT !.lost = FALSE])
    BY <1>9 DEF StartNotify, InstallObserver, CallStartNotify, Verify, Confirm, StopNotify, StopNotifyEnd,
                Write, WriteEnd
  <2>2. /\ past'.ready = past.ready /\ past'.loss = past.loss /\ past'.since = past.since
        /\ past'.stale = past.stale
    BY <1>1, <2>1 DEF PastSet
  <2> QED
    BY <2>1, <2>2, OtherCalls
<1> QED
  BY <1>4, <1>5, <1>6, <1>7, <1>8, <1>9 DEF Calls

\* What the callback does to the wait.
LEMMA HearsWait ==
  ASSUME GattTypeOK, NEW s \in SignalSet, WaitHears(s), past' = Heard(s)
  PROVE  /\ ~WaitGets(s) => wait' = wait /\ past' = past
         /\ WaitGets(s) =>
              /\ wait'.at = IF wait.at = "sleep" THEN "check" ELSE wait.at
              /\ wait'.subs = wait.subs /\ wait'.readResolved = wait.readResolved
              /\ wait'.result = wait.result
              /\ wait'.resolved = IF s.kind = "resolved" THEN Word(s.on) ELSE wait.resolved
              /\ wait'.failure = (wait.failure \/ s.kind \in {"owner", "removed"})
              /\ past'.loss = IF Loss(s) THEN s.at ELSE past.loss
              /\ past'.stale = (past.stale \/ s.at <= past.since)
              /\ past'.ready = past.ready /\ past'.since = past.since
<1>1. wait \in WaitSet /\ past \in PastSet /\ s.kind \in Kinds
  BY DEF GattTypeOK, SignalSet
<1>2. ASSUME WaitGets(s)
      PROVE  /\ past'.loss = IF Loss(s) THEN s.at ELSE past.loss
             /\ past'.stale = (past.stale \/ s.at <= past.since)
             /\ past'.ready = past.ready /\ past'.since = past.since
  BY <1>1, <1>2 DEF Heard, PastSet
<1>3. ASSUME WaitGets(s)
      PROVE  /\ wait'.at = IF wait.at = "sleep" THEN "check" ELSE wait.at
             /\ wait'.subs = wait.subs /\ wait'.readResolved = wait.readResolved
             /\ wait'.result = wait.result
             /\ wait'.resolved = IF s.kind = "resolved" THEN Word(s.on) ELSE wait.resolved
             /\ wait'.failure = (wait.failure \/ s.kind \in {"owner", "removed"})
  <2>1. PICK w : /\ w = CASE s.kind = "connected" -> [wait EXCEPT !.connected = Word(s.on), !.observed = TRUE]
                         [] s.kind = "resolved" -> [wait EXCEPT !.resolved = Word(s.on)]
                         [] s.kind \in {"owner", "removed"} -> [wait EXCEPT !.failure = TRUE]
                         [] OTHER -> wait
                 /\ wait' = IF wait.at = "sleep" THEN [w EXCEPT !.at = "check"] ELSE w
    BY <1>3 DEF WaitHears
  <2>2. Word(s.on) \in Words
    BY DEF Word, Words
  <2>3. /\ w \in WaitSet
        /\ w.at = wait.at /\ w.subs = wait.subs /\ w.readResolved = wait.readResolved
        /\ w.result = wait.result
        /\ w.resolved = IF s.kind = "resolved" THEN Word(s.on) ELSE wait.resolved
        /\ w.failure = (wait.failure \/ s.kind \in {"owner", "removed"})
    <3>1. CASE s.kind = "connected"
      BY <1>1, <2>1, <2>2, <3>1 DEF WaitSet
    <3>2. CASE s.kind = "resolved"
      BY <1>1, <2>1, <2>2, <3>2 DEF WaitSet
    <3>3. CASE s.kind \in {"owner", "removed"}
      BY <1>1, <2>1, <3>3 DEF WaitSet
    <3>4. CASE s.kind = "value"
      BY <1>1, <2>1, <3>4 DEF WaitSet
    <3> QED
      BY <1>1, <3>1, <3>2, <3>3, <3>4 DEF Kinds
  <2> QED
    BY <2>1, <2>3 DEF WaitSet
<1>4. ASSUME ~WaitGets(s) PROVE wait' = wait /\ past' = past
  BY <1>4 DEF WaitHears, Heard
<1> QED
  BY <1>2, <1>3, <1>4

\* A wait hears its signals in order: a gain counts from its change on, a loss
\* of the connection is preceded by one of the services.
LEMMA DeliverWait ==
  ASSUME GattTypeOK, SignalsFit, WaitFits, Deliver
  PROVE  WaitFits'
<1> DEFINE n == Len(signals)
           s == Head(signals)
<1>1. /\ n \in Nat \ {0} /\ DOMAIN signals = 1 .. n /\ DOMAIN signals' = 1 .. n - 1
      /\ \A k \in 1 .. n - 1 : signals'[k] = signals[k + 1]
      /\ s = signals[1] /\ 1 \in 1 .. n
  BY RestAt DEF Deliver
<1>2. /\ \A k \in 1 .. n : signals[k].at \in Nat
      /\ s \in SignalSet /\ s.at \in Nat /\ s.on \in BOOLEAN /\ s.kind \in Kinds
  BY <1>1, SignalAt
<1>3. UNCHANGED <<device, spent>> /\ WaitHears(s) /\ past' = Heard(s)
  BY DEF Deliver
<1> HIDE DEF n, s
<1>4. /\ ~WaitGets(s) => wait' = wait /\ past' = past
      /\ WaitGets(s) =>
           /\ wait'.at = IF wait.at = "sleep" THEN "check" ELSE wait.at
           /\ wait'.subs = wait.subs /\ wait'.readResolved = wait.readResolved
           /\ wait'.result = wait.result
           /\ wait'.resolved = IF s.kind = "resolved" THEN Word(s.on) ELSE wait.resolved
           /\ wait'.failure = (wait.failure \/ s.kind \in {"owner", "removed"})
           /\ past'.loss = IF Loss(s) THEN s.at ELSE past.loss
           /\ past'.stale = (past.stale \/ s.at <= past.since)
           /\ past'.ready = past.ready /\ past'.since = past.since
  BY <1>2, <1>3, HearsWait
<1>5. /\ past.ready \in Int /\ past.loss \in Int /\ past.since \in Nat /\ spent.changes \in Nat
      /\ past.stale \in BOOLEAN /\ wait.failure \in BOOLEAN
  BY Fields
<1>6. Ready' = Ready
  BY <1>3 DEF Ready
<1>7. /\ wait'.at \in Waiting <=> wait.at \in Waiting
      /\ wait'.subs = wait.subs
      /\ past'.ready = past.ready /\ past'.since = past.since
      /\ wait'.at = wait.at \/ (wait.at = "sleep" /\ wait'.at = "check")
      /\ wait'.result = wait.result
  BY <1>4 DEF Waiting
<1>8. \A k \in 1 .. n - 1 :
        /\ signals'[k] = signals[k + 1] /\ k + 1 \in 1 .. n /\ 1 < k + 1
  BY <1>1
<1>9. \A j \in 1 .. n : j # 1 => j - 1 \in 1 .. n - 1 /\ signals'[j - 1] = signals[j]
  <2>1. \A j \in 1 .. n : j # 1 => j - 1 \in 1 .. n - 1 /\ (j - 1) + 1 = j
    BY <1>1
  <2> QED
    BY <1>1, <2>1
<1>10. past'.loss <= spent'.changes /\ past'.since <= spent'.changes
  <2>1. s.at <= spent.changes
    BY <1>1 DEF SignalsFit
  <2> QED
    BY <1>3, <1>4, <1>7, <2>1 DEF WaitFits
<1>11. \A k \in 1 .. n - 1 :
         past'.loss < signals'[k].at \/ (past'.loss = signals'[k].at /\ Loss(signals'[k]))
  <2>1. \A k \in 1 .. n - 1 :
          past.loss < signals'[k].at \/ (past.loss = signals'[k].at /\ Loss(signals'[k]))
    <3>1. \A k \in 1 .. n :
            past.loss < signals[k].at \/ (past.loss = signals[k].at /\ Loss(signals[k]))
      BY <1>1 DEF WaitFits
    <3> QED
      BY <1>8, <3>1
  <2>2. \A k \in 1 .. n - 1 :
          s.at < signals'[k].at \/ (s.at = signals'[k].at /\ Loss(signals'[k]))
    <3>1. \A k \in 1 .. n : 1 < k =>
            s.at < signals[k].at \/ (s.at = signals[k].at /\ Loss(signals[k]))
      BY <1>1 DEF SignalsFit
    <3> QED
      BY <1>8, <3>1
  <2>3. past'.loss = past.loss \/ past'.loss = s.at
    BY <1>4
  <2> QED
    BY <2>1, <2>2, <2>3
<1>12. wait'.at # "idle" /\ Ready' =>
         /\ past'.ready >= 0 /\ past'.ready > past'.loss
         /\ \A k \in 1 .. n - 1 : Loss(signals'[k]) => past'.ready > signals'[k].at
  <2>1. SUFFICES ASSUME wait'.at # "idle", Ready
                 PROVE  /\ past'.ready >= 0 /\ past'.ready > past'.loss
                        /\ \A k \in 1 .. n - 1 : Loss(signals'[k]) => past'.ready > signals'[k].at
    BY <1>6
  <2>2. /\ past.ready >= 0 /\ past.ready > past.loss
        /\ \A k \in 1 .. n : Loss(signals[k]) => past.ready > signals[k].at
    BY <1>1, <1>7, <2>1 DEF WaitFits
  <2>3. past'.loss = past.loss \/ (past'.loss = s.at /\ Loss(s))
    BY <1>4
  <2> QED
    BY <1>1, <1>7, <1>8, <2>2, <2>3
<1>13. wait'.at \in Waiting => \A k \in 1 .. n - 1 :
         signals'[k].at > past'.since =>
           /\ {"wait"} \X Observers \subseteq signals'[k].to
           /\ Gained(signals'[k]) => past'.ready >= signals'[k].at
  BY <1>1, <1>7, <1>8 DEF WaitFits
<1>14. ASSUME wait'.at \in Waiting, ~past'.stale, ~wait'.failure, KnownResolved' = "yes"
       PROVE  /\ past'.ready >= 0 /\ past'.ready > past'.loss
              /\ device'.present /\ ~device'.resolved =>
                   \E k \in 1 .. n - 1 : Gone(signals'[k]) /\ signals'[k].at > past'.since
              /\ \A k \in 1 .. n - 1 : Cut(signals'[k]) /\ signals'[k].at >= past'.ready =>
                   \E j \in 1 .. n - 1 : j < k /\ Gone(signals'[j]) /\ signals'[j].at > past'.since
  <2>1. wait.at \in Waiting /\ wait.subs = Observers
    BY <1>7, <1>14 DEF WaitFits
  <2>2. WaitGets(s) \/ s.at <= past.since
    <3>1. s.at > past.since => {"wait"} \X Observers \subseteq s.to
      BY <1>1, <2>1 DEF WaitFits
    <3>2. <<"wait", "owner">> \in {"wait"} \X Observers /\ "owner" \in Observers
      BY DEF Observers
    <3>3. s.at > past.since \/ s.at <= past.since
      BY <1>2, <1>5
    <3> QED
      BY <2>1, <3>1, <3>2, <3>3 DEF WaitGets
  <2>3. CASE WaitGets(s) /\ s.kind = "resolved"
    <3>1. Gained(s) /\ ~Loss(s) /\ ~past.stale /\ s.at > past.since
      <4>1. wait'.resolved = Word(s.on) /\ ~past'.stale
        BY <1>4, <1>14, <2>3
      <4>2. s.on
        BY <1>14, <4>1 DEF KnownResolved, Word
      <4>3. ~past.stale /\ ~(s.at <= past.since)
        BY <1>4, <1>14, <2>3
      <4> QED
        BY <1>2, <1>5, <2>3, <4>2, <4>3 DEF Gained, Loss
    <3>2. past.ready >= s.at
      BY <1>1, <2>1, <3>1 DEF WaitFits
    <3>3. past.loss < s.at /\ past'.loss = past.loss
      BY <1>1, <1>4, <2>3, <3>1 DEF WaitFits
    <3>4. \A j \in 1 .. n : 1 < j => signals[j].at > past.since
      <4>1. \A j \in 1 .. n : 1 < j => s.at <= signals[j].at
        <5>1. \A j \in 1 .. n : 1 < j => s.at < signals[j].at \/ s.at = signals[j].at
          BY <1>1 DEF SignalsFit
        <5> QED
          BY <1>2, <5>1
      <4> QED
        BY <1>2, <1>5, <3>1, <4>1
    <3>5. ASSUME device'.present, ~device'.resolved
          PROVE  \E k \in 1 .. n - 1 : Gone(signals'[k]) /\ signals'[k].at > past'.since
      <4>1. PICK k \in 1 .. n : 1 < k /\ Gone(signals[k])
        BY <1>1, <1>3, <3>1, <3>5 DEF SignalsFit
      <4>2. k # 1 /\ signals[k].at > past.since
        BY <3>4, <4>1
      <4> QED
        BY <1>7, <1>9, <4>1, <4>2
    <3>6. ASSUME NEW k \in 1 .. n - 1, Cut(signals'[k])
          PROVE  \E j \in 1 .. n - 1 : j < k /\ Gone(signals'[j]) /\ signals'[j].at > past'.since
      <4>1. k + 1 \in 1 .. n /\ Cut(signals[k + 1]) /\ 1 < k + 1
        BY <1>8, <3>6
      <4>2. PICK j \in 1 .. n : 1 < j /\ j < k + 1 /\ Gone(signals[j])
        BY <1>1, <3>1, <4>1 DEF SignalsFit
      <4>3. signals[j].at > past.since /\ j # 1 /\ j - 1 < k
        BY <3>4, <4>2
      <4> QED
        BY <1>7, <1>9, <4>2, <4>3
    <3>7. past.ready >= 0 /\ past.ready > past.loss
      BY <1>2, <1>5, <3>2, <3>3
    <3> QED
      BY <1>7, <3>3, <3>5, <3>6, <3>7
  <2>4. CASE ~(WaitGets(s) /\ s.kind = "resolved")
    <3>1. ~past.stale /\ ~wait.failure /\ KnownResolved = "yes"
      BY <1>4, <1>14, <2>4 DEF KnownResolved
    <3>2. /\ past.ready >= 0 /\ past.ready > past.loss
          /\ device.present /\ ~device.resolved =>
               \E k \in 1 .. n : Gone(signals[k]) /\ signals[k].at > past.since
          /\ \A k \in 1 .. n : Cut(signals[k]) /\ signals[k].at >= past.ready =>
               \E j \in 1 .. n : j < k /\ Gone(signals[j]) /\ signals[j].at > past.since
      BY <1>1, <2>1, <3>1 DEF WaitFits
    <3>3. \A k \in 1 .. n : Gone(signals[k]) /\ signals[k].at > past.since => k # 1
      <4>1. s.at > past.since => s.kind # "resolved"
        BY <1>2, <1>5, <2>2, <2>4
      <4> QED
        BY <1>1, <4>1 DEF Gone
    <3>4. past.ready > past'.loss
      <4>1. CASE ~(WaitGets(s) /\ Loss(s))
        BY <1>4, <3>2, <4>1
      <4>2. CASE WaitGets(s) /\ Loss(s)
        <5>1. past'.loss = s.at
          BY <1>4, <4>2
        <5>2. s.kind \notin {"owner", "removed"}
          BY <1>4, <1>14, <4>2
        <5>3. Cut(s)
          BY <2>4, <4>2, <5>2 DEF Loss, Cut
        <5>4. ~(\E j \in 1 .. n : j < 1)
          BY <1>1
        <5>5. ~(s.at >= past.ready)
          BY <1>1, <3>2, <5>3, <5>4
        <5> QED
          BY <1>2, <1>5, <5>1, <5>5
      <4> QED
        BY <4>1, <4>2
    <3>5. ASSUME device'.present, ~device'.resolved
          PROVE  \E k \in 1 .. n - 1 : Gone(signals'[k]) /\ signals'[k].at > past'.since
      <4>1. PICK k \in 1 .. n : Gone(signals[k]) /\ signals[k].at > past.since
        BY <1>3, <3>2, <3>5
      <4> QED
        BY <1>7, <1>9, <3>3, <4>1
    <3>6. ASSUME NEW k \in 1 .. n - 1, Cut(signals'[k]), signals'[k].at >= past'.ready
          PROVE  \E j \in 1 .. n - 1 : j < k /\ Gone(signals'[j]) /\ signals'[j].at > past'.since
      <4>1. k + 1 \in 1 .. n /\ Cut(signals[k + 1]) /\ signals[k + 1].at >= past.ready
        BY <1>7, <1>8, <3>6
      <4>2. PICK j \in 1 .. n : j < k + 1 /\ Gone(signals[j]) /\ signals[j].at > past.since
        BY <3>2, <4>1
      <4>3. j # 1 /\ j - 1 < k
        BY <3>3, <4>2
      <4> QED
        BY <1>7, <1>9, <4>2, <4>3
    <3> QED
      BY <1>7, <3>2, <3>4, <3>5, <3>6
  <2> QED
    BY <2>3, <2>4
<1>15. /\ wait'.subs = IF wait'.at \in Waiting THEN Observers ELSE {}
       /\ wait'.result # "none" => wait'.at = "end"
  BY <1>7 DEF WaitFits
<1>16. wait'.at = "subscribe" => wait'.resolved = "unknown" /\ wait'.readResolved = "unknown"
  <2>1. wait'.at = "subscribe" => wait.at = "subscribe" /\ wait.subs = {}
    BY <1>7 DEF WaitFits, Waiting
  <2>2. wait.subs = {} => wait' = wait
    BY <1>4 DEF WaitGets
  <2> QED
    BY <2>1, <2>2 DEF WaitFits
<1> QED
  BY <1>1, <1>10, <1>11, <1>12, <1>13, <1>14, <1>15, <1>16 DEF WaitFits

\* What BlueZ says as services are lost, as the connection is, and as one returns.
LEMMA KindsSent ==
  ASSUME GattTypeOK, SignalsFit, Sending
  PROVE  /\ device'.present => device.present
         /\ device.resolved /\ ~device'.resolved /\ device'.present =>
              \E k \in DOMAIN signals' : k \notin DOMAIN signals /\ Gone(signals'[k])
         /\ \A k \in DOMAIN signals' : k \notin DOMAIN signals /\ Cut(signals'[k]) =>
              \/ device.present /\ ~device.resolved
              \/ \E j \in DOMAIN signals' : j \notin DOMAIN signals /\ j < k /\ Gone(signals'[j])
         /\ \A k \in DOMAIN signals' : k \notin DOMAIN signals /\ Loss(signals'[k]) => ~Ready'
         /\ \A k \in DOMAIN signals' : k \notin DOMAIN signals /\ Gained(signals'[k]) => past'.ready = spent.changes + 1
         /\ \/ past'.ready = past.ready /\ (Ready' => Ready)
            \/ past'.ready = spent.changes + 1
         /\ past'.loss = past.loss /\ past'.since = past.since /\ past'.stale = past.stale
<1>1. device \in DeviceSet /\ past \in PastSet /\ spent.changes \in Nat
  BY Fields DEF GattTypeOK
<1>2. /\ device.resolved => device.connected
      /\ device.connected => device.present
  BY DEF SignalsFit
<1>3. \A kind \in Kinds, on \in BOOLEAN :
        Signal(kind, on) \in SignalSet /\ Signal(kind, on).kind = kind /\ Signal(kind, on).on = on
  BY NewSignal
<1>4. /\ "resolved" \in Kinds /\ "connected" \in Kinds /\ "owner" \in Kinds /\ "removed" \in Kinds
      /\ "value" \in Kinds
  BY DEF Kinds
<1>5. MarkLoss => /\ past'.loss = past.loss /\ past'.since = past.since /\ past'.stale = past.stale
                  /\ past'.ready = past.ready
  BY <1>1 DEF MarkLoss, PastSet
<1> DEFINE n == Len(signals)
<1>6. n \in Nat /\ DOMAIN signals = 1 .. n
  BY SignalAt
<1>7. ASSUME NEW s \in SignalSet, signals' = Append(signals, s)
      PROVE  \A k \in DOMAIN signals' : k \notin DOMAIN signals <=> (k = n + 1 /\ signals'[k] = s)
  <2>1. /\ DOMAIN signals' = 1 .. n + 1 /\ DOMAIN signals = 1 .. n /\ signals'[n + 1] = s
    BY <1>7, OneSent
  <2> HIDE DEF n
  <2>2. \A k \in 1 .. n + 1 : k \notin 1 .. n <=> k = n + 1
    BY <1>6
  <2> QED
    BY <2>1, <2>2
<1>8. ASSUME NEW s \in SignalSet, signals' = Append(signals, s)
      PROVE  n + 1 \in DOMAIN signals' /\ n + 1 \notin DOMAIN signals /\ signals'[n + 1] = s
  <2>1. /\ DOMAIN signals' = 1 .. n + 1 /\ DOMAIN signals = 1 .. n /\ signals'[n + 1] = s
    BY <1>8, OneSent
  <2> HIDE DEF n
  <2>2. n + 1 \in 1 .. n + 1 /\ n + 1 \notin 1 .. n
    BY <1>6
  <2> QED
    BY <2>1, <2>2
<1>9. CASE DeviceDisconnects
  <2>1. /\ ~device'.connected /\ ~device'.resolved /\ device'.present = device.present /\ ~Ready'
        /\ device.connected /\ MarkLoss
    BY <1>1, <1>9 DEF DeviceDisconnects, DeviceSet, Ready
  <2>2. CASE device.resolved
    <3> DEFINE gone == Signal("resolved", FALSE)
               cut == Signal("connected", FALSE)
    <3>1. /\ DOMAIN signals' = 1 .. n + 2 /\ signals'[n + 1] = gone /\ signals'[n + 2] = cut
      BY <1>9, <2>2, CutSent
    <3>2. Gone(gone) /\ ~Gained(gone) /\ ~Cut(gone) /\ ~Gained(cut)
      BY <1>3, <1>4 DEF Gone, Gained, Cut
    <3> HIDE DEF n, gone, cut
    <3>3. /\ n + 1 \in 1 .. n + 2 /\ n + 1 \notin 1 .. n /\ n + 1 < n + 2
          /\ \A k \in 1 .. n + 2 : k \notin 1 .. n => k = n + 1 \/ k = n + 2
      BY <1>6
    <3> QED
      BY <1>5, <1>6, <2>1, <3>1, <3>2, <3>3
  <2>3. CASE ~device.resolved
    <3> DEFINE s == Signal("connected", FALSE)
    <3>1. s \in SignalSet /\ ~Gained(s)
      BY <1>3, <1>4 DEF Gained
    <3>2. signals' = Append(signals, s)
      <4>1. signals \in Seq(SignalSet) /\ signals \o <<>> = signals
        BY DEF GattTypeOK
      <4>2. signals' = signals \o <<s>>
        BY <1>9, <2>3, <4>1 DEF DeviceDisconnects
      <4> HIDE DEF s
      <4> QED
        BY <3>1, <4>1, <4>2
    <3> HIDE DEF s
    <3>3. \A k \in DOMAIN signals' : k \notin DOMAIN signals => signals'[k] = s
      BY <1>7, <3>1, <3>2
    <3> HIDE DEF n
    <3> QED
      BY <1>2, <1>5, <2>1, <2>3, <3>1, <3>3
  <2> QED
    BY <2>2, <2>3
<1>10. CASE DeviceUnresolves
  <2> DEFINE s == Signal("resolved", FALSE)
  <2>1. s \in SignalSet /\ Gone(s) /\ ~Cut(s) /\ ~Gained(s)
    BY <1>3, <1>4 DEF Gone, Cut, Gained
  <2>2. signals' = Append(signals, s) /\ ~Ready' /\ device'.present = device.present /\ MarkLoss
    BY <1>1, <1>10 DEF DeviceUnresolves, DeviceSet, Ready
  <2> HIDE DEF s
  <2>3. /\ \A k \in DOMAIN signals' : k \notin DOMAIN signals => signals'[k] = s
        /\ n + 1 \in DOMAIN signals' /\ n + 1 \notin DOMAIN signals /\ signals'[n + 1] = s
    BY <1>7, <1>8, <2>1, <2>2
  <2> HIDE DEF n
  <2> QED
    BY <1>5, <2>1, <2>2, <2>3
<1>11. ASSUME NEW what \in {"connected", "resolved"}, DeviceReturns(what)
       PROVE  /\ device'.present => device.present
              /\ (device.resolved => device'.resolved)
              /\ past'.loss = past.loss /\ past'.since = past.since /\ past'.stale = past.stale
              /\ \A k \in DOMAIN signals' : k \notin DOMAIN signals =>
                   ~Loss(signals'[k]) /\ ~Cut(signals'[k])
                   /\ (Gained(signals'[k]) => past'.ready = spent.changes + 1)
              /\ \/ past'.ready = past.ready /\ (Ready' => Ready)
                 \/ past'.ready = spent.changes + 1
  <2> DEFINE s == Signal(what, TRUE)
  <2>1. s \in SignalSet /\ ~Loss(s) /\ ~Cut(s) /\ (Gained(s) => what = "resolved")
    BY <1>3, <1>4, <1>11 DEF Loss, Cut, Gained
  <2>2. /\ signals' = Append(signals, s)
        /\ what = "resolved" => device.connected
        /\ device' = [device EXCEPT ![what] = TRUE]
        /\ past' = IF device'.connected /\ device'.resolved THEN [past EXCEPT !.ready = spent.changes + 1] ELSE past
    BY <1>11 DEF DeviceReturns
  <2> HIDE DEF s
  <2>3. /\ device'.present = device.present /\ (device.resolved => device'.resolved)
        /\ (what = "resolved" => device'.connected /\ device'.resolved)
    BY <1>1, <1>11, <2>2 DEF DeviceSet
  <2>4. /\ past'.loss = past.loss /\ past'.since = past.since /\ past'.stale = past.stale
        /\ device'.connected /\ device'.resolved => past'.ready = spent.changes + 1
        /\ ~(device'.connected /\ device'.resolved) => past'.ready = past.ready /\ ~Ready'
    BY <1>1, <2>2 DEF PastSet, Ready
  <2>5. \A k \in DOMAIN signals' : k \notin DOMAIN signals => signals'[k] = s
    BY <1>7, <2>1, <2>2
  <2> HIDE DEF n
  <2> QED
    BY <1>11, <2>1, <2>3, <2>4, <2>5
<1>12. ASSUME NEW how \in {"owner", "removed"}, DeviceVanishes(how)
       PROVE  /\ ~device'.present /\ ~Ready' /\ MarkLoss
              /\ \A k \in DOMAIN signals' : k \notin DOMAIN signals =>
                   ~Cut(signals'[k]) /\ ~Gained(signals'[k])
  <2> DEFINE s == Signal(how, FALSE)
  <2>1. s \in SignalSet /\ ~Cut(s) /\ ~Gained(s)
    BY <1>3, <1>4, <1>12 DEF Cut, Gained
  <2>2. signals' = Append(signals, s) /\ ~device'.present /\ ~Ready' /\ MarkLoss
    BY <1>12 DEF DeviceVanishes, Ready
  <2> HIDE DEF s
  <2>3. \A k \in DOMAIN signals' : k \notin DOMAIN signals => signals'[k] = s
    BY <1>7, <2>1, <2>2
  <2> HIDE DEF n
  <2> QED
    BY <2>1, <2>2, <2>3
<1>13. CASE DeviceNotifies
  <2> DEFINE s == Signal("value", TRUE)
  <2>1. s \in SignalSet /\ ~Cut(s) /\ ~Gained(s) /\ ~Loss(s)
    BY <1>3, <1>4 DEF Cut, Gained, Loss
  <2>2. signals' = Append(signals, s) /\ device' = device /\ past' = past
    BY <1>13 DEF DeviceNotifies
  <2>3. Ready' = Ready
    BY <2>2 DEF Ready
  <2> HIDE DEF s
  <2>4. \A k \in DOMAIN signals' : k \notin DOMAIN signals => signals'[k] = s
    BY <1>7, <2>1, <2>2
  <2> HIDE DEF n
  <2> QED
    BY <2>1, <2>2, <2>3, <2>4
<1> HIDE DEF n
<1>14. CASE \E what \in {"connected", "resolved"} : DeviceReturns(what)
  BY <1>11, <1>14
<1>15. CASE \E how \in {"owner", "removed"} : DeviceVanishes(how)
  BY <1>5, <1>12, <1>15
<1> QED
  BY <1>9, <1>10, <1>13, <1>14, <1>15 DEF Sending

\* A change of the device is later than all a wait has heard of, and is told to it.
LEMMA SendingWait ==
  ASSUME GattTypeOK, SignalsFit, WaitFits, Sending
  PROVE  WaitFits'
<1> DEFINE now == spent.changes + 1
<1>1. wait' = wait /\ spent'.changes = now
  BY SendingStill
<1>2. /\ Len(signals) \in Nat /\ DOMAIN signals = 1 .. Len(signals)
      /\ \A k \in DOMAIN signals : k \in DOMAIN signals' /\ signals'[k] = signals[k]
      /\ \A k \in DOMAIN signals' :
           k \in DOMAIN signals \/ (k \notin DOMAIN signals /\ k \in Nat /\ k > Len(signals) /\ signals'[k].at = now
                                  /\ {"wait"} \X wait.subs \subseteq signals'[k].to)
  <2>1. \A k : k \in DOMAIN signals \/ k \notin DOMAIN signals
    OBVIOUS
  <2> QED
    BY <2>1, Sent DEF Now
<1>3. /\ past.ready \in Int /\ past.loss \in Int /\ past.since \in Nat /\ spent.changes \in Nat
      /\ now \in Nat /\ past.loss < now /\ past.since < now
      /\ \A k \in DOMAIN signals : signals[k].at \in Nat /\ signals[k].at < now
  BY SignalAt, Fields DEF WaitFits, SignalsFit
<1>4. /\ device'.present => device.present
      /\ device.resolved /\ ~device'.resolved /\ device'.present =>
           \E k \in DOMAIN signals' : k \notin DOMAIN signals /\ Gone(signals'[k])
      /\ \A k \in DOMAIN signals' : k \notin DOMAIN signals /\ Cut(signals'[k]) =>
           \/ device.present /\ ~device.resolved
           \/ \E j \in DOMAIN signals' : j \notin DOMAIN signals /\ j < k /\ Gone(signals'[j])
      /\ \A k \in DOMAIN signals' : k \notin DOMAIN signals /\ Loss(signals'[k]) => ~Ready'
      /\ \A k \in DOMAIN signals' : k \notin DOMAIN signals /\ Gained(signals'[k]) => past'.ready = now
      /\ (past'.ready = past.ready /\ (Ready' => Ready)) \/ past'.ready = now
      /\ past'.loss = past.loss /\ past'.since = past.since /\ past'.stale = past.stale
  BY KindsSent
<1> HIDE DEF now
<1>5. past'.since <= spent'.changes /\ past'.loss <= spent'.changes
  BY <1>1, <1>3, <1>4
<1>6. \A k \in DOMAIN signals' :
        past'.loss < signals'[k].at \/ (past'.loss = signals'[k].at /\ Loss(signals'[k]))
  <2>1. \A k \in DOMAIN signals :
          past.loss < signals[k].at \/ (past.loss = signals[k].at /\ Loss(signals[k]))
    BY DEF WaitFits
  <2> QED
    BY <1>2, <1>3, <1>4, <2>1
<1>7. wait'.at # "idle" /\ Ready' =>
        /\ past'.ready >= 0 /\ past'.ready > past'.loss
        /\ \A k \in DOMAIN signals' : Loss(signals'[k]) => past'.ready > signals'[k].at
  <2>1. SUFFICES ASSUME wait.at # "idle", Ready'
                 PROVE  /\ past'.ready >= 0 /\ past'.ready > past'.loss
                        /\ \A k \in DOMAIN signals' : Loss(signals'[k]) => past'.ready > signals'[k].at
    BY <1>1
  <2>2. \A k \in DOMAIN signals' : Loss(signals'[k]) => k \in DOMAIN signals /\ signals'[k] = signals[k]
    BY <1>2, <1>4, <2>1
  <2>3. CASE past'.ready = past.ready /\ Ready
    <3>1. /\ past.ready >= 0 /\ past.ready > past.loss
          /\ \A k \in DOMAIN signals : Loss(signals[k]) => past.ready > signals[k].at
      BY <2>1, <2>3 DEF WaitFits
    <3> QED
      BY <1>4, <2>2, <2>3, <3>1
  <2>4. CASE past'.ready = now
    BY <1>3, <1>4, <2>2, <2>4
  <2> QED
    BY <1>4, <2>1, <2>3, <2>4
<1>8. past'.ready \in Int /\ (past'.ready >= past.ready \/ past'.ready = now)
  BY <1>3, <1>4
<1>9. ASSUME wait.at \in Waiting, NEW k \in DOMAIN signals', signals'[k].at > past'.since
      PROVE  /\ {"wait"} \X Observers \subseteq signals'[k].to
             /\ Gained(signals'[k]) => past'.ready >= signals'[k].at
  <2>1. CASE k \in DOMAIN signals
    <3>1. signals[k].at \in Nat /\ signals[k].at < now
      BY <1>3, <2>1
    <3>2. /\ signals'[k] = signals[k]
          /\ {"wait"} \X Observers \subseteq signals[k].to
          /\ Gained(signals[k]) => past.ready >= signals[k].at
      BY <1>2, <1>4, <1>9, <2>1 DEF WaitFits
    <3> QED
      BY <1>3, <1>8, <3>1, <3>2
  <2>2. CASE k \notin DOMAIN signals
    <3>1. wait.subs = Observers
      BY <1>9 DEF WaitFits
    <3> QED
      BY <1>2, <1>3, <1>4, <2>2, <3>1
  <2> QED
    BY <2>1, <2>2
<1>10. ASSUME wait.at \in Waiting, ~past.stale, ~wait.failure, KnownResolved = "yes"
       PROVE  /\ past'.ready >= 0 /\ past'.ready > past'.loss
              /\ device'.present /\ ~device'.resolved =>
                   \E k \in DOMAIN signals' : Gone(signals'[k]) /\ signals'[k].at > past'.since
              /\ \A k \in DOMAIN signals' : Cut(signals'[k]) /\ signals'[k].at >= past'.ready =>
                   \E j \in DOMAIN signals' : j < k /\ Gone(signals'[j]) /\ signals'[j].at > past'.since
  <2>1. /\ past.ready >= 0 /\ past.ready > past.loss
        /\ device.present /\ ~device.resolved =>
             \E k \in DOMAIN signals : Gone(signals[k]) /\ signals[k].at > past.since
        /\ \A k \in DOMAIN signals : Cut(signals[k]) /\ signals[k].at >= past.ready =>
             \E j \in DOMAIN signals : j < k /\ Gone(signals[j]) /\ signals[j].at > past.since
    BY <1>10 DEF WaitFits
  <2>2. past'.ready >= 0 /\ past'.ready > past'.loss
    BY <1>3, <1>4, <1>8, <2>1
  <2>3. ASSUME device'.present, ~device'.resolved
        PROVE  \E k \in DOMAIN signals' : Gone(signals'[k]) /\ signals'[k].at > past'.since
    <3>1. CASE device.resolved
      BY <1>2, <1>3, <1>4, <2>3, <3>1
    <3>2. CASE ~device.resolved
      <4>1. PICK k \in DOMAIN signals : Gone(signals[k]) /\ signals[k].at > past.since
        BY <1>4, <2>1, <2>3, <3>2
      <4> QED
        BY <1>2, <1>4, <4>1
    <3> QED
      BY <3>1, <3>2
  <2>4. ASSUME NEW k \in DOMAIN signals', Cut(signals'[k]), signals'[k].at >= past'.ready
        PROVE  \E j \in DOMAIN signals' : j < k /\ Gone(signals'[j]) /\ signals'[j].at > past'.since
    <3>1. CASE k \in DOMAIN signals
      <4>1. signals[k].at \in Nat /\ signals[k].at < now /\ signals'[k] = signals[k]
        BY <1>2, <1>3, <3>1
      <4>2. signals[k].at >= past.ready
        BY <1>3, <1>8, <2>4, <4>1
      <4>3. PICK j \in DOMAIN signals : j < k /\ Gone(signals[j]) /\ signals[j].at > past.since
        BY <2>1, <2>4, <3>1, <4>1, <4>2
      <4> QED
        BY <1>2, <1>4, <4>3
    <3>2. CASE k \notin DOMAIN signals
      <4>1. CASE device.present /\ ~device.resolved
        <5>1. PICK j \in DOMAIN signals : Gone(signals[j]) /\ signals[j].at > past.since
          BY <2>1, <4>1
        <5>2. j < k
          <6>1. k \in Nat /\ k > Len(signals) /\ j \in 1 .. Len(signals) /\ Len(signals) \in Nat
            BY <1>2, <3>2, <5>1
          <6> QED
            BY <6>1
        <5> QED
          BY <1>2, <1>4, <5>1, <5>2
      <4>2. CASE \E j \in DOMAIN signals' : j \notin DOMAIN signals /\ j < k /\ Gone(signals'[j])
        BY <1>2, <1>3, <1>4, <4>2
      <4> QED
        BY <1>4, <2>4, <3>2, <4>1, <4>2
    <3> QED
      BY <3>1, <3>2
  <2> QED
    BY <2>2, <2>3, <2>4
<1>11. KnownResolved' = KnownResolved
  BY <1>1 DEF KnownResolved
<1>12. /\ wait'.subs = IF wait'.at \in Waiting THEN Observers ELSE {}
       /\ wait'.result # "none" => wait'.at = "end"
       /\ wait'.at = "subscribe" => wait'.resolved = "unknown" /\ wait'.readResolved = "unknown"
  BY <1>1 DEF WaitFits
<1> QED
  BY <1>1, <1>4, <1>5, <1>6, <1>7, <1>9, <1>10, <1>11, <1>12 DEF WaitFits

\* Every step.
LEMMA WaitStep ==
  ASSUME GattTypeOK, SignalsFit, WaitFits, [GattNext]_gattVars
  PROVE  WaitFits'
<1>1. CASE GattNext
  BY <1>1, Cases, CallsWait, DeliverWait, SendingWait
<1>2. CASE UNCHANGED gattVars
  BY <1>2 DEF gattVars, WaitFits, KnownResolved, Ready, Loss, Gained, Gone, Cut
<1> QED
  BY <1>1, <1>2

\* A wait succeeds with cause, and hears nothing after that.
LEMMA TruthStep ==
  ASSUME GattTypeOK, SignalsFit, WaitFits, WaitTruthful, [GattNext]_gattVars
  PROVE  WaitTruthful'
<1>1. wait \in WaitSet /\ past \in PastSet /\ past.ready \in Int /\ past.loss \in Int /\ spent.changes \in Nat
  BY Fields DEF GattTypeOK
<1>2. CASE WaitCheck
  <2> DEFINE w == Known(wait)
  <2>1. /\ w \in WaitSet /\ w.result = wait.result
        /\ Verdict(w) = "ok" => ~wait.failure /\ KnownResolved = "yes"
    BY KnownGood
  <2>2. /\ past' = past /\ wait.at = "check"
        /\ \/ wait' = [w EXCEPT !.at = "sleep"]
           \/ wait' = [w EXCEPT !.at = "end", !.subs = {}, !.result = Verdict(w)]
    BY <1>2 DEF WaitCheck
  <2> HIDE DEF w
  <2>3. wait'.result = wait.result \/ wait'.result = Verdict(w)
    BY <2>1, <2>2 DEF WaitSet
  <2>4. wait.result = "none"
    BY <2>2 DEF WaitFits
  <2>5. (~past.stale /\ Verdict(w) = "ok") => past.ready >= 0 /\ past.ready > past.loss
    BY <2>1, <2>2 DEF WaitFits, Waiting
  <2> QED
    BY <2>2, <2>3, <2>4, <2>5 DEF WaitTruthful
<1>3. CASE WaitBegin
  BY <1>3 DEF WaitBegin, WaitTruthful
<1>4. CASE WaitSubscribe \/ WaitRead \/ WaitTimeout
  <2>1. wait'.result = wait.result \/ wait'.result \in {"error", "timeout"}
    BY <1>1, <1>4 DEF WaitSubscribe, WaitRead, WaitTimeout, WaitEnd, WaitSet
  <2>2. wait.at # "end"
    BY <1>4 DEF WaitSubscribe, WaitRead, WaitTimeout
  <2> QED
    BY <2>1, <2>2 DEF WaitFits, WaitTruthful
<1>5. CASE StartNotify \/ InstallObserver \/ CallStartNotify \/ Verify \/ Confirm \/ StopNotify
           \/ StopNotifyEnd \/ Write \/ WriteEnd
  <2>1. wait' = wait /\ (past' = past \/ past' = [past EXCEPT !.lost = FALSE])
    BY <1>5 DEF StartNotify, InstallObserver, CallStartNotify, Verify, Confirm, StopNotify, StopNotifyEnd,
                Write, WriteEnd
  <2>2. past'.ready = past.ready /\ past'.loss = past.loss /\ past'.stale = past.stale
    BY <1>1, <2>1 DEF PastSet
  <2> QED
    BY <2>1, <2>2 DEF WaitTruthful
<1>6. CASE Deliver
  <2> DEFINE s == Head(signals)
  <2>1. s \in SignalSet
    BY <1>6, RestAt, SignalAt DEF Deliver
  <2>2. WaitHears(s) /\ past' = Heard(s)
    BY <1>6 DEF Deliver
  <2> HIDE DEF s
  <2>3. /\ ~WaitGets(s) => wait' = wait /\ past' = past
        /\ WaitGets(s) => wait'.result = wait.result
    BY <2>1, <2>2, HearsWait
  <2>4. wait.result = "ok" => ~WaitGets(s)
    BY DEF WaitFits, WaitGets, Waiting
  <2> QED
    BY <2>3, <2>4 DEF WaitTruthful
<1>7. CASE Sending
  <2>1. /\ wait' = wait /\ past'.loss = past.loss /\ past'.stale = past.stale
        /\ past'.ready = past.ready \/ past'.ready = spent.changes + 1
    BY <1>7, SendingStill, KindsSent
  <2>2. past.loss <= spent.changes
    BY DEF WaitFits
  <2> QED
    BY <1>1, <2>1, <2>2 DEF WaitTruthful
<1>8. CASE UNCHANGED gattVars
  BY <1>8 DEF gattVars, WaitTruthful
<1> QED
  BY <1>2, <1>3, <1>4, <1>5, <1>6, <1>7, <1>8, Cases DEF Calls

-----------------------------------------------------------------------------
(* The theorems.                                                           *)

\* A device is connected, and nothing asked of it.
LEMMA GattInvInit == GattInit => GattInv
<1> SUFFICES ASSUME GattInit PROVE GattInv
  OBVIOUS
<1>1. gattLoad.resolved \in BOOLEAN
  BY GattAssumption DEF GattInit
<1>2. GattTypeOK
  <2>1. device \in DeviceSet
    BY <1>1 DEF GattInit, DeviceSet
  <2>2. note \in NoteSet
    BY DEF GattInit, NoteSet, Steps
  <2>3. wait \in WaitSet
    BY DEF GattInit, WaitSet, Words
  <2>4. past \in PastSet /\ spent \in SpentSet
    BY DEF GattInit, PastSet, SpentSet
  <2> QED
    BY <2>1, <2>2, <2>3, <2>4 DEF GattTypeOK, GattInit
<1>3. DOMAIN signals = {} /\ DOMAIN told = {}
  BY DEF GattInit
<1>4. SignalsFit
  BY <1>3 DEF SignalsFit, GattInit
<1>5. NoteFits
  BY <1>3 DEF NoteFits, GattInit, Setup
<1>6. WaitFits /\ WaitTruthful
  BY <1>3 DEF WaitFits, WaitTruthful, GattInit, Waiting
<1> QED
  BY <1>2, <1>4, <1>5, <1>6 DEF GattInv

\* Every step keeps the invariant.
LEMMA GattInvStep == GattInv /\ [GattNext]_gattVars => GattInv'
  BY TypesStep, SignalsStep, NoteStep, WaitStep, TruthStep DEF GattInv

\* The invariant is what the run checks: all observers are there, so an open
\* notification has a loss told or under way.
LEMMA InvHonest == GattInv => GattHonest
<1> SUFFICES ASSUME GattInv PROVE GattHonest
  OBVIOUS
<1>1. LossReported
  <2>1. SUFFICES ASSUME note.at = "open", past.lost, ~\E k \in DOMAIN signals : Loss(signals[k])
                 PROVE  "invalidated" \in {told[k] : k \in DOMAIN told}
    BY DEF LossReported
  <2>2. note.invalidated
    BY <2>1 DEF GattInv, NoteFits, Setup
  <2> QED
    BY <2>2 DEF GattInv, NoteFits
<1>2. NotificationHonest
  BY DEF GattInv, NoteFits, NotificationHonest
<1> QED
  BY <1>1, <1>2 DEF GattInv, GattHonest

\* Dmn_BluezGattClient, for any workload: signals under way tell the changes of
\* the device in order; a loss since StartNotify is told or under way to an
\* observer; and a wait takes the services for resolved only while that was so
\* after what it has heard, or a signal that says otherwise is under way to it.
THEOREM GattInvariant == GattSpec => []GattInv
<1>1. GattInit => GattInv
  BY GattInvInit
<1>2. GattInv /\ [GattNext]_gattVars => GattInv'
  BY GattInvStep
<1> QED
  BY <1>1, <1>2, PTL DEF GattSpec

\* An open notification tells its handler of a loss of the link, once and last,
\* one that was not lost is served by BlueZ, and a wait that succeeds is right
\* about a moment later than any loss it has heard of.
THEOREM GattAlwaysHonest == GattSpec => []GattHonest
<1>1. GattInv => GattHonest
  BY InvHonest
<1> QED
  BY <1>1, GattInvariant, PTL
=============================================================================
