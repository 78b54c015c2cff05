------------------------- MODULE AncsClient_proofs --------------------------
(***************************************************************************)
(* Dmn_AncsClient for any notification identifiers, any script of the      *)
(* phone and any number of sessions, stops and failures: the book of       *)
(* requests is consistent, what the application is told adds up, and a     *)
(* stop() that succeeded left nothing behind.                              *)
(***************************************************************************)
EXTENDS AncsClient, SequenceFacts

-----------------------------------------------------------------------------
(* Types.                                                                  *)

SessionStates == {"Stopped", "Starting", "ResolvingServices", "DiscoveringANCS", "SubscribingDataSource",
                  "SubscribingNotificationSource", "Ready", "Stopping", "Failed"}
Errors == {"fatal", "minor"}
EventKinds == {"state", "error", "added", "updated", "removed", "unavailable"}
Event == [kind : EventKinds, of : SessionStates \cup Errors \cup Uids \cup {None}]
Packet == [source : {"notify"}, value : NotificationValue] \cup [source : {"data"}, value : Fragment]
          \cup [source : {"gatt"}, value : {[invalid |-> TRUE]}]
Result == [uid : Uids, ok : BOOLEAN]
Answered == [uid : Uids, removed : BOOLEAN, date : Dates]
Asked == [uid : Uids]
Record == [known : BOOLEAN, unreported : BOOLEAN, unavailable : BOOLEAN, ignored : BOOLEAN]
Request == [uid : Uids, unwritten : BOOLEAN, removed : BOOLEAN, seen : BOOLEAN] \cup {NoRequest}

Flag == [state : SessionStates, ready : BOOLEAN, accept : BOOLEAN, shutdown : BOOLEAN,
         cancel : BOOLEAN, handler : BOOLEAN, backlog : BOOLEAN]
Queue == [events : Seq(Event), gatt : Seq(Packet), jobs : Seq(Uids), results : Seq(Result)]
Book == [records : [Uids -> Record], pending : Seq(Uids), queued : SUBSET Uids, active : Request]
StarterState == [at : {"idle", "resolve", "discover", "data", "notify", "ready", "fail", "cleanup"},
                 calls : Nat]
StopperState == [at : {"idle", "api", "wait", "held", "cleanup", "join", "gone"}, calls : Nat,
                 dying : BOOLEAN]
WorkerState == [at : {"none", "idle", "taken", "next", "cleanup", "conclude", "request"},
                kind : {None, "event", "packet", "result", "timeout"},
                of : Event \cup Packet \cup Result \cup Answered \cup Asked \cup {NoRequest}]
WriterState == [at : {"none", "idle", "job", "writing"}, uid : Uids \cup {None}, ok : BOOLEAN]
PhoneState == [script : Seq(NotificationValue), air : Seq(Fragment)]

\* What the worker holds at each point.
WorkerHolds ==
  /\ worker.at = "taken" /\ worker.kind = "event" => worker.of \in Event
  /\ worker.at = "taken" /\ worker.kind = "packet" => worker.of \in Packet
  /\ worker.at = "taken" /\ worker.kind = "result" => worker.of \in Result
  /\ worker.at = "conclude" => worker.of \in Answered
  /\ worker.at = "request" => worker.of \in Asked

TypeOK ==
  /\ load \in Workloads
  /\ flag \in Flag
  /\ queue \in Queue
  /\ book \in Book
  /\ subs \in SUBSET {"data", "notify"}
  /\ starter \in StarterState
  /\ stopper \in StopperState
  /\ worker \in WorkerState /\ WorkerHolds
  /\ writer \in WriterState
  /\ writer.at \in {"job", "writing"} => writer.uid \in Uids
  /\ phone \in PhoneState
  /\ faults \in Nat
  /\ log \in Seq(Event)

\* The parts of the types, field by field.
LEMMA Fields ==
  ASSUME TypeOK
  PROVE  /\ load \in [script : Seq(NotificationValue), answer : [Uids -> Seq(Fragment)], cutoff : BOOLEAN,
                      maximum : Nat, sessions : Nat, stops : Nat, faults : Nat, late : BOOLEAN,
                      throws : BOOLEAN]
         /\ queue.events \in Seq(Event) /\ queue.gatt \in Seq(Packet)
         /\ queue.jobs \in Seq(Uids) /\ queue.results \in Seq(Result)
         /\ book.records \in [Uids -> Record] /\ book.pending \in Seq(Uids)
         /\ book.queued \in SUBSET Uids /\ book.active \in Request
  BY AncsAssumption DEF TypeOK, Queue, Book

\* Nothing asked for, nothing known.
LEMMA ClearedTypes ==
  /\ ClearedBook \in Book
  /\ NoRequest \in Request /\ NoRecord \in Record
<1>1. NoRequest \in Request /\ NoRecord \in Record
  BY DEF NoRequest, NoRecord, Request, Record
<1>2. [u \in Uids |-> NoRecord] \in [Uids -> Record] /\ <<>> \in Seq(Uids)
  BY <1>1
<1> QED
  BY <1>1, <1>2 DEF ClearedBook, Book

\* Each field of the queue takes a value of its type.
LEMMA QueueTypes ==
  ASSUME TypeOK
  PROVE  /\ ClearedQueue \in Queue /\ ClearedQueue.events = queue.events
         /\ \A e \in Seq(Event) : /\ [queue EXCEPT !.events = e] \in Queue
                                  /\ [ClearedQueue EXCEPT !.events = e] \in Queue
         /\ \A g \in Seq(Packet) : [queue EXCEPT !.gatt = g] \in Queue
         /\ \A j \in Seq(Uids) : [queue EXCEPT !.jobs = j] \in Queue
         /\ \A r \in Seq(Result) : [queue EXCEPT !.results = r] \in Queue
         /\ \A e \in Seq(Event) : [queue EXCEPT !.events = e, !.jobs = <<>>] \in Queue
<1>1. queue \in Queue
  BY DEF TypeOK
<1>2. <<>> \in Seq(Packet) /\ <<>> \in Seq(Uids) /\ <<>> \in Seq(Result)
  OBVIOUS
<1>3. ClearedQueue \in Queue /\ ClearedQueue.events = queue.events
  BY <1>1, <1>2 DEF Queue, ClearedQueue
<1>4. \A q \in Queue, e \in Seq(Event) : [q EXCEPT !.events = e] \in Queue
  BY DEF Queue
<1> QED
  BY <1>1, <1>2, <1>3, <1>4 DEF Queue

\* The events that are told.
LEMMA EventTypes ==
  /\ \A s \in SessionStates : State(s) \in Event
  /\ \A how \in Errors : Err(how) \in Event
  /\ \A kind \in {"added", "updated", "removed", "unavailable"}, u \in Uids \cup {None} :
       [kind |-> kind, of |-> u] \in Event
<1>1. \A kind \in EventKinds, of \in SessionStates \cup Errors \cup Uids \cup {None} :
        [kind |-> kind, of |-> of] \in Event
  BY DEF Event
<1>2. \A kind \in {"state", "error", "added", "updated", "removed", "unavailable"} : kind \in EventKinds
  BY DEF EventKinds
<1>3. \A s \in SessionStates : State(s) \in Event
  <2> TAKE s \in SessionStates
  <2>1. "state" \in EventKinds /\ s \in SessionStates \cup Errors \cup Uids \cup {None}
    BY <1>2, Zenon
  <2> QED
    BY <1>1, <2>1, Zenon DEF State
<1>4. \A how \in Errors : Err(how) \in Event
  <2> TAKE how \in Errors
  <2>1. "error" \in EventKinds /\ how \in SessionStates \cup Errors \cup Uids \cup {None}
    BY <1>2, Zenon
  <2> QED
    BY <1>1, <2>1, Zenon DEF Err
<1> QED
  BY <1>1, <1>2, <1>3, <1>4

\* ... and where they wait.
LEMMA EventsTold ==
  ASSUME TypeOK, NEW a \in Event, NEW b \in Event
  PROVE  /\ Append(queue.events, a) \in Seq(Event)
         /\ queue.events \o <<a, b>> \in Seq(Event)
         /\ queue.events \o <<a>> \in Seq(Event)
         /\ queue.events \o <<>> \in Seq(Event)
<1>1. queue.events \in Seq(Event)
  BY Fields
<1>2. <<a, b>> \in Seq(Event) /\ <<a>> \in Seq(Event) /\ <<>> \in Seq(Event)
  OBVIOUS
<1> QED
  BY <1>1, <1>2

-----------------------------------------------------------------------------
(* Every operation keeps the types.                                        *)

\* The first state.
LEMMA InitTypes == Init => TypeOK
<1> SUFFICES ASSUME Init PROVE TypeOK
  OBVIOUS
<1>1. load.script \in Seq(NotificationValue) /\ load \in Workloads
  BY AncsAssumption DEF Init
<1>2. flag \in Flag
  BY DEF Init, Flag, SessionStates
<1>3. queue \in Queue /\ log \in Seq(Event)
  BY DEF Init, Queue
<1>4. book \in Book
  BY ClearedTypes DEF Init
<1>5. worker \in WorkerState /\ WorkerHolds
  BY DEF Init, WorkerState, WorkerHolds
<1>6. starter \in StarterState /\ stopper \in StopperState /\ writer \in WriterState
      /\ ~(writer.at \in {"job", "writing"})
  BY DEF Init, StarterState, StopperState, WriterState
<1>7. phone \in PhoneState
  BY <1>1 DEF Init, PhoneState
<1> QED
  BY <1>1, <1>2, <1>3, <1>4, <1>5, <1>6, <1>7 DEF Init, TypeOK

\* start(): none of its steps touches the writer's request or what the phone sends.
LEMMA StartTypes ==
  ASSUME TypeOK, SetEventHandler \/ Start \/ Starter
  PROVE  TypeOK'
<1>1. CASE SetEventHandler
  <2>1. flag' \in Flag
    BY <1>1 DEF SetEventHandler, TypeOK, Flag
  <2> QED
    BY <1>1, <2>1 DEF SetEventHandler, TypeOK, WorkerHolds
<1>2. CASE Start
  <2>1. flag' \in Flag
    BY <1>2 DEF Start, StartReset, TypeOK, Flag, SessionStates
  <2>2. queue' \in Queue
    <3>1. State("Starting") \in Event /\ State("ResolvingServices") \in Event
      BY EventTypes DEF SessionStates
    <3> QED
      BY <1>2, <3>1, EventsTold, QueueTypes DEF Start
  <2>3. worker' \in WorkerState /\ worker'.at = "idle"
    BY <1>2 DEF Start, TypeOK, WorkerState
  <2>4. writer' \in WriterState /\ writer'.at = "idle"
    BY <1>2 DEF Start, TypeOK, WriterState
  <2>5. starter' \in StarterState
    BY <1>2 DEF Start, TypeOK, StarterState
  <2>6. WorkerHolds'
    BY <2>3 DEF WorkerHolds
  <2> QED
    BY <1>2, <2>1, <2>2, <2>3, <2>4, <2>5, <2>6 DEF Start, TypeOK
<1>3. ASSUME NEW at, NEW next \in {"discover", "data", "notify"}, NEW state \in SessionStates,
             NEW held \in SUBSET {"data", "notify"}, StartStep(at, next, state, held)
      PROVE  TypeOK'
  <2>1. State(state) \in Event
    BY EventTypes
  <2>2. queue' \in Queue
    BY <1>3, <2>1, EventsTold, QueueTypes DEF StartStep, Emit, TypeOK
  <2>3. flag' \in Flag
    BY <1>3 DEF StartStep, TypeOK, Flag
  <2>4. starter' \in StarterState
    BY <1>3 DEF StartStep, TypeOK, StarterState
  <2>5. subs' \in SUBSET {"data", "notify"} /\ faults' \in Nat
    BY <1>3 DEF StartStep, TypeOK, Fault
  <2> QED
    BY <1>3, <2>2, <2>3, <2>4, <2>5 DEF StartStep, TypeOK, WorkerHolds
<1>4. CASE Resolve \/ Discover \/ SubscribeData
  <2>1. /\ {} \in SUBSET {"data", "notify"} /\ {"data"} \in SUBSET {"data", "notify"}
        /\ "DiscoveringANCS" \in SessionStates /\ "SubscribingDataSource" \in SessionStates
        /\ "SubscribingNotificationSource" \in SessionStates
    BY DEF SessionStates
  <2> QED
    BY <1>3, <1>4, <2>1 DEF Resolve, Discover, SubscribeData
<1>5. CASE SubscribeNotification
  <2>1. starter' \in StarterState
    BY <1>5 DEF SubscribeNotification, TypeOK, StarterState
  <2>2. subs' \in SUBSET {"data", "notify"} /\ faults' \in Nat
    BY <1>5 DEF SubscribeNotification, TypeOK, Fault
  <2> QED
    BY <1>5, <2>1, <2>2 DEF SubscribeNotification, TypeOK, WorkerHolds
<1>6. CASE StartReady
  <2>1. State("Ready") \in Event
    BY EventTypes DEF SessionStates
  <2>2. queue' \in Queue
    BY <1>6, <2>1, EventsTold, QueueTypes DEF StartReady, Emit
  <2>3. flag' \in Flag
    BY <1>6 DEF StartReady, TypeOK, Flag, SessionStates
  <2>4. starter' \in StarterState
    BY <1>6 DEF StartReady, TypeOK, StarterState
  <2> QED
    BY <1>6, <2>2, <2>3, <2>4 DEF StartReady, TypeOK, WorkerHolds
<1>7. CASE FailStartup
  <2>1. Err("fatal") \in Event
    BY EventTypes DEF Errors
  <2>2. queue' \in Queue
    BY <1>7, <2>1, EventsTold, QueueTypes DEF FailStartup
  <2>3. flag' \in Flag
    BY <1>7 DEF FailStartup, TypeOK, Flag
  <2>4. starter' \in StarterState
    BY <1>7 DEF FailStartup, TypeOK, StarterState
  <2>5. book' \in Book
    BY <1>7, ClearedTypes DEF FailStartup
  <2> QED
    BY <1>7, <2>2, <2>3, <2>4, <2>5 DEF FailStartup, TypeOK, WorkerHolds
<1>8. CASE FailStartupCleanup
  <2>1. State("Failed") \in Event
    BY EventTypes DEF SessionStates
  <2>2. queue' \in Queue
    BY <1>8, <2>1, EventsTold, QueueTypes DEF FailStartupCleanup, Emit
  <2>3. flag' \in Flag
    BY <1>8 DEF FailStartupCleanup, TypeOK, Flag, SessionStates
  <2>4. starter' \in StarterState
    BY <1>8 DEF FailStartupCleanup, TypeOK, StarterState
  <2>5. subs' \in SUBSET {"data", "notify"} /\ faults' \in Nat
    BY <1>8 DEF FailStartupCleanup, StopSubscriptions, TypeOK, Fault
  <2> QED
    BY <1>8, <2>2, <2>3, <2>4, <2>5 DEF FailStartupCleanup, TypeOK, WorkerHolds
<1> QED
  BY <1>1, <1>2, <1>4, <1>5, <1>6, <1>7, <1>8 DEF Starter

\* stop() and the destructor.
LEMMA StopTypes ==
  ASSUME TypeOK, Stop \/ Stopper \/ Destroy
  PROVE  TypeOK'
<1>1. CASE Stop
  <2>1. stopper' \in StopperState
    <3>1. stopper \in StopperState
      BY DEF TypeOK
    <3>2. \A n \in Nat : [stopper EXCEPT !.at = "api", !.calls = n] \in StopperState
      BY <3>1 DEF StopperState
    <3>3. [stopper EXCEPT !.at = "api", !.dying = TRUE] \in StopperState
      BY <3>1 DEF StopperState
    <3>4. stopper.calls + 1 \in Nat
      BY <3>1 DEF StopperState
    <3> QED
      BY <1>1, <3>2, <3>3, <3>4 DEF Stop
  <2>2. flag' \in Flag
    BY <1>1 DEF Stop, TypeOK, Flag
  <2> QED
    BY <1>1, <2>1, <2>2 DEF Stop, TypeOK, WorkerHolds
<1>2. CASE StopClear
  <2>1. stopper' \in StopperState
    BY <1>2 DEF StopClear, TypeOK, StopperState
  <2>2. flag' \in Flag
    BY <1>2 DEF StopClear, TypeOK, Flag
  <2>3. queue' \in Queue /\ book' \in Book
    BY <1>2, QueueTypes, ClearedTypes DEF StopClear, TypeOK
  <2> QED
    BY <1>2, <2>1, <2>2, <2>3 DEF StopClear, TypeOK, WorkerHolds
<1>3. CASE StopWorker
  <2>1. stopper' \in StopperState
    BY <1>3 DEF StopWorker, TypeOK, StopperState
  <2>2. flag' \in Flag
    BY <1>3 DEF StopWorker, TypeOK, Flag, SessionStates
  <2>3. State("Stopping") \in Event
    BY EventTypes DEF SessionStates
  <2>4. queue' \in Queue /\ book' \in Book
    BY <1>3, <2>3, EventsTold, QueueTypes, ClearedTypes DEF StopWorker
  <2> QED
    BY <1>3, <2>1, <2>2, <2>4 DEF StopWorker, TypeOK, WorkerHolds
<1>4. CASE StopCleanup
  <2>1. stopper' \in StopperState
    BY <1>4 DEF StopCleanup, TypeOK, StopperState
  <2>2. flag' \in Flag
    BY <1>4 DEF StopCleanup, TypeOK, Flag, SessionStates
  <2>3. State("Failed") \in Event /\ Err("fatal") \in Event
    BY EventTypes DEF SessionStates, Errors
  <2>4. queue' \in Queue
    BY <1>4, <2>3, EventsTold, QueueTypes, ZenonT(40) DEF StopCleanup, TypeOK
  <2>5. subs' \in SUBSET {"data", "notify"} /\ faults' \in Nat
    BY <1>4 DEF StopCleanup, StopSubscriptions, TypeOK, Fault
  <2> QED
    BY <1>4, <2>1, <2>2, <2>4, <2>5 DEF StopCleanup, TypeOK, WorkerHolds
<1>5. CASE StopShutdown
  <2>1. stopper' \in StopperState
    BY <1>5 DEF StopShutdown, TypeOK, StopperState
  <2>2. flag' \in Flag
    BY <1>5 DEF StopShutdown, TypeOK, Flag, SessionStates
  <2>3. State("Stopped") \in Event
    BY EventTypes DEF SessionStates
  <2>4. queue' \in Queue
    BY <1>5, <2>3, EventsTold, QueueTypes DEF StopShutdown
  <2> QED
    BY <1>5, <2>1, <2>2, <2>4 DEF StopShutdown, TypeOK, WorkerHolds
<1>6. CASE StopJoin
  <2>1. stopper' \in StopperState
    BY <1>6 DEF StopJoin, TypeOK, StopperState
  <2> QED
    BY <1>6, <2>1 DEF StopJoin, TypeOK, WorkerHolds
<1>7. CASE Destroy
  <2>1. stopper' \in StopperState
    BY <1>7 DEF Destroy, TypeOK, StopperState
  <2>2. flag' \in Flag
    BY <1>7 DEF Destroy, TypeOK, Flag
  <2>3. queue' \in Queue
    <3>1. <<>> \in Seq(Uids)
      OBVIOUS
    <3> QED
      BY <1>7, <3>1, QueueTypes DEF Destroy
  <2> QED
    BY <1>7, <2>1, <2>2, <2>3 DEF Destroy, TypeOK, WorkerHolds
<1> QED
  BY <1>1, <1>2, <1>3, <1>4, <1>5, <1>6, <1>7 DEF Stopper

\* The phone and the Control Point worker.
LEMMA PhoneTypes ==
  ASSUME TypeOK, PhoneNotifies \/ PhoneAnswers \/ Invalidated \/ Writer
  PROVE  TypeOK'
<1> DEFINE Notified == [source |-> "notify", value |-> Head(phone.script)]
           Answer == [source |-> "data", value |-> Head(phone.air)]
           Lost == [source |-> "gatt", value |-> [invalid |-> TRUE]]
<1>1. phone.script \in Seq(NotificationValue) /\ phone.air \in Seq(Fragment)
  BY DEF TypeOK, PhoneState
<1>0. /\ \A v \in Seq(NotificationValue) : [phone EXCEPT !.script = v] \in PhoneState
      /\ \A a \in Seq(Fragment) : [phone EXCEPT !.air = a] \in PhoneState
  BY DEF TypeOK, PhoneState
<1>11. phone \in PhoneState /\ faults \in Nat /\ faults + 1 \in Nat
  BY DEF TypeOK
<1>2. /\ phone.script # <<>> => Notified \in Packet
      /\ phone.air # <<>> => Answer \in Packet
      /\ Lost \in Packet
  <2>1. phone.script # <<>> => Head(phone.script) \in NotificationValue
    BY <1>1
  <2>2. phone.air # <<>> => Head(phone.air) \in Fragment
    BY <1>1
  <2> QED
    BY <2>1, <2>2 DEF Packet
<1>3. ASSUME NEW p \in Packet, Enqueue(p) PROVE queue' \in Queue
  <2>1. Append(queue.gatt, p) \in Seq(Packet)
    BY Fields
  <2> QED
    BY <1>3, <2>1, QueueTypes DEF Enqueue, TypeOK
<1> HIDE DEF Notified, Answer, Lost
<1>4. CASE PhoneNotifies
  <2>1. phone' \in PhoneState
    <3>1. phone.script # <<>>
      BY <1>4 DEF PhoneNotifies
    <3>2. Tail(phone.script) \in Seq(NotificationValue)
      BY <1>1, <3>1
    <3> QED
      BY <1>0, <1>4, <3>2 DEF PhoneNotifies
  <2>2. queue' \in Queue
    BY <1>2, <1>3, <1>4 DEF PhoneNotifies, Notified
  <2> QED
    BY <1>4, <2>1, <2>2 DEF PhoneNotifies, TypeOK, WorkerHolds
<1>5. CASE PhoneAnswers
  <2>1. phone' \in PhoneState
    <3>1. phone.air # <<>>
      BY <1>5 DEF PhoneAnswers
    <3>2. Tail(phone.air) \in Seq(Fragment)
      BY <1>1, <3>1
    <3> QED
      BY <1>0, <1>5, <3>2 DEF PhoneAnswers
  <2>2. queue' \in Queue
    BY <1>2, <1>3, <1>5 DEF PhoneAnswers, Answer, TypeOK
  <2> QED
    BY <1>5, <2>1, <2>2 DEF PhoneAnswers, TypeOK, WorkerHolds
<1>6. CASE Invalidated
  <2>1. phone' \in PhoneState /\ faults' \in Nat
    <3>1. <<>> \in Seq(Fragment)
      OBVIOUS
    <3> QED
      BY <1>0, <1>6, <1>11, <3>1 DEF Invalidated, Fault
  <2>2. queue' \in Queue
    BY <1>2, <1>3, <1>6 DEF Invalidated, Lost
  <2> QED
    BY <1>6, <2>1, <2>2 DEF Invalidated, TypeOK, WorkerHolds
<1>7. CASE WriterTake
  <2>1. queue.jobs \in Seq(Uids) /\ queue.jobs # <<>>
    BY <1>7, Fields DEF WriterTake
  <2>2. Head(queue.jobs) \in Uids /\ Tail(queue.jobs) \in Seq(Uids)
    BY <2>1
  <2>3. queue' \in Queue
    BY <1>7, <2>2, QueueTypes DEF WriterTake
  <2>4. writer' \in WriterState /\ writer'.uid \in Uids
    BY <1>7, <2>2 DEF WriterTake, WriterState
  <2> QED
    BY <1>7, <2>3, <2>4 DEF WriterTake, TypeOK, WorkerHolds
<1>8. CASE WriterBegin
  <2>1. writer.uid \in Uids /\ writer \in WriterState
    BY <1>8 DEF WriterBegin, TypeOK
  <2>2. writer' \in WriterState /\ writer'.uid \in Uids
    BY <1>8, <2>1 DEF WriterBegin, WriterState
  <2>3. load.answer[writer.uid] \in Seq(Fragment)
    BY <2>1, Fields
  <2>4. phone.air \o load.answer[writer.uid] \in Seq(Fragment)
    BY <1>1, <2>3
  <2>5. phone' \in PhoneState /\ faults' \in Nat
    BY <1>0, <1>8, <1>11, <2>4 DEF WriterBegin, Fault
  <2> QED
    BY <1>8, <2>2, <2>5 DEF WriterBegin, TypeOK, WorkerHolds
<1>9. CASE WriterEnd
  <2>1. writer.uid \in Uids /\ writer \in WriterState
    BY <1>9 DEF WriterEnd, TypeOK
  <2>2. writer' \in WriterState /\ ~(writer'.at \in {"job", "writing"})
    BY <1>9, <2>1 DEF WriterEnd, WriterState
  <2>3. [uid |-> writer.uid, ok |-> writer.ok] \in Result
    BY <2>1 DEF Result, WriterState
  <2>4. Append(queue.results, [uid |-> writer.uid, ok |-> writer.ok]) \in Seq(Result)
    BY <2>3, Fields
  <2>5. queue' \in Queue
    BY <1>9, <2>4, QueueTypes DEF WriterEnd, TypeOK
  <2> QED
    BY <1>9, <2>2, <2>5 DEF WriterEnd, TypeOK, WorkerHolds
<1>10. CASE WriterExit
  <2>1. writer' \in WriterState /\ ~(writer'.at \in {"job", "writing"})
    BY <1>10 DEF WriterExit, TypeOK, WriterState
  <2> QED
    BY <1>10, <2>1 DEF WriterExit, TypeOK, WorkerHolds
<1> QED
  BY <1>4, <1>5, <1>6, <1>7, <1>8, <1>9, <1>10 DEF Writer

-----------------------------------------------------------------------------
(* The book of requests.                                                   *)

\* RequestsExact, with the queue's lack of repetitions in place of the count.
BookExact ==
  /\ book.queued = Range(book.pending) /\ IsInjective(book.pending)
  /\ book.active.uid \notin book.queued
  /\ \A uid \in book.queued : book.records[uid].known /\ ~book.records[uid].unavailable
  /\ load.maximum # 0 => Len(book.pending) <= load.maximum

\* Each part of the book takes a value of its type.
LEMMA BookTypes ==
  ASSUME NEW b \in Book
  PROVE  /\ \A r \in Request : /\ [b EXCEPT !.active = r] \in Book
                               /\ [b EXCEPT !.active = r].records = b.records
                               /\ [b EXCEPT !.active = r].pending = b.pending
                               /\ [b EXCEPT !.active = r].queued = b.queued
                               /\ [b EXCEPT !.active = r].active = r
         /\ \A u \in Uids, r \in Record : /\ [b EXCEPT !.records[u] = r] \in Book
                                          /\ [b EXCEPT !.records[u] = r].records = [b.records EXCEPT ![u] = r]
                                          /\ [b EXCEPT !.records[u] = r].pending = b.pending
                                          /\ [b EXCEPT !.records[u] = r].queued = b.queued
                                          /\ [b EXCEPT !.records[u] = r].active = b.active
  BY DEF Book

\* ... and each field of a record or of a request.
LEMMA RecordTypes ==
  ASSUME NEW r \in Record, NEW v \in BOOLEAN, NEW w \in BOOLEAN
  PROVE  /\ [r EXCEPT !.known = v] \in Record /\ [r EXCEPT !.unavailable = v] \in Record
         /\ [r EXCEPT !.ignored = v, !.unreported = w] \in Record
         /\ [r EXCEPT !.known = v].known = v /\ [r EXCEPT !.known = v].unavailable = r.unavailable
         /\ [r EXCEPT !.known = v].unreported = r.unreported
         /\ [r EXCEPT !.unavailable = v].unreported = r.unreported
         /\ [r EXCEPT !.ignored = v, !.unreported = w].known = r.known
         /\ [r EXCEPT !.ignored = v, !.unreported = w].unavailable = r.unavailable
         /\ [r EXCEPT !.ignored = v, !.unreported = w].unreported = w
  BY DEF Record

LEMMA RequestTypes ==
  ASSUME NEW r \in Request, r.uid \in Uids, NEW v \in BOOLEAN
  PROVE  /\ [r EXCEPT !.removed = v] \in Request /\ [r EXCEPT !.removed = v].uid = r.uid
         /\ [r EXCEPT !.seen = v] \in Request /\ [r EXCEPT !.seen = v].uid = r.uid
         /\ [r EXCEPT !.unwritten = v] \in Request /\ [r EXCEPT !.unwritten = v].uid = r.uid
         /\ r.removed \in BOOLEAN
  BY AncsAssumption DEF Request, NoRequest

LEMMA ActiveTypes ==
  ASSUME NEW r \in Request
  PROVE  /\ r.uid \in Uids \/ r = NoRequest
         /\ NoRequest.uid \notin Uids
         /\ \A u \in Uids : [NoRequest EXCEPT !.uid = u] \in Request /\ [NoRequest EXCEPT !.uid = u].uid = u
  BY AncsAssumption DEF Request, NoRequest

\* The cleared book is exact.
LEMMA ClearedExact ==
  ASSUME book' = ClearedBook, TypeOK, load' = load
  PROVE  BookExact'
<1>1. book'.queued = {} /\ book'.pending = <<>>
  BY DEF ClearedBook
<1>2. load.maximum \in Nat /\ Len(<<>>) = 0
  BY Fields
<1> QED
  BY <1>1, <1>2, NoItem DEF BookExact

\* A new state of the active request, which names the same notification or none.
LEMMA ActiveExact ==
  ASSUME TypeOK, BookExact, load' = load, NEW r \in Request, book' = [book EXCEPT !.active = r],
         r.uid = book.active.uid \/ r = NoRequest
  PROVE  book' \in Book /\ BookExact' /\ book'.records = book.records
<1>1. book \in Book /\ book.queued \in SUBSET Uids
  BY Fields DEF TypeOK
<1>2. /\ book' \in Book /\ book'.records = book.records /\ book'.pending = book.pending
      /\ book'.queued = book.queued /\ book'.active = r
  BY <1>1, BookTypes
<1>3. r.uid \notin book.queued
  BY <1>1, ActiveTypes DEF BookExact
<1> QED
  BY <1>2, <1>3 DEF BookExact

\* NotificationRemoved.
LEMMA RemovedExact ==
  ASSUME TypeOK, NEW uid \in Uids, Removed(uid)
  PROVE  /\ book' \in Book /\ book'.records = [book.records EXCEPT ![uid] = NoRecord]
         /\ BookExact /\ load' = load => BookExact'
<1>1. PICK rest \in Others(book.pending, uid) :
        book' = [records |-> [book.records EXCEPT ![uid] = NoRecord],
                 pending |-> rest,
                 queued |-> book.queued \ {uid},
                 active |-> IF book.active.uid = uid THEN [book.active EXCEPT !.removed = TRUE] ELSE book.active]
  BY DEF Removed
<1>2. /\ rest \in Seq(Uids) /\ Range(rest) = Range(book.pending) \ {uid}
      /\ IsInjective(book.pending) => IsInjective(rest)
      /\ Len(rest) <= Len(book.pending)
  BY Fields, OthersOf
<1>3. /\ book'.active \in Request /\ book'.active.uid = book.active.uid
  BY <1>1, Fields, RequestTypes
<1>4. /\ book'.records = [book.records EXCEPT ![uid] = NoRecord] /\ book'.pending = rest
      /\ book'.queued = book.queued \ {uid}
  BY <1>1
<1>5. book' \in Book
  <2>1. book'.records \in [Uids -> Record] /\ book'.queued \in SUBSET Uids
    BY <1>4, Fields, ClearedTypes
  <2>2. book' = [records |-> book'.records, pending |-> book'.pending, queued |-> book'.queued,
                 active |-> book'.active]
    BY <1>1
  <2> QED
    BY <1>2, <1>3, <1>4, <2>1, <2>2 DEF Book
<1>6. ASSUME BookExact, load' = load PROVE BookExact'
  <2>1. \A u \in book'.queued : book'.records[u] = book.records[u] /\ u \in book.queued
    BY <1>4, Fields
  <2>2. load.maximum # 0 => Len(rest) <= load.maximum
    <3>1. Len(rest) \in Nat /\ Len(book.pending) \in Nat /\ load.maximum \in Nat
      BY <1>2, Fields
    <3> QED
      BY <1>2, <1>6, <3>1 DEF BookExact
  <2> QED
    BY <1>2, <1>3, <1>4, <1>6, <2>1, <2>2 DEF BookExact
<1> QED
  BY <1>4, <1>5, <1>6

\* NotificationAdded and NotificationUpdated.
LEMMA AddedExact ==
  ASSUME TypeOK, NEW uid \in Uids, AddedOrUpdated(uid)
  PROVE  /\ book' \in Book
         /\ \A u \in Uids : /\ book'.records[u] \in Record
                            /\ ~book'.records[u].unreported => ~book.records[u].unreported
         /\ BookExact /\ load' = load => BookExact'
<1>1. /\ book \in Book /\ book.records \in [Uids -> Record] /\ book.pending \in Seq(Uids)
      /\ book.queued \in SUBSET Uids /\ load.maximum \in Nat /\ book.records[uid] \in Record
      /\ Len(book.pending) \in Nat
  BY Fields DEF TypeOK
<1> DEFINE known == [book.records[uid] EXCEPT !.known = TRUE]
<1>2. known \in Record /\ known.known /\ known.unavailable = book.records[uid].unavailable
      /\ known.unreported = book.records[uid].unreported
  BY <1>1, RecordTypes
<1>3. NoRecord \in Record /\ NoRecord.unreported
  BY ClearedTypes DEF NoRecord
<1> HIDE DEF known
<1>4. CASE ~MustAsk(uid)
  <2>1. book' = [book EXCEPT !.records[uid] = known]
    BY <1>4 DEF AddedOrUpdated, known
  <2>2. /\ book' \in Book /\ book'.records = [book.records EXCEPT ![uid] = known]
        /\ book'.pending = book.pending /\ book'.queued = book.queued /\ book'.active = book.active
    BY <1>1, <1>2, <2>1, BookTypes
  <2>3. /\ book'.records[uid] = known
        /\ \A u \in Uids : u # uid => book'.records[u] = book.records[u]
    BY <1>1, <2>2
  <2>4. ASSUME BookExact, load' = load PROVE BookExact'
    BY <1>1, <1>2, <2>2, <2>3, <2>4 DEF BookExact
  <2> QED
    BY <1>1, <1>2, <2>2, <2>3, <2>4
<1>5. CASE MustAsk(uid)
  <2> DEFINE rest == IF Saturated THEN Tail(book.pending) ELSE book.pending
  <2>1. book' = [book EXCEPT
              !.records = [u \in Uids |-> IF u = uid THEN known
                                          ELSE IF u \in Dropped THEN NoRecord ELSE book.records[u]],
              !.pending = Append(rest, uid),
              !.queued = (book.queued \ Dropped) \cup {uid}]
    BY <1>5 DEF AddedOrUpdated, known
  <2>2. Saturated => book.pending # <<>> /\ load.maximum # 0 /\ ~(Len(book.pending) < load.maximum)
    BY <1>1 DEF Saturated
  <2>3. /\ rest \in Seq(Uids)
        /\ Saturated => Len(rest) = Len(book.pending) - 1
        /\ Range(book.pending) = Range(rest) \cup Dropped
        /\ IsInjective(book.pending) => IsInjective(rest) /\ Dropped \cap Range(rest) = {}
    <3>1. CASE Saturated
      <4>1. Dropped = {Head(book.pending)} /\ rest = Tail(book.pending)
        BY <3>1 DEF Dropped
      <4> QED
        BY <1>1, <2>2, <3>1, <4>1, TailRest
    <3>2. CASE ~Saturated
      BY <1>1, <3>2 DEF Dropped
    <3> QED
      BY <3>1, <3>2
  <2> HIDE DEF rest
  <2>4. Dropped \subseteq Uids
    <3>1. Range(book.pending) \subseteq Uids
      BY <1>1, RangeOf
    <3> QED
      BY <2>3, <3>1
  <2>5. /\ Append(rest, uid) \in Seq(Uids)
        /\ Range(Append(rest, uid)) = Range(rest) \cup {uid}
        /\ IsInjective(rest) /\ uid \notin Range(rest) => IsInjective(Append(rest, uid))
        /\ Len(Append(rest, uid)) = Len(rest) + 1
    BY <2>3, AppendNew
  <2>6. /\ book'.pending = Append(rest, uid)
        /\ book'.queued = (book.queued \ Dropped) \cup {uid}
        /\ book'.active = book.active
        /\ book'.records = [u \in Uids |-> IF u = uid THEN known
                                          ELSE IF u \in Dropped THEN NoRecord ELSE book.records[u]]
    BY <1>1, <2>1 DEF Book
  <2>7. /\ book'.records \in [Uids -> Record] /\ book'.records[uid] = known
        /\ \A u \in Uids : u # uid /\ u \in Dropped => book'.records[u] = NoRecord
        /\ \A u \in Uids : u # uid /\ u \notin Dropped => book'.records[u] = book.records[u]
    BY <1>1, <1>2, <1>3, <2>6
  <2>8. book' \in Book
    <3>1. \A f \in [Uids -> Record], p \in Seq(Uids), q \in SUBSET Uids :
            [book EXCEPT !.records = f, !.pending = p, !.queued = q] \in Book
      BY <1>1 DEF Book
    <3>2. (book.queued \ Dropped) \cup {uid} \in SUBSET Uids
      BY <1>1
    <3> QED
      BY <2>1, <2>5, <2>6, <2>7, <3>1, <3>2
  <2>9. ASSUME NEW u \in Uids
        PROVE  /\ book'.records[u] \in Record
               /\ ~book'.records[u].unreported => ~book.records[u].unreported
    BY <1>1, <1>2, <1>3, <2>7
  <2>10. ASSUME BookExact, load' = load PROVE BookExact'
    <3>1. /\ book.queued = Range(book.pending) /\ IsInjective(book.pending)
          /\ book.active.uid \notin book.queued
          /\ load.maximum # 0 => Len(book.pending) <= load.maximum
          /\ \A u \in book.queued : book.records[u].known /\ ~book.records[u].unavailable
      BY <2>10 DEF BookExact
    <3>2. uid \notin book.queued /\ book.active.uid # uid /\ ~book.records[uid].unavailable
      BY <1>5 DEF MustAsk
    <3>3. book'.queued = Range(book'.pending) /\ IsInjective(book'.pending)
      BY <2>3, <2>5, <2>6, <3>1, <3>2
    <3>4. book'.active.uid \notin book'.queued
      <4>1. book.active.uid \notin (book.queued \ Dropped) \cup {uid}
        BY <3>1, <3>2, Zenon
      <4> QED
        BY <2>6, <4>1, Zenon
    <3>5. \A u \in book'.queued : book'.records[u].known /\ ~book'.records[u].unavailable
      BY <1>1, <1>2, <2>6, <2>7, <3>1, <3>2
    <3>6. load.maximum # 0 => Len(book'.pending) <= load.maximum
      <4>1. Len(rest) \in Nat
        BY <2>3
      <4>2. CASE Saturated
        <5>1. Len(rest) = Len(book.pending) - 1 /\ Len(book'.pending) = Len(rest) + 1
          BY <2>3, <2>5, <2>6, <4>2
        <5>2. load.maximum # 0 => Len(book.pending) <= load.maximum
          BY <3>1
        <5> HIDE DEF rest
        <5> QED
          BY <1>1, <4>1, <5>1, <5>2
      <4>3. CASE ~Saturated
        <5>1. load.maximum # 0 => Len(book.pending) < load.maximum
          BY <1>1, <4>3 DEF Saturated
        <5>2. rest = book.pending
          BY <4>3 DEF rest
        <5> QED
          BY <1>1, <2>5, <2>6, <5>1, <5>2
      <4> QED
        BY <4>2, <4>3
    <3> QED
      BY <2>10, <3>3, <3>4, <3>5, <3>6 DEF BookExact
  <2> QED
    BY <2>8, <2>9, <2>10
<1> QED
  BY <1>4, <1>5

\* emitAttributesUnavailable(): the record of the active request is marked.
LEMMA UnavailableExact ==
  ASSUME TypeOK, book.active # NoRequest, book' = Unavailable(book.active.uid, book)
  PROVE  /\ book' \in Book /\ book.active.uid \in Uids
         /\ \A u \in Uids : book'.records[u].unreported = book.records[u].unreported
         /\ BookExact /\ load' = load => BookExact'
<1> DEFINE uid == book.active.uid
           rec == [book.records[uid] EXCEPT !.unavailable = book.records[uid].known]
           marked == [book EXCEPT !.records[uid] = rec]
<1>1. /\ book \in Book /\ book.records \in [Uids -> Record] /\ book.queued \in SUBSET Uids
      /\ uid \in Uids /\ book.records[uid] \in Record /\ book.records[uid].known \in BOOLEAN
  BY Fields, ActiveTypes DEF TypeOK, Record
<1>2. rec \in Record /\ rec.unreported = book.records[uid].unreported
  <2>1. \A r \in Record, v \in BOOLEAN : /\ [r EXCEPT !.unavailable = v] \in Record
                                         /\ [r EXCEPT !.unavailable = v].unreported = r.unreported
    BY DEF Record
  <2> QED
    BY <1>1, <2>1
<1>3. /\ marked \in Book /\ marked.records = [book.records EXCEPT ![uid] = rec]
      /\ marked.pending = book.pending /\ marked.queued = book.queued
  BY <1>1, <1>2, BookTypes
<1>4. book' = [marked EXCEPT !.active = NoRequest]
  BY <1>1 DEF Unavailable, Book
<1> HIDE DEF marked, rec
<1>5. /\ book' \in Book /\ book'.records = marked.records /\ book'.pending = marked.pending
      /\ book'.queued = marked.queued /\ book'.active = NoRequest
  BY <1>3, <1>4, ClearedTypes, BookTypes
<1>6. /\ book'.records[uid] = rec
      /\ \A u \in Uids : u # uid => book'.records[u] = book.records[u]
  BY <1>1, <1>3, <1>5
<1>7. ASSUME BookExact, load' = load PROVE BookExact'
  <2>1. NoRequest.uid \notin book.queued
    BY <1>1, Fields, ActiveTypes
  <2>2. uid \notin book.queued
    BY <1>7 DEF BookExact
  <2> HIDE DEF uid
  <2> QED
    BY <1>1, <1>3, <1>5, <1>6, <1>7, <2>1, <2>2 DEF BookExact
<1> QED
  BY <1>1, <1>2, <1>5, <1>6, <1>7

\* The attributes are complete: the request ends, the record is as it was reported.
LEMMA CompleteExact ==
  ASSUME TypeOK, DataSourceComplete
  PROVE  /\ book' \in Book
         /\ BookExact /\ load' = load => BookExact'
         /\ \A u \in Uids : u # worker.of.uid => book'.records[u] = book.records[u]
         /\ worker.of.removed \/ ~book.records[worker.of.uid].known => book'.records = book.records
<1> DEFINE uid == worker.of.uid
           rec == book.records[uid]
           ignored == IsBeforeCutoff(worker.of.date)
           told == [rec EXCEPT !.ignored = ignored, !.unreported = FALSE]
<1>1. /\ book \in Book /\ book.records \in [Uids -> Record] /\ book.queued \in SUBSET Uids
      /\ uid \in Uids /\ rec \in Record /\ ignored \in BOOLEAN
  <2>1. worker.of \in Answered
    BY DEF TypeOK, WorkerHolds, DataSourceComplete
  <2>2. uid \in Uids /\ ignored \in BOOLEAN
    BY <2>1, Fields DEF Answered, IsBeforeCutoff
  <2> QED
    BY <2>2, Fields DEF TypeOK
<1>2. /\ NoRequest \in Request /\ NoRequest.uid \notin book.queued
  BY <1>1, ClearedTypes, ActiveTypes
<1>3. CASE worker.of.removed \/ ~rec.known
  <2>1. book' = [book EXCEPT !.active = NoRequest]
    BY <1>3 DEF DataSourceComplete
  <2>2. /\ book' \in Book /\ book'.records = book.records /\ book'.pending = book.pending
        /\ book'.queued = book.queued /\ book'.active = NoRequest
    BY <1>1, <1>2, <2>1, BookTypes
  <2>3. ASSUME BookExact, load' = load PROVE BookExact'
    BY <1>2, <2>2, <2>3 DEF BookExact
  <2> QED
    BY <2>2, <2>3
<1>4. CASE ~(worker.of.removed \/ ~rec.known)
  <2>1. told \in Record /\ told.known = rec.known /\ told.unavailable = rec.unavailable
    <3>1. \A r \in Record, v \in BOOLEAN :
            /\ [r EXCEPT !.ignored = v, !.unreported = FALSE] \in Record
            /\ [r EXCEPT !.ignored = v, !.unreported = FALSE].known = r.known
            /\ [r EXCEPT !.ignored = v, !.unreported = FALSE].unavailable = r.unavailable
      BY DEF Record
    <3> QED
      BY <1>1, <3>1
  <2>2. book' = [book EXCEPT !.active = NoRequest, !.records[uid].ignored = ignored,
                             !.records[uid].unreported = FALSE]
    BY <1>4 DEF DataSourceComplete
  <2>3. book' = [book EXCEPT !.active = NoRequest, !.records = [book.records EXCEPT ![uid] = told]]
    BY <1>1, <2>2 DEF Book, Record
  <2> HIDE DEF told, ignored
  <2>4. [book.records EXCEPT ![uid] = told] \in [Uids -> Record]
    BY <1>1, <2>1
  <2>5. /\ book' \in Book /\ book'.pending = book.pending /\ book'.queued = book.queued
        /\ book'.active = NoRequest /\ book'.records = [book.records EXCEPT ![uid] = told]
    BY <1>1, <1>2, <2>3, <2>4 DEF Book
  <2>6. /\ book'.records[uid] = told
        /\ \A u \in Uids : u # uid => book'.records[u] = book.records[u]
    BY <1>1, <2>5
  <2>7. ASSUME BookExact, load' = load PROVE BookExact'
    BY <1>1, <1>2, <2>1, <2>5, <2>6, <2>7 DEF BookExact
  <2> QED
    BY <1>4, <2>5, <2>6, <2>7
<1> QED
  BY <1>3, <1>4

\* The next request leaves the queue.
LEMMA NextExact ==
  ASSUME TypeOK, StartNextRequest
  PROVE  /\ book' \in Book /\ book'.records = book.records
         /\ BookExact /\ load' = load => BookExact'
         /\ worker' \in WorkerState /\ WorkerHolds' /\ worker'.at \in {"idle", "request"}
         /\ book' = book \/ flag.ready
         /\ worker'.at = "request" => flag.ready
<1>1. /\ book \in Book /\ book.pending \in Seq(Uids) /\ book.queued \in SUBSET Uids
      /\ worker \in WorkerState /\ load.maximum \in Nat /\ book.active \in Request
  BY Fields DEF TypeOK
<1>2. CASE ~(flag.ready /\ book.active = NoRequest /\ book.pending # <<>>)
  <2>1. book' = book /\ worker' = [worker EXCEPT !.at = "idle"]
    BY <1>2 DEF StartNextRequest, Then
  <2>2. worker' \in WorkerState /\ worker'.at = "idle"
    BY <1>1, <2>1 DEF WorkerState
  <2> QED
    BY <1>1, <2>1, <2>2 DEF BookExact, WorkerHolds
<1>3. CASE flag.ready /\ book.active = NoRequest /\ book.pending # <<>>
  <2> DEFINE uid == Head(book.pending)
             rec == book.records[uid]
             asks == rec.known /\ ~rec.unavailable
             active == IF asks THEN [NoRequest EXCEPT !.uid = uid] ELSE book.active
  <2>1. /\ uid \in Uids /\ Tail(book.pending) \in Seq(Uids)
        /\ Range(book.pending) = Range(Tail(book.pending)) \cup {uid}
        /\ IsInjective(book.pending) => /\ IsInjective(Tail(book.pending))
                                        /\ uid \notin Range(Tail(book.pending))
        /\ Len(Tail(book.pending)) = Len(book.pending) - 1 /\ Len(book.pending) \in Nat
    BY <1>1, <1>3, TailRest
  <2>2. /\ book' = [book EXCEPT !.pending = Tail(book.pending), !.queued = book.queued \ {uid},
                                !.active = active]
        /\ worker' = [worker EXCEPT !.at = IF asks THEN "request" ELSE "idle", !.of = [uid |-> uid]]
    BY <1>3 DEF StartNextRequest
  <2>3. active \in Request /\ (active.uid = uid \/ active = NoRequest)
    <3>1. asks => active = [NoRequest EXCEPT !.uid = uid]
      OBVIOUS
    <3>2. ~asks => active = NoRequest
      BY <1>3
    <3> HIDE DEF asks, active, uid
    <3> QED
      BY <1>1, <2>1, <3>1, <3>2, ActiveTypes, ClearedTypes
  <2>4. [uid |-> uid] \in Asked
    BY <2>1 DEF Asked
  <2>5. worker' \in WorkerState /\ WorkerHolds' /\ worker'.at \in {"idle", "request"}
    <3>1. worker'.of = [uid |-> uid]
      BY <1>1, <2>2 DEF WorkerState
    <3>2. worker'.at = "idle" \/ worker'.at = "request"
      BY <1>1, <2>2 DEF WorkerState
    <3>3. worker' \in WorkerState
      <4>1. \A at \in {"idle", "request"}, of \in Asked : [worker EXCEPT !.at = at, !.of = of] \in WorkerState
        BY <1>1 DEF WorkerState
      <4> HIDE DEF asks, uid
      <4> QED
        BY <2>2, <2>4, <4>1
    <3>4. WorkerHolds'
      BY <2>4, <3>1, <3>2, Zenon DEF WorkerHolds
    <3> QED
      BY <3>2, <3>3, <3>4
  <2> HIDE DEF active, uid
  <2>6. /\ book' \in Book /\ book'.records = book.records /\ book'.pending = Tail(book.pending)
        /\ book'.queued = book.queued \ {uid} /\ book'.active = active
    BY <1>1, <2>1, <2>2, <2>3 DEF Book
  <2>7. ASSUME BookExact, load' = load PROVE BookExact'
    <3>1. NoRequest.uid \notin Uids
      BY <1>1, ActiveTypes
    <3>2. book'.queued = Range(book'.pending) /\ IsInjective(book'.pending)
      BY <2>1, <2>6, <2>7 DEF BookExact
    <3>3. book'.active.uid \notin book'.queued
      BY <1>1, <2>3, <2>6, <3>1
    <3>4. \A u \in book'.queued : book'.records[u].known /\ ~book'.records[u].unavailable
      BY <2>6, <2>7 DEF BookExact
    <3>5. load.maximum # 0 => Len(book'.pending) <= load.maximum
      <4>1. load.maximum # 0 => Len(book.pending) <= load.maximum
        BY <2>7 DEF BookExact
      <4> QED
        BY <1>1, <2>1, <2>6, <4>1
    <3> QED
      BY <2>7, <3>2, <3>3, <3>4, <3>5 DEF BookExact
  <2> QED
    BY <1>3, <2>5, <2>6, <2>7
<1> QED
  BY <1>2, <1>3

\* failRuntime(): the book is cleared, or what it is given.
LEMMA FailRuntimeKeeps ==
  ASSUME TypeOK, NEW e \in Seq(Event), NEW b \in Book, FailRuntime(e, b)
  PROVE  /\ flag' \in Flag /\ queue' \in Queue /\ book' \in Book
         /\ worker' \in WorkerState /\ WorkerHolds' /\ worker'.at \in {"next", "cleanup"}
         /\ queue'.events = queue.events \o e
         /\ \/ /\ flag.state \in {"Failed", "Stopped"} /\ worker'.at = "next"
               /\ book' = b /\ flag' = flag
            \/ /\ flag.state \notin {"Failed", "Stopped"} /\ worker'.at = "cleanup"
               /\ book' = ClearedBook /\ ~flag'.ready /\ flag'.state = "Failed"
               /\ flag'.shutdown = flag.shutdown
<1>1. queue.events \in Seq(Event) /\ queue.events \o e \in Seq(Event) /\ flag \in Flag
      /\ worker \in WorkerState /\ queue \in Queue
  BY Fields DEF TypeOK
<1>2. \A at \in {"next", "cleanup"} : /\ [worker EXCEPT !.at = at] \in WorkerState
                                      /\ [worker EXCEPT !.at = at].at = at
  BY <1>1 DEF WorkerState
<1>3. /\ [queue EXCEPT !.events = queue.events \o e] \in Queue
      /\ [queue EXCEPT !.events = queue.events \o e].events = queue.events \o e
      /\ [ClearedQueue EXCEPT !.events = queue.events \o e] \in Queue
      /\ [ClearedQueue EXCEPT !.events = queue.events \o e].events = queue.events \o e
  <2>1. \A q \in Queue : [q EXCEPT !.events = queue.events \o e].events = queue.events \o e
    BY DEF Queue
  <2> QED
    BY <1>1, <2>1, QueueTypes
<1>4. CASE flag.state \in {"Failed", "Stopped"}
  BY <1>1, <1>2, <1>3, <1>4 DEF FailRuntime, Then, WorkerHolds
<1>5. CASE flag.state \notin {"Failed", "Stopped"}
  <2>1. flag' = [flag EXCEPT !.ready = FALSE, !.accept = FALSE, !.state = "Failed"]
    BY <1>5 DEF FailRuntime
  <2>2. flag' \in Flag /\ ~flag'.ready /\ flag'.state = "Failed" /\ flag'.shutdown = flag.shutdown
    BY <1>1, <2>1 DEF Flag, SessionStates
  <2>3. /\ book' = ClearedBook /\ worker' = [worker EXCEPT !.at = "cleanup"]
        /\ queue' = [ClearedQueue EXCEPT !.events = queue.events \o e]
    <3>1. ClearedQueue.events = queue.events
      BY QueueTypes
    <3> QED
      BY <1>5, <3>1 DEF FailRuntime, Then
  <2> QED
    BY <1>2, <1>3, <1>5, <2>2, <2>3, ClearedTypes DEF WorkerHolds
<1> QED
  BY <1>4, <1>5

-----------------------------------------------------------------------------
(* The event worker.                                                       *)


\* The worker takes something up, or ends.
LEMMA TakeTypes ==
  ASSUME TypeOK, TakeEvent \/ TakePacket \/ TakeResult \/ TakeTimeout \/ WorkerExit
  PROVE  TypeOK' /\ book' = book
<1>1. worker \in WorkerState
  BY DEF TypeOK
<1>2. ASSUME NEW kind \in {"event", "packet", "result", "timeout"}, NEW of, NEW q \in Queue, Take(kind, of, q),
             kind = "event" => of \in Event, kind = "packet" => of \in Packet,
             kind = "result" => of \in Result, kind = "timeout" => of = NoRequest
      PROVE  TypeOK' /\ book' = book
  <2>1. worker' = [worker EXCEPT !.at = "taken", !.kind = kind, !.of = of]
    BY <1>2 DEF Take
  <2>2. of \in Event \cup Packet \cup Result \cup Answered \cup Asked \cup {NoRequest}
    BY <1>2
  <2> HIDE DEF Event, Packet, Result, Answered, Asked, NoRequest
  <2>3. /\ worker' \in WorkerState /\ worker'.at = "taken" /\ worker'.kind = kind /\ worker'.of = of
    BY <1>1, <2>1, <2>2 DEF WorkerState
  <2>4. WorkerHolds'
    BY <1>2, <2>3 DEF WorkerHolds
  <2>5. queue' \in Queue /\ UNCHANGED <<load, flag, book, subs, starter, stopper, writer, phone, faults, log>>
    BY <1>2 DEF Take
  <2> QED
    BY <2>3, <2>4, <2>5 DEF TypeOK
<1>3. CASE TakeEvent
  <2>1. queue.events \in Seq(Event) /\ queue.events # <<>>
    BY <1>3, Fields DEF TakeEvent
  <2>2. Head(queue.events) \in Event /\ Tail(queue.events) \in Seq(Event)
    BY <2>1
  <2>3. [queue EXCEPT !.events = Tail(queue.events)] \in Queue
    BY <2>2, QueueTypes
  <2> QED
    BY <1>2, <1>3, <2>2, <2>3 DEF TakeEvent
<1>4. CASE TakePacket
  <2>1. queue.gatt \in Seq(Packet) /\ queue.gatt # <<>>
    BY <1>4, Fields DEF TakePacket
  <2>2. Head(queue.gatt) \in Packet /\ Tail(queue.gatt) \in Seq(Packet)
    BY <2>1
  <2>3. [queue EXCEPT !.gatt = Tail(queue.gatt)] \in Queue
    BY <2>2, QueueTypes
  <2> QED
    BY <1>2, <1>4, <2>2, <2>3 DEF TakePacket
<1>5. CASE TakeResult
  <2>1. queue.results \in Seq(Result) /\ queue.results # <<>>
    BY <1>5, Fields DEF TakeResult
  <2>2. Head(queue.results) \in Result /\ Tail(queue.results) \in Seq(Result)
    BY <2>1
  <2>3. [queue EXCEPT !.results = Tail(queue.results)] \in Queue
    BY <2>2, QueueTypes
  <2> QED
    BY <1>2, <1>5, <2>2, <2>3 DEF TakeResult
<1>6. CASE TakeTimeout
  <2>1. queue \in Queue
    BY DEF TypeOK
  <2> QED
    BY <1>2, <1>6, <2>1 DEF TakeTimeout
<1>7. CASE WorkerExit
  <2>1. worker' \in WorkerState /\ worker'.at = "none"
    BY <1>1, <1>7 DEF WorkerExit, WorkerState
  <2> QED
    BY <1>7, <2>1 DEF WorkerExit, TypeOK, WorkerHolds
<1> QED
  BY <1>3, <1>4, <1>5, <1>6, <1>7

\* The worker goes on, and holds nothing more.
LEMMA ThenTypes ==
  ASSUME TypeOK, NEW at \in {"none", "idle", "next", "cleanup"}, Then(at)
  PROVE  worker' \in WorkerState /\ WorkerHolds' /\ worker'.at = at
<1>1. worker' \in WorkerState /\ worker'.at = at
  BY DEF TypeOK, WorkerState, Then
<1> QED
  BY <1>1 DEF WorkerHolds

\* The handler is called.
LEMMA DispatchEffect ==
  ASSUME TypeOK, Dispatch
  PROVE  /\ TypeOK' /\ UNCHANGED <<load, subs, starter, stopper, writer, phone>>
         /\ BookExact => BookExact'
         /\ worker.of \in Event /\ log' = Append(log, worker.of)
         /\ queue'.events = queue.events /\ worker'.at \in {"next", "cleanup"}
         /\ \/ book' = book /\ flag' = flag /\ worker'.at = "next"
            \/ /\ flag.state \notin {"Failed", "Stopped"} /\ book' = ClearedBook
               /\ ~flag'.ready /\ flag'.state = "Failed" /\ flag'.shutdown = flag.shutdown
<1>1. worker.of \in Event /\ log' = Append(log, worker.of)
  BY DEF TypeOK, WorkerHolds, Dispatch, Work
<1>2. log' \in Seq(Event)
  BY <1>1 DEF TypeOK
<1>3. UNCHANGED <<load, subs, starter, stopper, writer, phone>>
  BY DEF Dispatch
<1>4. queue \in Queue /\ queue.events \in Seq(Event) /\ book \in Book /\ flag \in Flag /\ faults \in Nat
  BY Fields DEF TypeOK
<1>5. CASE Then("next") /\ UNCHANGED <<flag, queue, book, faults>>
  <2>1. worker' \in WorkerState /\ WorkerHolds' /\ worker'.at = "next"
    BY <1>5, ThenTypes
  <2> QED
    BY <1>1, <1>2, <1>3, <1>5, <2>1 DEF TypeOK, BookExact
<1>6. CASE Fault /\ FailRuntime(<<>>, book)
  <2>1. <<>> \in Seq(Event) /\ queue.events \o <<>> = queue.events
    BY <1>4
  <2>2. /\ flag' \in Flag /\ queue' \in Queue /\ book' \in Book
        /\ worker' \in WorkerState /\ WorkerHolds' /\ worker'.at \in {"next", "cleanup"}
        /\ queue'.events = queue.events
        /\ \/ /\ flag.state \in {"Failed", "Stopped"} /\ worker'.at = "next"
              /\ book' = book /\ flag' = flag
           \/ /\ flag.state \notin {"Failed", "Stopped"} /\ worker'.at = "cleanup"
              /\ book' = ClearedBook /\ ~flag'.ready /\ flag'.state = "Failed"
              /\ flag'.shutdown = flag.shutdown
    BY <1>4, <1>6, <2>1, FailRuntimeKeeps
  <2>3. faults' \in Nat
    BY <1>4, <1>6 DEF Fault
  <2>4. TypeOK'
    BY <1>2, <1>3, <2>2, <2>3 DEF TypeOK
  <2>5. BookExact => BookExact'
    BY <1>3, <2>2, ClearedExact DEF BookExact
  <2> QED
    BY <1>1, <1>3, <2>2, <2>4, <2>5
<1> QED
  BY <1>5, <1>6 DEF Dispatch

\* What ties the flags to the book: only a session that is ready has requests.
SessionFacts ==
  /\ flag.ready => flag.state = "Ready"
  /\ ~flag.ready => book = ClearedBook

\* A step that tells the application nothing, and one that tells it e: what must
\* hold of the session before, and what may hold of it after.
Keeps ==
  /\ flag'.ready => flag.ready
  /\ \A u \in Uids : ~load.cutoff /\ ~book'.records[u].unreported => ~book.records[u].unreported

MayTell(e) ==
  /\ e.kind \in {"added", "updated", "removed", "unavailable"} => flag.ready
  /\ e.kind = "updated" /\ ~load.cutoff => e.of \in Uids /\ ~book.records[e.of].unreported

Leaves(e) ==
  /\ flag'.ready => e = State("Ready") \/ (flag.ready /\ e # State("Stopped"))
  /\ \A u \in Uids : ~load.cutoff /\ ~book'.records[u].unreported =>
       e = Report("added", u) \/ (~book.records[u].unreported /\ e # Report("removed", u))

Told ==
  \/ queue'.events = queue.events /\ Keeps
  \/ \E e \in Event : queue'.events = Append(queue.events, e) /\ MayTell(e) /\ Leaves(e)

\* One piece of the worker's work.
WorkDone ==
  /\ UNCHANGED <<load, subs, starter, stopper, writer, phone, faults, log>>
  /\ worker'.at \in {"next", "cleanup", "conclude"}
  /\ flag'.ready => flag.ready
  /\ flag'.shutdown = flag.shutdown
  /\ flag'.state = flag.state \/ (flag'.state = "Failed" /\ flag.state # "Stopped")
  /\ SessionFacts'
  /\ flag.state = "Stopped" => queue'.events = queue.events /\ worker'.at = "next"
  /\ Told

\* Every record of a cleared book is new.
LEMMA ClearedKeeps ==
  ASSUME book' = ClearedBook
  PROVE  \A u \in Uids : book'.records[u].unreported
  BY DEF ClearedBook, NoRecord

\* The session fails, or had already ended.
LEMMA FailDone ==
  ASSUME TypeOK, SessionFacts, FailRuntime(<<>>, book),
         UNCHANGED <<load, subs, starter, stopper, writer, phone, faults, log>>
  PROVE  TypeOK' /\ (BookExact => BookExact') /\ WorkDone
<1>1. queue.events \in Seq(Event) /\ <<>> \in Seq(Event) /\ queue.events \o <<>> = queue.events /\ book \in Book
  BY Fields DEF TypeOK
<1>2. /\ flag' \in Flag /\ queue' \in Queue /\ book' \in Book
      /\ worker' \in WorkerState /\ WorkerHolds' /\ worker'.at \in {"next", "cleanup"}
      /\ queue'.events = queue.events
      /\ \/ /\ flag.state \in {"Failed", "Stopped"} /\ worker'.at = "next"
            /\ book' = book /\ flag' = flag
         \/ /\ flag.state \notin {"Failed", "Stopped"} /\ worker'.at = "cleanup"
            /\ book' = ClearedBook /\ ~flag'.ready /\ flag'.state = "Failed"
            /\ flag'.shutdown = flag.shutdown
  BY <1>1, FailRuntimeKeeps
<1>3. TypeOK'
  BY <1>2 DEF TypeOK
<1>4. BookExact => BookExact'
  BY <1>2, ClearedExact DEF BookExact
<1>5. SessionFacts'
  BY <1>2 DEF SessionFacts
<1>6. Told
  BY <1>2, ClearedKeeps DEF Told, Keeps
<1> QED
  BY <1>2, <1>3, <1>4, <1>5, <1>6 DEF WorkDone

\* Nothing happens.
LEMMA NothingDone ==
  ASSUME TypeOK, SessionFacts, Then("next"),
         UNCHANGED <<load, flag, queue, book, subs, starter, stopper, writer, phone, faults, log>>
  PROVE  TypeOK' /\ (BookExact => BookExact') /\ WorkDone
<1>1. worker' \in WorkerState /\ WorkerHolds' /\ worker'.at = "next"
  BY ThenTypes
<1>2. TypeOK'
  BY <1>1 DEF TypeOK
<1> QED
  BY <1>1, <1>2 DEF BookExact, WorkDone, SessionFacts, Told, Keeps

\* One more event.
LEMMA EmitTypes ==
  ASSUME TypeOK
  PROVE  \A e \in Event : /\ Append(queue.events, e) \in Seq(Event)
                          /\ [queue EXCEPT !.events = Append(queue.events, e)] \in Queue
                          /\ [queue EXCEPT !.events = Append(queue.events, e)].events = Append(queue.events, e)
<1>1. queue \in Queue
  BY DEF TypeOK
<1>2. \A s \in Seq(Event) : [queue EXCEPT !.events = s].events = s
  BY <1>1 DEF Queue
<1>3. \A e \in Event : Append(queue.events, e) \in Seq(Event)
  BY EventsTold, Zenon
<1>4. \A s \in Seq(Event) : [queue EXCEPT !.events = s] \in Queue
  BY QueueTypes, Zenon
<1> QED
  BY <1>2, <1>3, <1>4, Zenon

\* processNotificationSourceValue().
LEMMA NotificationDone ==
  ASSUME TypeOK, SessionFacts, NotificationSource
  PROVE  TypeOK' /\ (BookExact => BookExact') /\ WorkDone
<1> DEFINE v == worker.of.value
<1>1. /\ worker.of.value.uid \in Uids /\ flag.ready /\ flag.state = "Ready"
      /\ UNCHANGED <<load, subs, starter, stopper, writer, phone, faults, log>>
  <2>1. worker.of \in Packet /\ worker.of.source = "notify"
    BY DEF TypeOK, WorkerHolds, NotificationSource, Work
  <2>2. worker.of.value \in NotificationValue
    BY <2>1 DEF Packet
  <2> QED
    BY <2>2 DEF NotificationSource, NotificationValue, SessionFacts
<1>2. /\ queue \in Queue /\ queue.events \in Seq(Event) /\ book \in Book /\ flag \in Flag
      /\ book.records \in [Uids -> Record]
  BY Fields DEF TypeOK
<1>3. \A e \in Event : /\ Append(queue.events, e) \in Seq(Event)
                       /\ [queue EXCEPT !.events = Append(queue.events, e)] \in Queue
                       /\ [queue EXCEPT !.events = Append(queue.events, e)].events = Append(queue.events, e)
  BY EmitTypes, Zenon
<1>4. ASSUME Then("next"), queue' \in Queue, book' \in Book, flag' \in Flag, flag'.ready,
             flag'.state = "Ready", flag'.shutdown = flag.shutdown, Told
      PROVE  TypeOK' /\ WorkDone
  <2>1. worker' \in WorkerState /\ WorkerHolds' /\ worker'.at = "next"
    BY <1>4, ThenTypes
  <2>2. TypeOK'
    BY <1>1, <1>4, <2>1 DEF TypeOK
  <2> QED
    BY <1>1, <1>4, <2>1, <2>2 DEF WorkDone, SessionFacts
<1>5. Err("minor") \in Event /\ Err("minor").kind = "error"
  <2>1. Err("minor") \in Event
    BY EventTypes DEF Errors
  <2> QED
    BY <2>1 DEF Err
<1>6. ASSUME Then("next"), Emit(Err("minor")), UNCHANGED <<flag, book>>
      PROVE  TypeOK' /\ (BookExact => BookExact') /\ WorkDone
  <2>1. queue' \in Queue /\ queue'.events = Append(queue.events, Err("minor"))
    BY <1>3, <1>5, <1>6 DEF Emit
  <2>2. Told
    <3>1. Leaves(Err("minor"))
      BY <1>6 DEF Leaves, Err, Report, State
    <3>2. MayTell(Err("minor"))
      BY <1>5 DEF MayTell
    <3> QED
      BY <1>5, <2>1, <3>1, <3>2 DEF Told
  <2> QED
    BY <1>1, <1>2, <1>4, <1>6, <2>1, <2>2 DEF BookExact
<1>7. ASSUME Then("next"), Removed(v.uid)
      PROVE  TypeOK' /\ (BookExact => BookExact') /\ WorkDone
  <2>1. /\ book' \in Book /\ book'.records = [book.records EXCEPT ![v.uid] = NoRecord]
        /\ BookExact => BookExact'
    BY <1>1, <1>7, RemovedExact
  <2>2. /\ \A u \in Uids : ~book'.records[u].unreported => ~book.records[u].unreported /\ u # v.uid
    BY <1>1, <1>2, <2>1 DEF NoRecord
  <2>3. flag' = flag /\ (queue' = queue \/ Emit(Report("removed", v.uid)))
    BY <1>7 DEF Removed, Report
  <2>4. CASE queue' = queue
    <3>1. Told
      BY <2>2, <2>3, <2>4 DEF Told, Keeps
    <3> QED
      BY <1>1, <1>2, <1>4, <1>7, <2>1, <2>3, <2>4, <3>1
  <2>5. CASE Emit(Report("removed", v.uid))
    <3> DEFINE e == Report("removed", v.uid)
    <3>1. e \in Event /\ e.kind = "removed" /\ e # State("Stopped")
          /\ \A u \in Uids : e = Report("removed", u) => u = v.uid
      <4>1. e \in Event
        BY <1>1, EventTypes DEF Report
      <4> QED
        BY <4>1 DEF Report, State
    <3>2. queue' \in Queue /\ queue'.events = Append(queue.events, e)
      BY <1>3, <2>5, <3>1 DEF Emit
    <3> HIDE DEF e
    <3>3. Leaves(e)
      BY <1>1, <2>2, <2>3, <3>1 DEF Leaves
    <3>4. MayTell(e)
      BY <1>1, <3>1 DEF MayTell
    <3>5. Told
      BY <1>1, <3>1, <3>2, <3>3, <3>4 DEF Told
    <3> QED
      BY <1>1, <1>2, <1>4, <1>7, <2>1, <2>3, <3>2, <3>5
  <2> QED
    BY <2>3, <2>4, <2>5
<1>8. ASSUME Then("next"), AddedOrUpdated(v.uid)
      PROVE  TypeOK' /\ (BookExact => BookExact') /\ WorkDone
  <2>1. /\ book' \in Book
        /\ \A u \in Uids : ~book'.records[u].unreported => ~book.records[u].unreported
        /\ BookExact => BookExact'
    BY <1>1, <1>8, AddedExact
  <2>2. /\ flag' = flag \/ flag' = [flag EXCEPT !.backlog = Saturated]
        /\ queue' = queue \/ Emit(Err("minor"))
    BY <1>8 DEF AddedOrUpdated
  <2>3. flag' \in Flag /\ flag'.ready = flag.ready /\ flag'.state = flag.state
        /\ flag'.shutdown = flag.shutdown
    <3>1. Saturated \in BOOLEAN
      BY DEF Saturated
    <3> QED
      BY <1>2, <2>2, <3>1 DEF Flag
  <2>4. CASE queue' = queue
    <3>1. Told
      BY <2>1, <2>3, <2>4 DEF Told, Keeps
    <3> QED
      BY <1>1, <1>2, <1>4, <1>8, <2>1, <2>3, <2>4, <3>1
  <2>5. CASE Emit(Err("minor"))
    <3>1. queue' \in Queue /\ queue'.events = Append(queue.events, Err("minor"))
      BY <1>3, <1>5, <2>5 DEF Emit
    <3>2. Leaves(Err("minor"))
      BY <1>1, <2>1, <2>3 DEF Leaves, Err, Report, State
    <3>3. MayTell(Err("minor"))
      BY <1>5 DEF MayTell
    <3>4. Told
      BY <1>5, <3>1, <3>2, <3>3 DEF Told
    <3> QED
      BY <1>1, <1>4, <1>8, <2>1, <2>3, <3>1, <3>4
  <2> QED
    BY <2>2, <2>4, <2>5
<1>9. CASE FailRuntime(<<>>, book)
  BY <1>1, <1>9, FailDone
<1> QED
  BY <1>6, <1>7, <1>8, <1>9 DEF NotificationSource

\* A step that leaves the flags, and a book of a session that is ready.
LEMMA StillReady ==
  ASSUME TypeOK, SessionFacts, flag' = flag, flag.ready, book' \in Book, queue' \in Queue, worker' \in WorkerState,
         WorkerHolds', worker'.at \in {"next", "conclude"}, Told,
         UNCHANGED <<load, subs, starter, stopper, writer, phone, faults, log>>
  PROVE  TypeOK' /\ WorkDone
<1>1. TypeOK'
  BY DEF TypeOK
<1> QED
  BY <1>1 DEF WorkDone, SessionFacts

\* An event of the active request that is not of the kind "updated".
LEMMA UnavailableTold ==
  ASSUME TypeOK, book.active # NoRequest, flag.ready, NEW e, e = [kind |-> "unavailable", of |-> book.active.uid],
         flag'.ready => flag.ready,
         \A u \in Uids : ~book'.records[u].unreported => ~book.records[u].unreported,
         queue'.events = Append(queue.events, e)
  PROVE  e \in Event /\ Told
<1>1. book.active.uid \in Uids
  BY Fields, ActiveTypes
<1>2. e \in Event
  BY <1>1, EventTypes
<1>3. e.kind = "unavailable"
  OBVIOUS
<1>4. MayTell(e)
  BY <1>3 DEF MayTell
<1>5. Leaves(e)
  BY <1>3 DEF Leaves, Report, State
<1> QED
  BY <1>2, <1>4, <1>5 DEF Told

\* A packet of a session that has ended, or that ends it.
LEMMA PacketVoidDone ==
  ASSUME TypeOK, SessionFacts, PacketVoid
  PROVE  TypeOK' /\ (BookExact => BookExact') /\ WorkDone
  BY FailDone, NothingDone DEF PacketVoid

\* processDataSourceValue(), its first region.
LEMMA DataSourceDone ==
  ASSUME TypeOK, SessionFacts, DataSource
  PROVE  TypeOK' /\ (BookExact => BookExact') /\ WorkDone
<1> DEFINE f == worker.of.value
           a == book.active
           result == IF a = NoRequest THEN "none" ELSE Consume(a, f)
<1>1. /\ worker.of.value \in Fragment /\ flag.ready /\ load' = load
      /\ UNCHANGED <<load, subs, starter, stopper, writer, phone, faults, log>>
  <2>1. worker.of \in Packet /\ worker.of.source = "data"
    BY DEF TypeOK, WorkerHolds, DataSource, Work
  <2>2. worker.of.value \in Fragment
    BY <2>1 DEF Packet
  <2> QED
    BY <2>2 DEF DataSource
<1>2. book \in Book /\ book.active \in Request /\ queue \in Queue /\ queue.events \in Seq(Event)
      /\ worker \in WorkerState
  BY Fields DEF TypeOK
<1>3. \/ result = "none" /\ Then("next") /\ UNCHANGED <<flag, queue, book>>
      \/ result = "more" /\ Then("next") /\ UNCHANGED <<flag, queue>>
            /\ book' = [book EXCEPT !.active.seen = TRUE]
      \/ result = "unreadable" /\ Then("next") /\ UNCHANGED flag
            /\ book' = Unavailable(a.uid, book)
            /\ Emit([kind |-> "unavailable", of |-> a.uid])
      \/ result = "fatal" /\ FailRuntime(<<>>, book)
      \/ result = "complete" /\ UNCHANGED <<flag, queue, book>>
            /\ worker' = [worker EXCEPT !.at = "conclude", !.of = [uid |-> a.uid, removed |-> a.removed,
                                                                   date |-> f.date]]
  BY DEF DataSource
<1>4. result # "none" => a # NoRequest /\ a.uid \in Uids
  BY <1>2, ActiveTypes
<1>5. Then("next") => worker' \in WorkerState /\ WorkerHolds' /\ worker'.at = "next"
  BY ThenTypes
<1> HIDE DEF result
<1>6. CASE result = "none" /\ Then("next") /\ UNCHANGED <<flag, queue, book>>
  BY <1>1, <1>6, NothingDone
<1>7. CASE result = "more" /\ Then("next") /\ UNCHANGED <<flag, queue>>
           /\ book' = [book EXCEPT !.active.seen = TRUE]
  <2>1. book' = [book EXCEPT !.active = [book.active EXCEPT !.seen = TRUE]]
    BY <1>2, <1>7 DEF Book
  <2>2. [book.active EXCEPT !.seen = TRUE] \in Request /\ [book.active EXCEPT !.seen = TRUE].uid = book.active.uid
    BY <1>2, <1>4, <1>7, RequestTypes
  <2>3. book' \in Book /\ book'.records = book.records
    <3>1. \A r \in Request : [book EXCEPT !.active = r] \in Book /\ [book EXCEPT !.active = r].records = book.records
      BY <1>2, BookTypes
    <3> QED
      BY <2>1, <2>2, <3>1
  <2>4. BookExact => BookExact'
    BY <1>1, <2>1, <2>2, ActiveExact
  <2>5. Told
    BY <1>7, <2>3 DEF Told, Keeps
  <2> QED
    BY <1>1, <1>2, <1>5, <1>7, <2>3, <2>4, <2>5, StillReady
<1>8. CASE result = "unreadable" /\ Then("next") /\ UNCHANGED flag
           /\ book' = Unavailable(a.uid, book) /\ Emit([kind |-> "unavailable", of |-> a.uid])
  <2> DEFINE e == [kind |-> "unavailable", of |-> a.uid]
  <2>1. /\ book' \in Book /\ \A u \in Uids : book'.records[u].unreported = book.records[u].unreported
        /\ BookExact => BookExact'
    BY <1>1, <1>4, <1>8, UnavailableExact
  <2>2. e \in Event
    BY <1>4, <1>8, EventTypes
  <2>3. queue' \in Queue /\ queue'.events = Append(queue.events, e)
    BY <1>8, <2>2, EmitTypes DEF Emit
  <2>4. Told
    BY <1>1, <1>4, <1>8, <2>1, <2>3, UnavailableTold
  <2> QED
    BY <1>1, <1>5, <1>8, <2>1, <2>3, <2>4, StillReady
<1>9. CASE result = "fatal" /\ FailRuntime(<<>>, book)
  BY <1>1, <1>9, FailDone
<1>10. CASE result = "complete" /\ UNCHANGED <<flag, queue, book>>
            /\ worker' = [worker EXCEPT !.at = "conclude", !.of = [uid |-> a.uid, removed |-> a.removed,
                                                                   date |-> f.date]]
  <2> DEFINE of == [uid |-> a.uid, removed |-> a.removed, date |-> f.date]
  <2>1. of \in Answered
    <3>1. a.uid \in Uids /\ a.removed \in BOOLEAN
      BY <1>2, <1>4, <1>10, RequestTypes
    <3>2. f.date \in Dates
      BY <1>1 DEF Fragment
    <3> QED
      BY <3>1, <3>2 DEF Answered
  <2>2. worker' = [worker EXCEPT !.at = "conclude", !.of = of]
    BY <1>10
  <2> HIDE DEF of
  <2>3. worker' \in WorkerState /\ worker'.at = "conclude" /\ worker'.of = of
    BY <1>2, <2>1, <2>2 DEF WorkerState
  <2>4. WorkerHolds'
    BY <2>1, <2>3 DEF WorkerHolds
  <2>5. Told
    BY <1>10 DEF Told, Keeps
  <2>6. BookExact => BookExact'
    BY <1>1, <1>10 DEF BookExact
  <2> QED
    BY <1>1, <1>2, <1>10, <2>3, <2>4, <2>5, <2>6, StillReady
<1> QED
  BY <1>3, <1>6, <1>7, <1>8, <1>9, <1>10

\* ... and the rest of it.
LEMMA CompleteDone ==
  ASSUME TypeOK, SessionFacts, flag.state # "Stopped", DataSourceComplete
  PROVE  TypeOK' /\ (BookExact => BookExact') /\ WorkDone
<1> DEFINE uid == worker.of.uid
           rec == book.records[uid]
           ignored == IsBeforeCutoff(worker.of.date)
           e == [kind |-> IF rec.unreported THEN "added" ELSE "updated", of |-> uid]
<1>1. /\ uid \in Uids /\ Then("next")
      /\ UNCHANGED <<load, flag, subs, starter, stopper, writer, phone, faults, log>>
  <2>1. worker.of \in Answered
    BY DEF TypeOK, WorkerHolds, DataSourceComplete
  <2> QED
    BY <2>1 DEF Answered, DataSourceComplete
<1>2. /\ book' \in Book
      /\ BookExact => BookExact'
      /\ \A u \in Uids : u # uid => book'.records[u] = book.records[u]
      /\ worker.of.removed \/ ~rec.known => book'.records = book.records
  BY <1>1, CompleteExact
<1>3. book \in Book /\ book.records \in [Uids -> Record] /\ queue \in Queue
  BY Fields DEF TypeOK
<1>4. worker' \in WorkerState /\ WorkerHolds' /\ worker'.at = "next"
  BY <1>1, ThenTypes
<1>5. /\ e \in Event /\ e.kind \in {"added", "updated"} /\ e.of = uid
      /\ e.kind = "updated" => ~rec.unreported
  <2>1. e \in Event
    BY <1>1, EventTypes
  <2> QED
    BY <2>1
<1>6. CASE worker.of.removed \/ ~rec.known
  <2>1. queue' = queue /\ book' = [book EXCEPT !.active = NoRequest]
    BY <1>6 DEF DataSourceComplete
  <2>2. Told
    BY <1>1, <1>2, <1>6, <2>1 DEF Told, Keeps
  <2>3. SessionFacts'
    <3>1. book = ClearedBook => book' = ClearedBook
      <4>1. [book EXCEPT !.active = book.active] = book
        BY <1>3 DEF Book
      <4>2. book = ClearedBook => book.active = NoRequest
        BY DEF ClearedBook
      <4> QED
        BY <2>1, <4>1, <4>2
    <3> QED
      BY <1>1, <3>1 DEF SessionFacts
  <2>4. TypeOK'
    BY <1>1, <1>2, <1>3, <1>4, <2>1 DEF TypeOK
  <2> QED
    BY <1>1, <1>2, <1>4, <2>2, <2>3, <2>4 DEF WorkDone
<1>7. CASE ~(worker.of.removed \/ ~rec.known)
  <2>1. (queue' = queue /\ ignored) \/ (Emit(e) /\ ~ignored)
    BY <1>7 DEF DataSourceComplete
  <2>2. flag.ready
    <3>1. book # ClearedBook
      BY <1>1, <1>7 DEF ClearedBook, NoRecord
    <3> QED
      BY <3>1 DEF SessionFacts
  <2> HIDE DEF e, ignored
  <2>3. queue' \in Queue
    BY <1>3, <1>5, <2>1, EmitTypes DEF Emit
  <2>4. Told
    <3>1. CASE queue' = queue /\ ignored
      <4>1. load.cutoff
        BY <3>1 DEF ignored, IsBeforeCutoff
      <4> QED
        BY <1>1, <3>1, <4>1 DEF Told, Keeps
    <3>2. CASE Emit(e)
      <4>1. queue'.events = Append(queue.events, e)
        BY <1>5, <3>2, EmitTypes DEF Emit
      <4>2. MayTell(e)
        BY <1>1, <1>5, <2>2 DEF MayTell
      <4>3. e # State("Stopped") /\ \A u \in Uids : e # Report("removed", u)
        BY <1>5 DEF State, Report
      <4>4. e.kind = "added" => e = Report("added", uid)
        BY <1>5 DEF e, Report
      <4>5. \A u \in Uids : ~book'.records[u].unreported =>
              e = Report("added", u) \/ ~book.records[u].unreported
        BY <1>2, <1>5, <4>4
      <4>6. Leaves(e)
        BY <1>1, <2>2, <4>3, <4>5 DEF Leaves
      <4> QED
        BY <1>5, <4>1, <4>2, <4>6 DEF Told
    <3> QED
      BY <2>1, <3>1, <3>2
  <2> QED
    BY <1>1, <1>2, <1>4, <2>2, <2>3, <2>4, StillReady
<1> QED
  BY <1>6, <1>7

\* A write result.
LEMMA ResultDone ==
  ASSUME TypeOK, SessionFacts, WriteResult
  PROVE  TypeOK' /\ (BookExact => BookExact') /\ WorkDone
<1>1. /\ worker.of.uid \in Uids
      /\ UNCHANGED <<load, subs, starter, stopper, writer, phone, faults, log>>
  <2>1. worker.of \in Result
    BY DEF TypeOK, WorkerHolds, WriteResult, Work
  <2> QED
    BY <2>1 DEF Result, WriteResult
<1>2. book \in Book /\ book.active \in Request /\ queue \in Queue
  BY Fields DEF TypeOK
<1>3. CASE ~worker.of.ok
  BY <1>1, <1>3, FailDone DEF WriteResult
<1>4. CASE worker.of.ok /\ book.active.uid = worker.of.uid
  <2>1. Then("next") /\ UNCHANGED <<flag, queue>> /\ book' = [book EXCEPT !.active.unwritten = FALSE]
    BY <1>4 DEF WriteResult
  <2>2. book' = [book EXCEPT !.active = [book.active EXCEPT !.unwritten = FALSE]]
    BY <1>2, <2>1 DEF Book
  <2>3. /\ [book.active EXCEPT !.unwritten = FALSE] \in Request
        /\ [book.active EXCEPT !.unwritten = FALSE].uid = book.active.uid
    BY <1>1, <1>2, <1>4, RequestTypes
  <2>4. book' \in Book /\ book'.records = book.records
    <3>1. \A r \in Request : [book EXCEPT !.active = r] \in Book /\ [book EXCEPT !.active = r].records = book.records
      BY <1>2, BookTypes
    <3> QED
      BY <2>2, <2>3, <3>1
  <2>5. BookExact => BookExact'
    BY <1>1, <2>2, <2>3, ActiveExact
  <2>6. flag.ready
    <3>1. book # ClearedBook
      BY <1>1, <1>2, <1>4, ActiveTypes DEF ClearedBook
    <3> QED
      BY <3>1 DEF SessionFacts
  <2>7. Told
    BY <2>1, <2>4 DEF Told, Keeps
  <2>8. worker' \in WorkerState /\ WorkerHolds' /\ worker'.at = "next"
    BY <2>1, ThenTypes
  <2> QED
    BY <1>1, <1>2, <2>1, <2>4, <2>5, <2>6, <2>7, <2>8, StillReady
<1>5. CASE worker.of.ok /\ book.active.uid # worker.of.uid
  BY <1>1, <1>5, NothingDone DEF WriteResult
<1> QED
  BY <1>3, <1>4, <1>5

\* The deadline of the active request.
LEMMA TimedOutDone ==
  ASSUME TypeOK, SessionFacts, TimedOut
  PROVE  TypeOK' /\ (BookExact => BookExact') /\ WorkDone
<1> DEFINE e == [kind |-> "unavailable", of |-> book.active.uid]
<1>1. UNCHANGED <<load, subs, starter, stopper, writer, phone, faults, log>>
  BY DEF TimedOut
<1>2. CASE ~(book.active # NoRequest /\ ~book.active.unwritten)
  BY <1>1, <1>2, NothingDone DEF TimedOut
<1>3. CASE book.active # NoRequest /\ ~book.active.unwritten
  <2>1. FailRuntime(<<e>>, Unavailable(book.active.uid, book))
    BY <1>3 DEF TimedOut
  <2>2. flag.ready /\ flag.state = "Ready"
    <3>1. book # ClearedBook
      BY <1>3 DEF ClearedBook
    <3> QED
      BY <3>1 DEF SessionFacts
  <2>3. book.active.uid \in Uids /\ queue.events \in Seq(Event) /\ book \in Book
    BY <1>3, Fields, ActiveTypes DEF TypeOK
  <2>4. e \in Event
    BY <2>3, EventTypes
  <2>5. flag' = [flag EXCEPT !.ready = FALSE, !.accept = FALSE, !.state = "Failed"]
        /\ queue' = [ClearedQueue EXCEPT !.events = queue.events \o <<e>>]
        /\ book' = ClearedBook /\ Then("cleanup")
    <3>1. ClearedQueue.events = queue.events
      BY QueueTypes
    <3> QED
      BY <2>1, <2>2, <3>1 DEF FailRuntime
  <2> HIDE DEF e
  <2>6. flag' \in Flag /\ ~flag'.ready /\ flag'.state = "Failed" /\ flag'.shutdown = flag.shutdown
    BY <2>5 DEF TypeOK, Flag, SessionStates
  <2>7. queue.events \o <<e>> = Append(queue.events, e) /\ Append(queue.events, e) \in Seq(Event)
    BY <2>3, <2>4
  <2>8. queue' \in Queue /\ queue'.events = Append(queue.events, e)
    <3>1. \A q \in Queue, s \in Seq(Event) : [q EXCEPT !.events = s].events = s
      BY DEF Queue
    <3> QED
      BY <2>5, <2>7, <3>1, QueueTypes
  <2>9. worker' \in WorkerState /\ WorkerHolds' /\ worker'.at = "cleanup"
    BY <2>5, ThenTypes
  <2>10. TypeOK'
    BY <1>1, <2>5, <2>6, <2>8, <2>9, ClearedTypes DEF TypeOK
  <2>11. Told
    BY <1>3, <2>2, <2>5, <2>6, <2>8, ClearedKeeps, UnavailableTold DEF e
  <2>12. SessionFacts'
    BY <2>5, <2>6 DEF SessionFacts
  <2>13. BookExact => BookExact'
    BY <1>1, <2>5, ClearedExact
  <2> QED
    BY <1>1, <2>2, <2>6, <2>9, <2>10, <2>11, <2>12, <2>13 DEF WorkDone
<1> QED
  BY <1>2, <1>3

-----------------------------------------------------------------------------
(* What the application has been told and is about to be told.             *)

\* The event in the worker's hand, and all events in their order.
Given == IF worker.at = "taken" /\ worker.kind = "event" THEN <<worker.of>> ELSE <<>>
View == (log \o Given) \o queue.events

\* The last session announced by v is under way; v has reported u, which has not gone.
Live(v) == \E j \in DOMAIN v : v[j] = State("Ready") /\ \A k \in j .. Len(v) : v[k] # State("Stopped")
Shown(v, u) ==
  \E j \in DOMAIN v : v[j] = Report("added", u) /\ \A k \in j .. Len(v) : v[k] # Report("removed", u)

\* What the session believes to have been told has been told.
ViewFits ==
  /\ AddsUp(View)
  /\ flag.ready => Live(View)
  /\ \A u \in Uids : ~load.cutoff /\ ~book.records[u].unreported => Shown(View, u)

\* One more event at the end of a sequence.
LEMMA AtTheEnd ==
  ASSUME NEW S, NEW v \in Seq(S), NEW e \in S
  PROVE  /\ Len(v) \in Nat /\ DOMAIN v = 1 .. Len(v)
         /\ Append(v, e) \in Seq(S) /\ Len(Append(v, e)) = Len(v) + 1
         /\ DOMAIN Append(v, e) = 1 .. Len(v) + 1
         /\ \A i \in 1 .. Len(v) : Append(v, e)[i] = v[i]
         /\ Append(v, e)[Len(v) + 1] = e
  OBVIOUS

\* A session goes on with any event but Stopped, and begins with Ready.
LEMMA LiveOn ==
  ASSUME NEW v \in Seq(Event), NEW e \in Event,
         e = State("Ready") \/ (Live(v) /\ e # State("Stopped"))
  PROVE  Live(Append(v, e))
<1> DEFINE w == Append(v, e)
<1>1. /\ Len(v) \in Nat /\ DOMAIN v = 1 .. Len(v)
      /\ Len(w) = Len(v) + 1 /\ DOMAIN w = 1 .. Len(v) + 1
      /\ \A i \in 1 .. Len(v) : w[i] = v[i]
      /\ w[Len(v) + 1] = e
  BY AtTheEnd
<1> HIDE DEF w
<1>2. CASE e = State("Ready")
  <2>1. e # State("Stopped")
    BY <1>2 DEF State
  <2>2. \A k \in Len(v) + 1 .. Len(w) : w[k] # State("Stopped")
    BY <1>1, <2>1
  <2>3. Len(v) + 1 \in DOMAIN w /\ w[Len(v) + 1] = State("Ready")
    BY <1>1, <1>2
  <2>4. Live(w)
    BY <2>2, <2>3 DEF Live
  <2> QED
    BY <2>4 DEF w
<1>3. CASE Live(v) /\ e # State("Stopped")
  <2>1. PICK j \in DOMAIN v : v[j] = State("Ready") /\ \A k \in j .. Len(v) : v[k] # State("Stopped")
    BY <1>3 DEF Live
  <2>2. j \in DOMAIN w /\ w[j] = State("Ready")
    BY <1>1, <2>1
  <2>3. ASSUME NEW k \in j .. Len(w) PROVE w[k] # State("Stopped")
    <3>1. CASE k = Len(v) + 1
      BY <1>1, <1>3, <3>1
    <3>2. CASE k # Len(v) + 1
      <4>1. k \in j .. Len(v) /\ k \in 1 .. Len(v)
        BY <1>1, <2>1, <3>2
      <4> QED
        BY <1>1, <2>1, <4>1
    <3> QED
      BY <3>1, <3>2
  <2>4. Live(w)
    BY <2>2, <2>3 DEF Live
  <2> QED
    BY <2>4 DEF w
<1> QED
  BY <1>2, <1>3

\* A notification stays reported until it is removed, and is once it is added.
LEMMA ShownOn ==
  ASSUME NEW v \in Seq(Event), NEW e \in Event, NEW u,
         e = Report("added", u) \/ (Shown(v, u) /\ e # Report("removed", u))
  PROVE  Shown(Append(v, e), u)
<1> DEFINE w == Append(v, e)
<1>1. /\ Len(v) \in Nat /\ DOMAIN v = 1 .. Len(v)
      /\ Len(w) = Len(v) + 1 /\ DOMAIN w = 1 .. Len(v) + 1
      /\ \A i \in 1 .. Len(v) : w[i] = v[i]
      /\ w[Len(v) + 1] = e
  BY AtTheEnd
<1> HIDE DEF w
<1>2. CASE e = Report("added", u)
  <2>1. e # Report("removed", u)
    BY <1>2 DEF Report
  <2>2. \A k \in Len(v) + 1 .. Len(w) : w[k] # Report("removed", u)
    BY <1>1, <2>1
  <2>3. Len(v) + 1 \in DOMAIN w /\ w[Len(v) + 1] = Report("added", u)
    BY <1>1, <1>2
  <2>4. Shown(w, u)
    BY <2>2, <2>3 DEF Shown
  <2> QED
    BY <2>4 DEF w
<1>3. CASE Shown(v, u) /\ e # Report("removed", u)
  <2>1. PICK j \in DOMAIN v : v[j] = Report("added", u) /\ \A k \in j .. Len(v) : v[k] # Report("removed", u)
    BY <1>3 DEF Shown
  <2>2. j \in DOMAIN w /\ w[j] = Report("added", u)
    BY <1>1, <2>1
  <2>3. ASSUME NEW k \in j .. Len(w) PROVE w[k] # Report("removed", u)
    <3>1. CASE k = Len(v) + 1
      BY <1>1, <1>3, <3>1
    <3>2. CASE k # Len(v) + 1
      <4>1. k \in j .. Len(v) /\ k \in 1 .. Len(v)
        BY <1>1, <2>1, <3>2
      <4> QED
        BY <1>1, <2>1, <4>1
    <3> QED
      BY <3>1, <3>2
  <2>4. Shown(w, u)
    BY <2>2, <2>3 DEF Shown
  <2> QED
    BY <2>4 DEF w
<1> QED
  BY <1>2, <1>3

\* A report of a session under way, and an update of what was reported, adds up.
LEMMA AddsUpOn ==
  ASSUME NEW v \in Seq(Event), NEW e \in Event, AddsUp(v),
         e.kind \in {"added", "updated", "removed", "unavailable"} => Live(v),
         e.kind = "updated" /\ ~load.cutoff => Shown(v, e.of)
  PROVE  AddsUp(Append(v, e))
<1> DEFINE w == Append(v, e)
           Reports == {"added", "updated", "removed", "unavailable"}
<1>1. /\ Len(v) \in Nat /\ DOMAIN v = 1 .. Len(v)
      /\ Len(w) = Len(v) + 1 /\ DOMAIN w = 1 .. Len(v) + 1
      /\ \A i \in 1 .. Len(v) : w[i] = v[i]
      /\ w[Len(v) + 1] = e
  BY AtTheEnd
<1> HIDE DEF w
<1>2. ASSUME NEW i \in DOMAIN w
      PROVE  /\ w[i].kind \in Reports =>
                  \E j \in 1..i : w[j] = State("Ready") /\ \A k \in j..i : w[k] # State("Stopped")
             /\ w[i].kind = "updated" /\ ~load.cutoff =>
                  \E j \in Positions(w, Report("added", w[i].of)) :
                    j < i /\ \A k \in j..i : w[k] # Report("removed", w[i].of)
  <2>1. CASE i \in 1 .. Len(v)
    <3>1. i \in DOMAIN v /\ w[i] = v[i] /\ \A k \in 1 .. i : k \in DOMAIN w /\ w[k] = v[k]
      BY <1>1, <2>1
    <3>2. ASSUME w[i].kind \in Reports
          PROVE  \E j \in 1..i : w[j] = State("Ready") /\ \A k \in j..i : w[k] # State("Stopped")
      <4>1. PICK j \in 1..i : v[j] = State("Ready") /\ \A k \in j..i : v[k] # State("Stopped")
        BY <3>1, <3>2 DEF AddsUp
      <4>2. w[j] = State("Ready") /\ \A k \in j..i : k \in 1 .. i /\ w[k] # State("Stopped")
        BY <2>1, <3>1, <4>1
      <4> QED
        BY <4>2
    <3>3. ASSUME w[i].kind = "updated", ~load.cutoff
          PROVE  \E j \in Positions(w, Report("added", w[i].of)) :
                    j < i /\ \A k \in j..i : w[k] # Report("removed", w[i].of)
      <4>1. PICK j \in Positions(v, Report("added", v[i].of)) :
                    j < i /\ \A k \in j..i : v[k] # Report("removed", v[i].of)
        BY <3>1, <3>3 DEF AddsUp
      <4>2. j \in DOMAIN v /\ v[j] = Report("added", v[i].of)
        BY <4>1 DEF Positions
      <4>3. j \in 1 .. i
        BY <1>1, <2>1, <4>1, <4>2
      <4>4. j \in Positions(w, Report("added", w[i].of))
        BY <3>1, <4>2, <4>3 DEF Positions
      <4>5. \A k \in j..i : k \in 1 .. i /\ w[k] # Report("removed", w[i].of)
        BY <2>1, <3>1, <4>1, <4>3
      <4> QED
        BY <4>1, <4>4, <4>5
    <3> QED
      BY <3>2, <3>3
  <2>2. CASE i = Len(v) + 1
    <3>1. w[i] = e
      BY <1>1, <2>2
    <3>2. ASSUME e.kind \in Reports
          PROVE  \E j \in 1..i : w[j] = State("Ready") /\ \A k \in j..i : w[k] # State("Stopped")
      <4>1. e # State("Stopped") /\ Live(v)
        BY <3>2 DEF State
      <4>2. Live(w)
        BY <4>1, LiveOn DEF w
      <4> QED
        BY <1>1, <2>2, <4>2 DEF Live
    <3>3. ASSUME e.kind = "updated", ~load.cutoff
          PROVE  \E j \in Positions(w, Report("added", e.of)) :
                    j < i /\ \A k \in j..i : w[k] # Report("removed", e.of)
      <4>1. PICK j \in DOMAIN v : v[j] = Report("added", e.of) /\ \A k \in j .. Len(v) : v[k] # Report("removed", e.of)
        BY <3>3 DEF Shown
      <4>2. e # Report("removed", e.of)
        BY <3>3 DEF Report
      <4>3. j \in Positions(w, Report("added", e.of)) /\ j < i
        BY <1>1, <2>2, <4>1 DEF Positions
      <4>4. ASSUME NEW k \in j .. i PROVE w[k] # Report("removed", e.of)
        <5>1. CASE k = Len(v) + 1
          BY <1>1, <4>2, <5>1
        <5>2. CASE k # Len(v) + 1
          <6>1. k \in j .. Len(v) /\ k \in 1 .. Len(v)
            BY <1>1, <2>2, <4>1, <5>2
          <6> QED
            BY <1>1, <4>1, <6>1
        <5> QED
          BY <5>1, <5>2
      <4> QED
        BY <4>3, <4>4
    <3> QED
      BY <3>1, <3>2, <3>3
  <2> QED
    BY <1>1, <2>1, <2>2
<1>3. AddsUp(w)
  BY <1>2 DEF AddsUp
<1> QED
  BY <1>3 DEF w

\* What adds up does so at any point before.
LEMMA AddsUpBefore ==
  ASSUME NEW v \in Seq(Event), NEW rest \in Seq(Event), AddsUp(v \o rest)
  PROVE  AddsUp(v)
<1> DEFINE w == v \o rest
<1>1. /\ Len(v) \in Nat /\ DOMAIN v = 1 .. Len(v) /\ DOMAIN v \subseteq DOMAIN w
      /\ \A i \in 1 .. Len(v) : w[i] = v[i]
  OBVIOUS
<1>2. AddsUp(w)
  OBVIOUS
<1> HIDE DEF w
<1>3. ASSUME NEW i \in DOMAIN v
      PROVE  /\ v[i].kind \in {"added", "updated", "removed", "unavailable"} =>
                  \E j \in 1..i : v[j] = State("Ready") /\ \A k \in j..i : v[k] # State("Stopped")
             /\ v[i].kind = "updated" /\ ~load.cutoff =>
                  \E j \in Positions(v, Report("added", v[i].of)) :
                    j < i /\ \A k \in j..i : v[k] # Report("removed", v[i].of)
  <2>1. i \in DOMAIN w /\ i \in Nat /\ w[i] = v[i] /\ \A k \in 1 .. i : k \in DOMAIN v /\ w[k] = v[k]
    BY <1>1
  <2>2. ASSUME v[i].kind \in {"added", "updated", "removed", "unavailable"}
        PROVE  \E j \in 1..i : v[j] = State("Ready") /\ \A k \in j..i : v[k] # State("Stopped")
    <3>1. PICK j \in 1..i : w[j] = State("Ready") /\ \A k \in j..i : w[k] # State("Stopped")
      BY <1>2, <2>1, <2>2 DEF AddsUp
    <3>2. v[j] = State("Ready") /\ \A k \in j..i : k \in 1 .. i /\ v[k] # State("Stopped")
      BY <2>1, <3>1
    <3> QED
      BY <3>2
  <2>3. ASSUME v[i].kind = "updated", ~load.cutoff
        PROVE  \E j \in Positions(v, Report("added", v[i].of)) :
                 j < i /\ \A k \in j..i : v[k] # Report("removed", v[i].of)
    <3>1. PICK j \in Positions(w, Report("added", w[i].of)) :
                 j < i /\ \A k \in j..i : w[k] # Report("removed", w[i].of)
      BY <1>2, <2>1, <2>3 DEF AddsUp
    <3>2. j \in DOMAIN w /\ w[j] = Report("added", v[i].of)
      BY <2>1, <3>1 DEF Positions
    <3>3. j \in 1 .. i
      <4>1. DOMAIN w \subseteq Nat \ {0}
        BY DEF w
      <4> QED
        BY <2>1, <3>1, <3>2, <4>1
    <3>4. j \in Positions(v, Report("added", v[i].of))
      BY <2>1, <3>2, <3>3 DEF Positions
    <3>5. \A k \in j..i : k \in 1 .. i /\ v[k] # Report("removed", v[i].of)
      BY <2>1, <3>1, <3>3
    <3> QED
      BY <3>1, <3>4, <3>5
  <2> QED
    BY <2>2, <2>3
<1> QED
  BY <1>3 DEF AddsUp

\* The view is a sequence of events.
LEMMA ViewTypes ==
  ASSUME TypeOK
  PROVE  /\ log \in Seq(Event) /\ Given \in Seq(Event) /\ queue.events \in Seq(Event)
         /\ log \o Given \in Seq(Event) /\ View \in Seq(Event)
<1>1. Given \in Seq(Event)
  BY DEF TypeOK, WorkerHolds, Given
<1> QED
  BY <1>1, Fields DEF TypeOK, View

\* Steps that leave the view, or add an event to it.
LEMMA ViewSame ==
  ASSUME log' = log, Given' = Given, queue'.events = queue.events
  PROVE  View' = View
  BY DEF View

LEMMA ViewTold ==
  ASSUME TypeOK, log' = log, Given' = Given, NEW e \in Event, queue'.events = Append(queue.events, e)
  PROVE  View' = Append(View, e)
<1>1. \A s \in Seq(Event) : s \o Append(queue.events, e) = Append(s \o queue.events, e)
  <2>1. queue.events \in Seq(Event)
    BY Fields
  <2> QED
    BY <2>1
<1>2. log \o Given \in Seq(Event)
  BY ViewTypes
<1> QED
  BY <1>1, <1>2 DEF View

\* The same of two events.
LEMMA ViewToldTwo ==
  ASSUME TypeOK, log' = log, Given' = Given, NEW a \in Event, NEW b \in Event,
         queue'.events = queue.events \o <<a, b>>
  PROVE  View' = Append(Append(View, a), b)
<1>1. \A s \in Seq(Event) : s \o (queue.events \o <<a, b>>) = Append(Append(s \o queue.events, a), b)
  <2>1. queue.events \in Seq(Event) /\ Append(queue.events, a) \in Seq(Event)
    BY Fields
  <2>2. queue.events \o <<a, b>> = Append(Append(queue.events, a), b)
    BY <2>1
  <2>3. \A s, t \in Seq(Event), e \in Event : s \o Append(t, e) = Append(s \o t, e)
    OBVIOUS
  <2> QED
    BY <2>1, <2>2, <2>3, ZenonT(40)
<1>2. log \o Given \in Seq(Event)
  BY ViewTypes
<1> QED
  BY <1>1, <1>2 DEF View

\* A worker that does not hold an event, and one that is left alone.
LEMMA GivenNothing ==
  ASSUME worker.at # "taken" \/ worker.kind # "event"
  PROVE  Given = <<>>
  BY DEF Given

\* The view fits as long as steps tell what they may.
LEMMA ViewStays ==
  ASSUME ViewFits, load' = load, View' = View, Keeps
  PROVE  ViewFits'
<1>1. AddsUp(View)'
  BY DEF ViewFits, AddsUp
<1>2. flag'.ready => Live(View')
  BY DEF ViewFits, Keeps
<1>3. \A u \in Uids : ~load'.cutoff /\ ~book'.records[u].unreported => Shown(View', u)
  BY DEF ViewFits, Keeps
<1> QED
  BY <1>1, <1>2, <1>3 DEF ViewFits

LEMMA ViewGrows ==
  ASSUME TypeOK, ViewFits, load' = load, NEW e \in Event, View' = Append(View, e), MayTell(e), Leaves(e)
  PROVE  ViewFits'
<1>1. View \in Seq(Event)
  BY ViewTypes
<1>2. AddsUp(View)'
  <2>1. AddsUp(Append(View, e))
    BY <1>1, AddsUpOn DEF ViewFits, MayTell
  <2> QED
    BY <2>1 DEF AddsUp
<1>3. flag'.ready => Live(View')
  BY <1>1, LiveOn DEF ViewFits, Leaves
<1>4. \A u \in Uids : ~load'.cutoff /\ ~book'.records[u].unreported => Shown(View', u)
  BY <1>1, ShownOn DEF ViewFits, Leaves
<1> QED
  BY <1>2, <1>3, <1>4 DEF ViewFits

\* A state but Ready and Stopped, or an error, can be told at any time.
Plain(e) ==
  /\ e \in Event /\ e.kind \in {"state", "error"}
  /\ e # State("Stopped")

LEMMA ViewGrowsPlainly ==
  ASSUME TypeOK, ViewFits, load' = load, NEW e, Plain(e), View' = Append(View, e), Keeps
  PROVE  ViewFits'
<1>1. MayTell(e) /\ e \in Event
  BY DEF Plain, MayTell
<1>2. \A u : e # Report("removed", u)
  BY DEF Plain, Report
<1>3. Leaves(e)
  BY <1>2 DEF Plain, Leaves, Keeps
<1> QED
  BY <1>1, <1>3, ViewGrows

LEMMA ViewGrowsTwice ==
  ASSUME TypeOK, ViewFits, load' = load, NEW a, NEW b, Plain(a), Plain(b),
         View' = Append(Append(View, a), b), Keeps
  PROVE  ViewFits'
<1> DEFINE v == Append(View, a)
<1>1. View \in Seq(Event) /\ v \in Seq(Event) /\ a \in Event /\ b \in Event
  BY ViewTypes DEF Plain
<1>2. AddsUp(v)
  BY <1>1, AddsUpOn DEF ViewFits, Plain
<1>3. flag.ready => Live(v)
  BY <1>1, LiveOn DEF ViewFits, Plain
<1>4. \A u \in Uids : ~load.cutoff /\ ~book.records[u].unreported => Shown(v, u)
  <2>1. \A u : a # Report("removed", u)
    BY DEF Plain, Report
  <2> QED
    BY <1>1, <2>1, ShownOn DEF ViewFits
<1> HIDE DEF v
<1>5. View' = Append(v, b)
  BY DEF v
<1>6. AddsUp(View)'
  <2>1. AddsUp(Append(v, b))
    BY <1>1, <1>2, AddsUpOn DEF Plain
  <2> QED
    BY <1>5, <2>1 DEF AddsUp
<1>7. flag'.ready => Live(View')
  BY <1>1, <1>3, <1>5, LiveOn DEF Plain, Keeps
<1>8. \A u \in Uids : ~load'.cutoff /\ ~book'.records[u].unreported => Shown(View', u)
  <2>1. \A u : b # Report("removed", u)
    BY DEF Plain, Report
  <2> QED
    BY <1>1, <1>4, <1>5, <2>1, ShownOn DEF Keeps
<1> QED
  BY <1>6, <1>7, <1>8 DEF ViewFits

\* The next event goes from the queue to the worker's hand, and from there to
\* the handler: the view stays.
LEMMA TakeEventView ==
  ASSUME TypeOK, TakeEvent
  PROVE  View' = View
<1>1. queue.events \in Seq(Event) /\ queue.events # <<>> /\ log \in Seq(Event)
  BY ViewTypes DEF TakeEvent
<1>2. worker \in WorkerState /\ queue \in Queue
  BY DEF TypeOK
<1>3. /\ worker' = [worker EXCEPT !.at = "taken", !.kind = "event", !.of = Head(queue.events)]
      /\ queue' = [queue EXCEPT !.events = Tail(queue.events)] /\ worker.at = "idle" /\ log' = log
  BY DEF TakeEvent, Take
<1>4. worker'.at = "taken" /\ worker'.kind = "event" /\ worker'.of = Head(queue.events)
      /\ queue'.events = Tail(queue.events)
  BY <1>2, <1>3 DEF WorkerState, Queue
<1>5. Given = <<>> /\ Given' = <<Head(queue.events)>>
  BY <1>3, <1>4 DEF Given
<1>6. log \o <<>> = log /\ log \o <<Head(queue.events)>> = Append(log, Head(queue.events))
  BY <1>1
<1>7. Append(log, Head(queue.events)) \o Tail(queue.events) = log \o queue.events
  BY <1>1, MoveHead
<1> QED
  BY <1>3, <1>4, <1>5, <1>6, <1>7 DEF View

LEMMA DispatchView ==
  ASSUME TypeOK, Dispatch
  PROVE  View' = View
<1>1. worker.of \in Event /\ log' = Append(log, worker.of) /\ queue'.events = queue.events
      /\ worker'.at \in {"next", "cleanup"} /\ log \in Seq(Event)
  BY DispatchEffect, ViewTypes
<1>2. Given = <<worker.of>> /\ Given' = <<>>
  BY <1>1 DEF Given, Dispatch, Work
<1>3. Append(log, worker.of) \o <<>> = log \o <<worker.of>>
  BY <1>1
<1> QED
  BY <1>1, <1>2, <1>3 DEF View

\* What WorkDone says of the view.
LEMMA WorkView ==
  ASSUME TypeOK, ViewFits, WorkDone, worker.at # "taken" \/ worker.kind # "event"
  PROVE  ViewFits' /\ (flag.state = "Stopped" => View' = View)
<1>1. Given = <<>> /\ Given' = <<>>
  BY DEF Given, WorkDone
<1>2. log' = log /\ load' = load /\ Told
  BY DEF WorkDone
<1>3. CASE queue'.events = queue.events /\ Keeps
  BY <1>1, <1>2, <1>3, ViewSame, ViewStays
<1>4. CASE \E e \in Event : queue'.events = Append(queue.events, e) /\ MayTell(e) /\ Leaves(e)
  <2>1. PICK e \in Event : queue'.events = Append(queue.events, e) /\ MayTell(e) /\ Leaves(e)
    BY <1>4
  <2>2. View' = Append(View, e)
    BY <1>1, <1>2, <2>1, ViewTold
  <2>3. ViewFits'
    BY <1>2, <2>1, <2>2, ViewGrows
  <2> QED
    BY <1>1, <1>2, <2>3, ViewSame DEF WorkDone
<1> QED
  BY <1>2, <1>3, <1>4 DEF Told

-----------------------------------------------------------------------------
(* The inductive invariant: how far the threads can be apart.              *)

Phases ==
  /\ starter.at # "idle" =>
       stopper.at \in {"idle", "api"} /\ ~stopper.dying /\ ~flag.ready /\ flag.state # "Stopped"
  /\ stopper.at \in {"wait", "held", "cleanup", "join", "gone"} => ~flag.ready
  /\ stopper.at \in {"wait", "held", "cleanup"} => flag.state # "Stopped"
  /\ stopper.at \in {"held", "cleanup"} => worker.at \in {"none", "idle", "taken"}
  /\ stopper.at = "cleanup" => subs = {}
  /\ stopper.at = "gone" => stopper.dying
  /\ stopper.dying => stopper.at = "api" \/ ~flag.ready
  /\ starter.calls = 0 => worker.at = "none" /\ ~stopper.dying /\ stopper.at = "idle"
  /\ flag.state = "Stopped" => flag.shutdown \/ starter.calls = 0
  /\ flag.shutdown => flag.state = "Stopped" \/ stopper.at = "gone"
  /\ worker.at = "none" => flag.shutdown \/ starter.calls = 0

\* After a stop() that succeeded: what is left of the session.
Quiet ==
  (flag.state = "Stopped" /\ flag.shutdown) =>
    /\ subs = {} /\ stopper.at \in {"join", "idle", "api", "gone"}
    /\ worker.at \notin {"cleanup", "conclude", "request"}
    /\ View # <<>> /\ View[Len(View)] = State("Stopped")
    /\ stopper.at \in {"idle", "api"} => worker.at = "none" /\ writer.at = "none"
    /\ worker.at = "none" => queue.events = <<>>

AncsInv == TypeOK /\ SessionFacts /\ Phases /\ Quiet /\ BookExact /\ ViewFits

\* What a session that is stopped or not says of a thread.
LEMMA StoppedFacts ==
  ASSUME Phases, Quiet
  PROVE  /\ flag.state = "Stopped" /\ worker.at # "none" =>
              /\ flag.shutdown /\ worker.at \notin {"cleanup", "conclude", "request"}
              /\ stopper.at \in {"join", "gone"} /\ starter.at = "idle"
         /\ flag.state = "Stopped" /\ stopper.at # "idle" => flag.shutdown /\ subs = {}
         /\ flag.state = "Stopped" => starter.at = "idle"
         /\ flag.state = "Stopped" /\ stopper.at \in {"idle", "api"} => worker.at = "none"
         /\ starter.at # "idle" => ~flag.shutdown
  BY DEF Phases, Quiet

\* The first state.
LEMMA InitInv == Init => AncsInv
<1> SUFFICES ASSUME Init PROVE AncsInv
  OBVIOUS
<1>1. TypeOK
  BY InitTypes
<1>2. SessionFacts /\ Phases /\ Quiet
  BY DEF Init, SessionFacts, Phases, Quiet
<1>3. BookExact
  <2>1. book.pending = <<>> /\ book.queued = {} /\ load.maximum \in Nat /\ Len(<<>>) = 0
    BY <1>1, Fields DEF Init, ClearedBook
  <2> QED
    BY <2>1, NoItem DEF BookExact
<1>4. ViewFits
  <2>1. View = <<>>
    <3>1. Given = <<>> /\ log = <<>> /\ queue.events = <<>>
      BY DEF Init, Given
    <3>2. (<<>> \o <<>>) \o <<>> = <<>>
      OBVIOUS
    <3> QED
      BY <3>1, <3>2 DEF View
  <2>2. AddsUp(<<>>)
    <3>1. DOMAIN <<>> = {}
      OBVIOUS
    <3> QED
      BY <3>1, Zenon DEF AddsUp
  <2>3. \A u \in Uids : book.records[u].unreported
    BY DEF Init, ClearedBook, NoRecord
  <2> QED
    BY <2>1, <2>2, <2>3 DEF ViewFits, Init
<1> QED
  BY <1>1, <1>2, <1>3, <1>4 DEF AncsInv

-----------------------------------------------------------------------------
(* start().                                                                *)

\* The states and errors that are plain to tell.
LEMMA PlainEvents ==
  /\ \A s \in SessionStates \ {"Stopped"} : Plain(State(s))
  /\ \A how \in Errors : Plain(Err(how))
<1>1. \A s \in SessionStates \ {"Stopped"} : State(s).kind = "state" /\ State(s) # State("Stopped")
  BY DEF State
<1>2. \A how \in Errors : Err(how).kind = "error" /\ Err(how) # State("Stopped")
  BY DEF State, Err
<1> QED
  BY <1>1, <1>2, EventTypes DEF Plain

\* A step that leaves the book, or clears it, keeps it exact.
LEMMA BookLeft ==
  ASSUME TypeOK, BookExact, load' = load, book' = book \/ book' = ClearedBook
  PROVE  BookExact' /\ (\A u \in Uids : ~book'.records[u].unreported => ~book.records[u].unreported)
  BY ClearedExact, ClearedKeeps DEF BookExact

\* No step of start() is taken in a session that has stopped.
LEMMA StarterInv ==
  ASSUME AncsInv, Starter
  PROVE  AncsInv'
<1>1. TypeOK /\ SessionFacts /\ Phases /\ Quiet /\ BookExact /\ ViewFits /\ TypeOK'
  BY StartTypes DEF AncsInv
<1>2. starter.at # "idle" /\ flag.state # "Stopped" /\ ~flag.ready /\ ~flag.shutdown
      /\ UNCHANGED <<load, stopper, worker, writer, phone, log>>
  <2>1. starter.at # "idle" /\ UNCHANGED <<load, stopper, worker, writer, phone, log>>
    BY DEF Starter, Resolve, Discover, SubscribeData, StartStep, SubscribeNotification, StartReady,
           FailStartup, FailStartupCleanup
  <2> QED
    BY <1>1, <2>1, StoppedFacts DEF Phases
<1>3. flag \in Flag /\ starter \in StarterState /\ queue \in Queue /\ queue.events \in Seq(Event)
  BY <1>1, Fields DEF TypeOK
<1>4. Given' = Given
  BY <1>2 DEF Given
<1>5. ASSUME flag'.state # "Stopped", flag'.shutdown = flag.shutdown, starter'.calls = starter.calls,
             flag'.ready => starter'.at = "idle" /\ flag'.state = "Ready",
             book' = book \/ book' = ClearedBook, ViewFits'
      PROVE  AncsInv'
  <2>1. SessionFacts'
    BY <1>1, <1>2, <1>5 DEF SessionFacts
  <2>2. Phases'
    BY <1>1, <1>2, <1>5 DEF Phases
  <2>3. Quiet'
    BY <1>5 DEF Quiet
  <2>4. BookExact'
    BY <1>1, <1>2, <1>5, BookLeft
  <2> QED
    BY <1>1, <1>5, <2>1, <2>2, <2>3, <2>4 DEF AncsInv
<1>6. ASSUME NEW s \in SessionStates \ {"Stopped"}, Emit(State(s))
      PROVE  View' = Append(View, State(s)) /\ Plain(State(s))
  <2>1. State(s) \in Event /\ Plain(State(s))
    BY EventTypes, PlainEvents
  <2>2. queue'.events = Append(queue.events, State(s))
    BY <1>1, <1>6, <2>1, EmitTypes DEF Emit
  <2> QED
    BY <1>1, <1>2, <1>4, <2>1, <2>2, ViewTold
<1>7. ASSUME NEW at \in {"resolve", "discover", "data"}, NEW next \in {"discover", "data", "notify"},
             NEW state \in SessionStates \ {"Stopped", "Ready"}, NEW held,
             StartStep(at, next, state, held)
      PROVE  AncsInv'
  <2>1. starter'.calls = starter.calls /\ book' = book
    BY <1>3, <1>7 DEF StartStep, StarterState
  <2>2. CASE UNCHANGED <<flag, queue>>
    <3>1. ViewFits'
      BY <1>1, <1>2, <1>4, <2>1, <2>2, ViewSame, ViewStays DEF Keeps
    <3> QED
      BY <1>2, <1>5, <2>1, <2>2, <3>1
  <2>3. CASE flag' = [flag EXCEPT !.state = state] /\ Emit(State(state))
    <3>1. flag'.state = state /\ flag'.ready = flag.ready /\ flag'.shutdown = flag.shutdown
      BY <1>3, <2>3 DEF Flag
    <3>2. Keeps
      BY <2>1, <3>1 DEF Keeps
    <3>3. ViewFits'
      BY <1>1, <1>2, <1>6, <2>3, <3>2, ViewGrowsPlainly
    <3> QED
      BY <1>2, <1>5, <2>1, <3>1, <3>3
  <2> QED
    BY <1>7, <2>2, <2>3 DEF StartStep
<1>8. CASE Resolve \/ Discover \/ SubscribeData
  <2>1. /\ "DiscoveringANCS" \in SessionStates \ {"Stopped", "Ready"}
        /\ "SubscribingDataSource" \in SessionStates \ {"Stopped", "Ready"}
        /\ "SubscribingNotificationSource" \in SessionStates \ {"Stopped", "Ready"}
    BY DEF SessionStates
  <2> QED
    BY <1>7, <1>8, <2>1 DEF Resolve, Discover, SubscribeData
<1>9. CASE SubscribeNotification
  <2>1. UNCHANGED <<flag, queue, book>> /\ starter'.calls = starter.calls
    BY <1>3, <1>9 DEF SubscribeNotification, StarterState
  <2>2. ViewFits'
    BY <1>1, <1>2, <1>4, <2>1, ViewSame, ViewStays DEF Keeps
  <2> QED
    BY <1>2, <1>5, <2>1, <2>2
<1>10. CASE StartReady
  <2>1. /\ flag'.state = "Ready" /\ flag'.ready /\ flag'.shutdown = flag.shutdown
        /\ starter'.at = "idle" /\ starter'.calls = starter.calls /\ book' = book
    BY <1>3, <1>10 DEF StartReady, Flag, StarterState
  <2>2. View' = Append(View, State("Ready"))
    <3>1. "Ready" \in SessionStates \ {"Stopped"}
      BY DEF SessionStates
    <3> QED
      BY <1>6, <1>10, <3>1 DEF StartReady
  <2>3. MayTell(State("Ready")) /\ Leaves(State("Ready")) /\ State("Ready") \in Event
    <3>1. State("Ready") \in Event
      BY EventTypes DEF SessionStates
    <3>2. State("Ready").kind = "state" /\ \A u : State("Ready") # Report("removed", u)
      BY DEF State, Report
    <3> QED
      BY <2>1, <3>1, <3>2 DEF MayTell, Leaves
  <2>4. ViewFits'
    BY <1>1, <1>2, <2>2, <2>3, ViewGrows
  <2> QED
    BY <1>5, <2>1, <2>4
<1>11. CASE FailStartup
  <2>1. /\ flag'.state = flag.state /\ ~flag'.ready /\ flag'.shutdown = flag.shutdown
        /\ starter'.calls = starter.calls /\ book' = ClearedBook
    BY <1>3, <1>11 DEF FailStartup, Flag, StarterState
  <2>2. Err("fatal") \in Event /\ Plain(Err("fatal"))
    BY EventTypes, PlainEvents DEF Errors
  <2>3. queue'.events = Append(queue.events, Err("fatal"))
    <3>1. ClearedQueue \in Queue /\ ClearedQueue.events = queue.events
      BY <1>1, QueueTypes
    <3>2. \A q \in Queue : \A s : [q EXCEPT !.events = s].events = s
      BY DEF Queue
    <3>3. queue' = [ClearedQueue EXCEPT !.events = Append(ClearedQueue.events, Err("fatal"))]
      BY <1>11 DEF FailStartup
    <3> QED
      BY <3>1, <3>2, <3>3
  <2>4. View' = Append(View, Err("fatal"))
    BY <1>1, <1>2, <1>4, <2>2, <2>3, ViewTold
  <2>5. Keeps
    BY <1>1, <2>1, ClearedKeeps DEF Keeps
  <2>6. ViewFits'
    BY <1>1, <1>2, <2>2, <2>4, <2>5, ViewGrowsPlainly
  <2> QED
    BY <1>2, <1>5, <2>1, <2>6
<1>12. CASE FailStartupCleanup
  <2>1. /\ flag'.state = "Failed" /\ flag'.ready = flag.ready /\ flag'.shutdown = flag.shutdown
        /\ starter'.calls = starter.calls /\ book' = book
    BY <1>3, <1>12 DEF FailStartupCleanup, Flag, StarterState
  <2>2. View' = Append(View, State("Failed")) /\ Plain(State("Failed"))
    <3>1. "Failed" \in SessionStates \ {"Stopped"}
      BY DEF SessionStates
    <3> QED
      BY <1>6, <1>12, <3>1 DEF FailStartupCleanup
  <2>3. ViewFits'
    BY <1>1, <1>2, <2>1, <2>2, ViewGrowsPlainly DEF Keeps
  <2> QED
    BY <1>2, <1>5, <2>1, <2>3
<1> QED
  BY <1>8, <1>9, <1>10, <1>11, <1>12 DEF Starter

\* A new session begins where the last one left nothing behind.
LEMMA StartInv ==
  ASSUME AncsInv, Start
  PROVE  AncsInv'
<1>1. TypeOK /\ SessionFacts /\ Phases /\ Quiet /\ BookExact /\ ViewFits /\ TypeOK'
  BY StartTypes DEF AncsInv
<1>2. flag \in Flag /\ starter \in StarterState /\ worker \in WorkerState /\ queue \in Queue
  BY <1>1 DEF TypeOK
<1>3. flag.state = "Stopped" /\ stopper.at \in {"idle", "api"} /\ ~stopper.dying /\ worker.at = "none"
  BY <1>1, StoppedFacts DEF Start
<1>4. /\ UNCHANGED <<load, book, subs, stopper, phone, faults, log>>
      /\ flag'.state = "ResolvingServices" /\ ~flag'.ready /\ ~flag'.shutdown
      /\ worker'.at = "idle" /\ starter'.calls = starter.calls + 1 /\ starter.calls \in Nat
  BY <1>2 DEF Start, StartReset, Flag, StarterState, WorkerState
<1>5. SessionFacts' /\ Quiet'
  <2>1. ~flag.ready
    BY <1>1, <1>3 DEF SessionFacts
  <2> QED
    BY <1>1, <1>4, <2>1 DEF SessionFacts, Quiet
<1>6. Phases'
  BY <1>1, <1>3, <1>4 DEF Phases
<1>7. BookExact'
  BY <1>1, <1>4, BookLeft
<1>8. ViewFits'
  <2>1. Given = <<>> /\ Given' = <<>>
    BY <1>3, <1>4 DEF Given
  <2>2. Plain(State("Starting")) /\ Plain(State("ResolvingServices"))
    BY PlainEvents DEF SessionStates
  <2>3. State("Starting") \in Event /\ State("ResolvingServices") \in Event
    BY <2>2 DEF Plain
  <2>4. queue'.events = queue.events \o <<State("Starting"), State("ResolvingServices")>>
    BY <1>2 DEF Start, Queue
  <2>5. View' = Append(Append(View, State("Starting")), State("ResolvingServices"))
    BY <1>1, <1>4, <2>1, <2>3, <2>4, ViewToldTwo
  <2> QED
    BY <1>1, <1>4, <2>2, <2>5, ViewGrowsTwice DEF Keeps
<1> QED
  BY <1>1, <1>5, <1>6, <1>7, <1>8 DEF AncsInv

\* The handler is set between sessions.
LEMMA SetEventHandlerInv ==
  ASSUME AncsInv, SetEventHandler
  PROVE  AncsInv'
<1>1. TypeOK /\ SessionFacts /\ Phases /\ Quiet /\ BookExact /\ ViewFits /\ TypeOK'
  BY StartTypes DEF AncsInv
<1>2. /\ flag'.state = flag.state /\ flag'.ready = flag.ready /\ flag'.shutdown = flag.shutdown
      /\ UNCHANGED <<load, queue, book, subs, starter, stopper, worker, writer, phone, faults, log>>
  BY <1>1 DEF SetEventHandler, TypeOK, Flag
<1>3. View' = View
  BY <1>2 DEF View, Given
<1>4. SessionFacts' /\ Phases' /\ Quiet'
  BY <1>1, <1>2, <1>3 DEF SessionFacts, Phases, Quiet
<1>5. ViewFits'
  BY <1>1, <1>2, <1>3, ViewStays DEF Keeps
<1> QED
  BY <1>1, <1>2, <1>4, <1>5, BookLeft DEF AncsInv

-----------------------------------------------------------------------------
(* stop() and the destructor.                                              *)

\* stop() is called.
LEMMA StopInv ==
  ASSUME AncsInv, Stop
  PROVE  AncsInv'
<1>1. TypeOK /\ SessionFacts /\ Phases /\ Quiet /\ BookExact /\ ViewFits /\ TypeOK'
  BY StopTypes DEF AncsInv
<1>2. /\ flag'.state = flag.state /\ flag'.ready = flag.ready /\ flag'.shutdown = flag.shutdown
      /\ UNCHANGED <<load, queue, book, subs, starter, worker, writer, phone, faults, log>>
  BY <1>1 DEF Stop, TypeOK, Flag
<1>3. /\ stopper.at = "idle" /\ stopper'.at = "api" /\ starter.calls > 0 /\ starter.calls \in Nat
      /\ stopper'.dying => stopper.dying \/ starter.at = "idle"
  BY <1>1 DEF Stop, TypeOK, StopperState, StarterState
<1>4. View' = View
  BY <1>2 DEF View, Given
<1>5. SessionFacts' /\ Quiet'
  BY <1>1, <1>2, <1>3, <1>4 DEF SessionFacts, Quiet
<1>6. Phases'
  BY <1>1, <1>2, <1>3 DEF Phases
<1>7. ViewFits'
  BY <1>1, <1>2, <1>4, ViewStays DEF Keeps
<1> QED
  BY <1>1, <1>2, <1>5, <1>6, <1>7, BookLeft DEF AncsInv

\* What the steps of a stop() that is under way have in common.
LEMMA StopperInv ==
  ASSUME AncsInv, Stopper
  PROVE  AncsInv'
<1>1. TypeOK /\ SessionFacts /\ Phases /\ Quiet /\ BookExact /\ ViewFits /\ TypeOK'
  BY StopTypes DEF AncsInv
<1>2. flag \in Flag /\ stopper \in StopperState /\ queue \in Queue /\ queue.events \in Seq(Event)
      /\ starter.calls \in Nat
  BY <1>1, Fields DEF TypeOK, StarterState
<1>3. UNCHANGED <<load, starter, worker, writer, phone, log>> /\ stopper.at \notin {"idle", "gone"}
      /\ starter.calls # 0
  <2>1. UNCHANGED <<load, starter, worker, writer, phone, log>> /\ stopper.at \notin {"idle", "gone"}
    BY DEF Stopper, StopClear, StopWorker, StopCleanup, StopShutdown, StopJoin
  <2> QED
    BY <1>1, <2>1 DEF Phases
<1>4. Given' = Given
  BY <1>3 DEF Given
<1>5. CASE StopClear
  <2>1. CASE flag.state = "Stopped" /\ subs = {}
    <3>1. UNCHANGED <<flag, queue, book, subs>> /\ stopper'.at = "idle" /\ stopper'.dying = stopper.dying
          /\ stopper.at = "api" /\ starter.at = "idle"
      BY <1>2, <1>5, <2>1 DEF StopClear, StopperState
    <3>2. View' = View
      BY <1>3, <1>4, <3>1, ViewSame
    <3>3. SessionFacts' /\ Quiet'
      BY <1>1, <1>3, <3>1, <3>2 DEF SessionFacts, Quiet
    <3>4. Phases'
      BY <1>1, <1>3, <2>1, <3>1 DEF Phases, SessionFacts
    <3>5. ViewFits'
      BY <1>1, <1>3, <3>1, <3>2, ViewStays DEF Keeps
    <3> QED
      BY <1>1, <1>3, <3>1, <3>3, <3>4, <3>5, BookLeft DEF AncsInv
  <2>2. CASE ~(flag.state = "Stopped" /\ subs = {})
    <3>1. /\ flag'.state = flag.state /\ ~flag'.ready /\ flag'.shutdown = flag.shutdown
          /\ book' = ClearedBook /\ subs' = subs
          /\ stopper'.at = "wait" /\ stopper'.dying = stopper.dying
          /\ stopper.at = "api" /\ starter.at = "idle" /\ queue' = ClearedQueue
      BY <1>2, <1>5, <2>2 DEF StopClear, StopperState, Flag
    <3>2. flag.state # "Stopped"
      BY <1>1, <2>2, <3>1, StoppedFacts
    <3>3. View' = View
      BY <1>1, <1>3, <1>4, <3>1, QueueTypes, ViewSame
    <3>4. SessionFacts' /\ Quiet'
      BY <3>1, <3>2 DEF SessionFacts, Quiet
    <3>5. Phases'
      BY <1>1, <1>3, <3>1, <3>2 DEF Phases
    <3>6. ViewFits'
      BY <1>1, <1>3, <3>1, <3>3, ViewStays, ClearedKeeps DEF Keeps
    <3> QED
      BY <1>1, <1>3, <3>1, <3>4, <3>5, <3>6, BookLeft DEF AncsInv
  <2> QED
    BY <2>1, <2>2
<1>6. CASE StopWorker
  <2>1. /\ flag'.state = "Stopping" /\ flag'.ready = flag.ready /\ flag'.shutdown = flag.shutdown
        /\ book' = ClearedBook /\ subs' = subs /\ stopper.at = "wait"
        /\ stopper'.at = "held" /\ stopper'.dying = stopper.dying /\ worker.at \in {"none", "idle", "taken"}
    BY <1>2, <1>6 DEF StopWorker, WorkMutexFree, StopperState, Flag
  <2>2. State("Stopping") \in Event /\ Plain(State("Stopping"))
    BY EventTypes, PlainEvents DEF SessionStates
  <2>3. queue'.events = Append(queue.events, State("Stopping"))
    <3>1. ClearedQueue \in Queue /\ ClearedQueue.events = queue.events
      BY <1>1, QueueTypes
    <3>2. \A q \in Queue : \A s : [q EXCEPT !.events = s].events = s
      BY DEF Queue
    <3>3. queue' = [ClearedQueue EXCEPT !.events = Append(ClearedQueue.events, State("Stopping"))]
      BY <1>6 DEF StopWorker
    <3> QED
      BY <3>1, <3>2, <3>3
  <2>4. View' = Append(View, State("Stopping"))
    BY <1>1, <1>3, <1>4, <2>2, <2>3, ViewTold
  <2>5. ViewFits'
    BY <1>1, <1>3, <2>1, <2>2, <2>4, ViewGrowsPlainly, ClearedKeeps DEF Keeps
  <2>6. SessionFacts' /\ Quiet'
    BY <1>1, <2>1 DEF SessionFacts, Quiet, Phases
  <2>7. Phases'
    BY <1>1, <1>3, <2>1 DEF Phases
  <2> QED
    BY <1>1, <1>3, <2>1, <2>5, <2>6, <2>7, BookLeft DEF AncsInv
<1>7. CASE StopCleanup /\ subs' = {}
  <2>1. UNCHANGED <<flag, queue, book>> /\ stopper.at = "held"
        /\ stopper'.at = "cleanup" /\ stopper'.dying = stopper.dying
    BY <1>2, <1>7 DEF StopCleanup, StopperState
  <2>2. View' = View
    BY <1>3, <1>4, <2>1, ViewSame
  <2>3. SessionFacts' /\ Quiet'
    BY <1>1, <2>1 DEF SessionFacts, Quiet, Phases
  <2>4. Phases'
    BY <1>1, <1>3, <1>7, <2>1 DEF Phases
  <2>5. ViewFits'
    BY <1>1, <1>3, <2>1, <2>2, ViewStays DEF Keeps
  <2> QED
    BY <1>1, <1>3, <2>1, <2>3, <2>4, <2>5, BookLeft DEF AncsInv
<1>8. CASE StopCleanup /\ subs' # {}
  <2>1. /\ flag'.state = "Failed" /\ flag'.ready = flag.ready /\ flag'.shutdown = flag.shutdown
        /\ book' = book /\ stopper.at = "held" /\ stopper'.at = "idle" /\ stopper'.dying = stopper.dying
        /\ queue' = [queue EXCEPT !.events = queue.events \o <<Err("fatal"), State("Failed")>>]
    BY <1>2, <1>8 DEF StopCleanup, StopperState, Flag
  <2>2. Plain(Err("fatal")) /\ Plain(State("Failed")) /\ Err("fatal") \in Event /\ State("Failed") \in Event
    BY EventTypes, PlainEvents DEF SessionStates, Errors
  <2>3. queue'.events = queue.events \o <<Err("fatal"), State("Failed")>>
    BY <1>2, <2>1 DEF Queue
  <2>4. View' = Append(Append(View, Err("fatal")), State("Failed"))
    BY <1>1, <1>3, <1>4, <2>2, <2>3, ViewToldTwo
  <2>5. ViewFits'
    BY <1>1, <1>3, <2>1, <2>2, <2>4, ViewGrowsTwice DEF Keeps
  <2>6. SessionFacts' /\ Quiet'
    BY <1>1, <2>1 DEF SessionFacts, Quiet, Phases
  <2>7. Phases'
    BY <1>1, <1>3, <2>1 DEF Phases
  <2> QED
    BY <1>1, <1>3, <2>1, <2>5, <2>6, <2>7, BookLeft DEF AncsInv
<1>9. CASE StopShutdown
  <2>1. /\ flag'.state = "Stopped" /\ flag'.ready = flag.ready /\ flag'.shutdown
        /\ book' = book /\ subs' = subs /\ stopper.at = "cleanup"
        /\ stopper'.at = "join" /\ stopper'.dying = stopper.dying
        /\ queue'.events = Append(queue.events, State("Stopped"))
    BY <1>2, <1>9 DEF StopShutdown, StopperState, Flag, Queue
  <2>2. subs = {} /\ ~flag.ready /\ flag.state # "Stopped" /\ worker.at \in {"idle", "taken"}
    BY <1>1, <1>3, <2>1 DEF Phases
  <2>3. State("Stopped") \in Event
    BY EventTypes DEF SessionStates
  <2>4. View' = Append(View, State("Stopped"))
    BY <1>1, <1>3, <1>4, <2>1, <2>3, ViewTold
  <2>5. ViewFits'
    <3>1. State("Stopped").kind = "state" /\ \A u : State("Stopped") # Report("removed", u)
      BY DEF State, Report
    <3>2. MayTell(State("Stopped")) /\ Leaves(State("Stopped"))
      BY <2>1, <2>2, <3>1 DEF MayTell, Leaves
    <3> QED
      BY <1>1, <1>3, <2>3, <2>4, <3>2, ViewGrows
  <2>6. SessionFacts'
    BY <1>1, <2>1, <2>2 DEF SessionFacts
  <2>7. Quiet'
    <3>1. View' # <<>> /\ View'[Len(View')] = State("Stopped")
      BY <1>1, <2>3, <2>4, ViewTypes, SMTT(30)
    <3> QED
      BY <1>3, <2>1, <2>2, <3>1 DEF Quiet
  <2>8. Phases'
    BY <1>1, <1>3, <2>1, <2>2 DEF Phases
  <2> QED
    BY <1>1, <1>3, <2>1, <2>5, <2>6, <2>7, <2>8, BookLeft DEF AncsInv
<1>10. CASE StopJoin
  <2>1. UNCHANGED <<flag, queue, book, subs>> /\ worker.at = "none" /\ writer.at = "none" /\ stopper.at = "join"
        /\ stopper'.at = "idle" /\ stopper'.dying = stopper.dying
    BY <1>2, <1>10 DEF StopJoin, StopperState
  <2>2. View' = View
    BY <1>3, <1>4, <2>1, ViewSame
  <2>3. SessionFacts' /\ Quiet'
    BY <1>1, <1>3, <2>1, <2>2 DEF SessionFacts, Quiet
  <2>4. Phases'
    BY <1>1, <1>3, <2>1 DEF Phases
  <2>5. ViewFits'
    BY <1>1, <1>3, <2>1, <2>2, ViewStays DEF Keeps
  <2> QED
    BY <1>1, <1>3, <2>1, <2>3, <2>4, <2>5, BookLeft DEF AncsInv
<1> QED
  BY <1>5, <1>6, <1>7, <1>8, <1>9, <1>10 DEF Stopper

\* The destructor ends the threads, whatever its stop() returned.
LEMMA DestroyInv ==
  ASSUME AncsInv, Destroy
  PROVE  AncsInv'
<1>1. TypeOK /\ SessionFacts /\ Phases /\ Quiet /\ BookExact /\ ViewFits /\ TypeOK'
  BY StopTypes DEF AncsInv
<1>2. /\ flag'.state = flag.state /\ flag'.ready = flag.ready /\ flag'.shutdown
      /\ stopper.at = "idle" /\ stopper.dying /\ stopper'.at = "gone" /\ stopper'.dying
      /\ queue'.events = queue.events
      /\ UNCHANGED <<load, book, subs, starter, worker, writer, phone, faults, log>>
  BY <1>1 DEF Destroy, TypeOK, Flag, StopperState, Queue
<1>3. View' = View
  BY <1>2 DEF View, Given
<1>4. ~flag.ready /\ starter.at = "idle" /\ starter.calls # 0 /\ (flag.state = "Stopped" => flag.shutdown)
  BY <1>1, <1>2 DEF Phases
<1>5. SessionFacts' /\ Quiet'
  BY <1>1, <1>2, <1>3, <1>4 DEF SessionFacts, Quiet
<1>6. Phases'
  BY <1>1, <1>2, <1>4 DEF Phases
<1>7. ViewFits'
  BY <1>1, <1>2, <1>3, ViewStays DEF Keeps
<1> QED
  BY <1>1, <1>2, <1>5, <1>6, <1>7, BookLeft DEF AncsInv

-----------------------------------------------------------------------------
(* The GATT side and the Control Point worker.                             *)

\* Packets, write requests and their results touch neither the flags nor the
\* events.
LEMMA PhoneInv ==
  ASSUME AncsInv, PhoneNotifies \/ PhoneAnswers \/ Invalidated \/ Writer
  PROVE  AncsInv'
<1>1. TypeOK /\ SessionFacts /\ Phases /\ Quiet /\ BookExact /\ ViewFits /\ TypeOK'
  BY PhoneTypes DEF AncsInv
<1>2. UNCHANGED <<load, flag, book, subs, starter, stopper, worker, log>>
  BY DEF PhoneNotifies, PhoneAnswers, Invalidated, Writer, WriterTake, WriterBegin, WriterEnd, WriterExit
<1>3. queue'.events = queue.events
  <2>1. queue \in Queue
    BY <1>1 DEF TypeOK
  <2>2. \A x : Enqueue(x) => queue'.events = queue.events
    BY <2>1 DEF Enqueue, Queue
  <2>3. CASE PhoneNotifies \/ PhoneAnswers \/ Invalidated
    BY <2>2, <2>3 DEF PhoneNotifies, PhoneAnswers, Invalidated
  <2>4. CASE Writer
    BY <2>1, <2>4 DEF Writer, WriterTake, WriterBegin, WriterEnd, WriterExit, Queue
  <2> QED
    BY <2>3, <2>4
<1>4. View' = View
  BY <1>2, <1>3 DEF View, Given
<1>5. writer.at = "none" => writer'.at = "none"
  BY DEF PhoneNotifies, PhoneAnswers, Invalidated, Writer, WriterTake, WriterBegin, WriterEnd, WriterExit
<1>6. SessionFacts' /\ Phases' /\ Quiet'
  BY <1>1, <1>2, <1>3, <1>4, <1>5 DEF SessionFacts, Phases, Quiet
<1>7. ViewFits'
  BY <1>1, <1>2, <1>4, ViewStays DEF Keeps
<1> QED
  BY <1>1, <1>2, <1>6, <1>7, BookLeft DEF AncsInv

-----------------------------------------------------------------------------
(* The event worker.                                                       *)

\* What it takes up.
LEMMA TakeInv ==
  ASSUME AncsInv, TakeEvent \/ TakePacket \/ TakeResult \/ TakeTimeout \/ WorkerExit
  PROVE  AncsInv'
<1>1. TypeOK /\ SessionFacts /\ Phases /\ Quiet /\ BookExact /\ ViewFits /\ TypeOK' /\ book' = book
  BY TakeTypes DEF AncsInv
<1>2. /\ UNCHANGED <<load, flag, subs, starter, stopper, writer, phone, faults, log>>
      /\ worker.at = "idle"
  BY DEF TakeEvent, TakePacket, TakeResult, TakeTimeout, WorkerExit, Take
<1>3. worker \in WorkerState /\ queue \in Queue
  BY <1>1 DEF TypeOK
<1>4. /\ worker'.at = "taken" \/ (worker'.at = "none" /\ flag.shutdown /\ queue.events = <<>> /\ queue' = queue)
  BY <1>3 DEF TakeEvent, TakePacket, TakeResult, TakeTimeout, WorkerExit, Take, WorkerState
<1>5. View' = View
  <2>1. CASE TakeEvent
    BY <1>1, <2>1, TakeEventView
  <2>2. CASE TakePacket \/ TakeResult \/ TakeTimeout \/ WorkerExit
    <3>1. queue'.events = queue.events
      BY <1>3, <2>2 DEF TakePacket, TakeResult, TakeTimeout, WorkerExit, Take, Queue
    <3>2. worker'.at # "taken" \/ worker'.kind # "event"
      BY <1>3, <2>2 DEF TakePacket, TakeResult, TakeTimeout, WorkerExit, Take, WorkerState
    <3>3. Given = <<>> /\ Given' = <<>>
      BY <1>2, <3>2 DEF Given
    <3> QED
      BY <1>2, <3>1, <3>3, ViewSame
  <2> QED
    BY <2>1, <2>2
<1>6. SessionFacts' /\ Phases' /\ Quiet'
  BY <1>1, <1>2, <1>4, <1>5 DEF SessionFacts, Phases, Quiet
<1>7. ViewFits'
  BY <1>1, <1>2, <1>5, ViewStays DEF Keeps
<1> QED
  BY <1>1, <1>2, <1>6, <1>7, BookLeft DEF AncsInv

\* The call of the handler.
LEMMA DispatchInv ==
  ASSUME AncsInv, Dispatch
  PROVE  AncsInv'
<1>1. TypeOK /\ SessionFacts /\ Phases /\ Quiet /\ BookExact /\ ViewFits
  BY DEF AncsInv
<1>2. /\ TypeOK' /\ UNCHANGED <<load, subs, starter, stopper, writer, phone>>
      /\ BookExact' /\ worker'.at \in {"next", "cleanup"}
      /\ \/ book' = book /\ flag' = flag /\ worker'.at = "next"
         \/ /\ flag.state \notin {"Failed", "Stopped"} /\ book' = ClearedBook
            /\ ~flag'.ready /\ flag'.state = "Failed" /\ flag'.shutdown = flag.shutdown
  BY <1>1, DispatchEffect
<1>3. worker.at = "taken" /\ stopper.at \notin {"held", "cleanup"}
  BY DEF Dispatch, Work, Lock
<1>4. View' = View
  BY <1>1, DispatchView
<1>5. SessionFacts' /\ Phases'
  BY <1>1, <1>2, <1>3 DEF SessionFacts, Phases
<1>6. Quiet'
  BY <1>1, <1>2, <1>3, <1>4 DEF Quiet
<1>7. ViewFits'
  BY <1>1, <1>2, <1>4, ViewStays, ClearedKeeps DEF Keeps
<1> QED
  BY <1>2, <1>5, <1>6, <1>7 DEF AncsInv

\* One piece of its work.
LEMMA WorkInv ==
  ASSUME AncsInv,
         NotificationSource \/ PacketVoid \/ DataSource \/ DataSourceComplete \/ WriteResult \/ TimedOut
  PROVE  AncsInv'
<1>1. TypeOK /\ SessionFacts /\ Phases /\ Quiet /\ BookExact /\ ViewFits
  BY DEF AncsInv
<1>2. /\ worker.at \in {"taken", "conclude"} /\ stopper.at \notin {"held", "cleanup"}
      /\ worker.at # "taken" \/ worker.kind # "event"
  <2>1. CASE DataSourceComplete
    BY <1>1, <2>1 DEF DataSourceComplete, Phases
  <2>2. CASE NotificationSource \/ PacketVoid \/ DataSource \/ WriteResult \/ TimedOut
    BY <2>2 DEF NotificationSource, PacketVoid, DataSource, WriteResult, TimedOut, Work, Lock
  <2> QED
    BY <2>1, <2>2
<1>3. TypeOK' /\ BookExact' /\ WorkDone
  <2>1. CASE DataSourceComplete
    <3>1. flag.state # "Stopped"
      BY <1>1, <2>1, StoppedFacts DEF DataSourceComplete
    <3> QED
      BY <1>1, <2>1, <3>1, CompleteDone
  <2>2. CASE NotificationSource \/ PacketVoid \/ DataSource \/ WriteResult \/ TimedOut
    BY <1>1, <2>2, NotificationDone, PacketVoidDone, DataSourceDone, ResultDone, TimedOutDone
  <2> QED
    BY <2>1, <2>2
<1>4. ViewFits' /\ (flag.state = "Stopped" => View' = View)
  BY <1>1, <1>2, <1>3, WorkView
<1>5. SessionFacts' /\ Phases'
  BY <1>1, <1>2, <1>3 DEF WorkDone, Phases
<1>6. Quiet'
  BY <1>1, <1>2, <1>3, <1>4 DEF WorkDone, Quiet
<1> QED
  BY <1>3, <1>4, <1>5, <1>6 DEF AncsInv

\* What follows it: the cleanup of a failure, the next request.
LEMMA AfterwardsInv ==
  ASSUME AncsInv, FailRuntimeCleanup \/ StartNextRequest \/ QueueRequest
  PROVE  AncsInv'
<1>1. TypeOK /\ SessionFacts /\ Phases /\ Quiet /\ BookExact /\ ViewFits
  BY DEF AncsInv
<1>2. queue \in Queue /\ queue.events \in Seq(Event) /\ worker \in WorkerState
  BY <1>1, Fields DEF TypeOK
<1>3. CASE FailRuntimeCleanup
  <2>1. /\ UNCHANGED <<load, flag, book, starter, stopper, writer, phone, log>> /\ Then("next")
        /\ worker.at = "cleanup"
        /\ queue' = [queue EXCEPT !.events = queue.events \o <<Err("fatal"), State("Failed")>>]
    BY <1>3 DEF FailRuntimeCleanup
  <2>2. flag.state # "Stopped" /\ stopper.at \notin {"held", "cleanup"}
    BY <1>1, <2>1, StoppedFacts DEF Phases
  <2>3. worker' \in WorkerState /\ WorkerHolds' /\ worker'.at = "next"
    BY <1>1, <2>1, ThenTypes
  <2>4. Plain(Err("fatal")) /\ Plain(State("Failed")) /\ Err("fatal") \in Event /\ State("Failed") \in Event
    BY EventTypes, PlainEvents DEF SessionStates, Errors
  <2>5. queue' \in Queue /\ queue'.events = queue.events \o <<Err("fatal"), State("Failed")>>
    <3>1. queue.events \o <<Err("fatal"), State("Failed")>> \in Seq(Event)
      BY <1>1, <2>4, EventsTold
    <3>2. \A s \in Seq(Event) : [queue EXCEPT !.events = s] \in Queue
      BY <1>1, QueueTypes
    <3> QED
      BY <1>2, <2>1, <3>1, <3>2 DEF Queue
  <2>6. subs' \in SUBSET {"data", "notify"} /\ faults' \in Nat
    BY <1>1, <1>3 DEF FailRuntimeCleanup, StopSubscriptions, TypeOK, Fault
  <2>7. TypeOK'
    BY <1>1, <2>1, <2>3, <2>5, <2>6 DEF TypeOK
  <2>8. View' = Append(Append(View, Err("fatal")), State("Failed"))
    <3>1. Given = <<>> /\ Given' = <<>>
      BY <2>1, <2>3 DEF Given
    <3> QED
      BY <1>1, <2>1, <2>4, <2>5, <3>1, ViewToldTwo
  <2>9. ViewFits'
    BY <1>1, <2>1, <2>4, <2>8, ViewGrowsTwice DEF Keeps
  <2>10. SessionFacts' /\ Phases' /\ Quiet'
    BY <1>1, <2>1, <2>2, <2>3 DEF SessionFacts, Phases, Quiet
  <2> QED
    BY <1>1, <2>1, <2>7, <2>9, <2>10, BookLeft DEF AncsInv
<1>4. CASE StartNextRequest
  <2>1. UNCHANGED <<load, flag, queue, subs, starter, stopper, writer, phone, faults, log>> /\ worker.at = "next"
    BY <1>4 DEF StartNextRequest
  <2>2. /\ book' \in Book /\ book'.records = book.records /\ BookExact'
        /\ worker' \in WorkerState /\ WorkerHolds' /\ worker'.at \in {"idle", "request"}
        /\ book' = book \/ flag.ready
        /\ worker'.at = "request" => flag.ready
    BY <1>1, <1>4, <2>1, NextExact
  <2>3. TypeOK'
    BY <1>1, <2>1, <2>2 DEF TypeOK
  <2>4. View' = View
    <3>1. Given = <<>> /\ Given' = <<>>
      BY <2>1, <2>2 DEF Given
    <3> QED
      BY <2>1, <3>1 DEF View
  <2>5. ViewFits'
    BY <1>1, <2>1, <2>2, <2>4, ViewStays DEF Keeps
  <2>6. SessionFacts' /\ Phases' /\ Quiet'
    BY <1>1, <2>1, <2>2, <2>4 DEF SessionFacts, Phases, Quiet
  <2> QED
    BY <2>2, <2>3, <2>5, <2>6 DEF AncsInv
<1>5. CASE QueueRequest
  <2>1. UNCHANGED <<load, flag, book, subs, starter, stopper, writer, phone, faults, log>>
        /\ worker.at = "request" /\ Then("idle")
    BY <1>5 DEF QueueRequest
  <2>2. worker' \in WorkerState /\ WorkerHolds' /\ worker'.at = "idle"
    BY <1>1, <2>1, ThenTypes
  <2>3. queue' \in Queue /\ queue'.events = queue.events
    <3>1. worker.of.uid \in Uids
      BY <1>1, <2>1 DEF TypeOK, WorkerHolds, Asked
    <3>2. Append(queue.jobs, worker.of.uid) \in Seq(Uids)
      BY <1>1, <3>1, Fields
    <3> QED
      BY <1>2, <1>5, <3>2 DEF QueueRequest, Queue
  <2>4. TypeOK'
    BY <1>1, <2>1, <2>2, <2>3 DEF TypeOK
  <2>5. View' = View
    <3>1. Given = <<>> /\ Given' = <<>>
      BY <2>1, <2>2 DEF Given
    <3> QED
      BY <2>1, <2>3, <3>1 DEF View
  <2>6. ViewFits'
    BY <1>1, <2>1, <2>5, ViewStays DEF Keeps
  <2>7. SessionFacts' /\ Phases' /\ Quiet'
    BY <1>1, <2>1, <2>2, <2>3, <2>5 DEF SessionFacts, Phases, Quiet
  <2> QED
    BY <1>1, <2>1, <2>4, <2>6, <2>7, BookLeft DEF AncsInv
<1> QED
  BY <1>3, <1>4, <1>5

-----------------------------------------------------------------------------
(* The theorems.                                                           *)

\* Every step keeps the invariant.
LEMMA StepInv == AncsInv /\ [Next]_vars => AncsInv'
<1> SUFFICES ASSUME AncsInv, [Next]_vars PROVE AncsInv'
  OBVIOUS
<1>1. CASE SetEventHandler \/ Start \/ Starter
  BY <1>1, SetEventHandlerInv, StartInv, StarterInv
<1>2. CASE Stop \/ Stopper \/ Destroy
  BY <1>2, StopInv, StopperInv, DestroyInv
<1>3. CASE PhoneNotifies \/ PhoneAnswers \/ Invalidated \/ Writer
  BY <1>3, PhoneInv
<1>4. CASE Worker
  BY <1>4, TakeInv, DispatchInv, WorkInv, AfterwardsInv DEF Worker
<1>5. CASE UNCHANGED vars
  <2>1. UNCHANGED <<load, flag, queue, book, subs, starter, stopper, worker, writer, phone, faults, log>>
    BY <1>5 DEF vars
  <2>2. TypeOK' /\ View' = View
    BY <2>1 DEF AncsInv, TypeOK, WorkerHolds, View, Given
  <2>3. SessionFacts' /\ Phases' /\ Quiet'
    BY <2>1, <2>2 DEF AncsInv, SessionFacts, Phases, Quiet
  <2>4. ViewFits'
    BY <2>1, <2>2, ViewStays DEF AncsInv, Keeps
  <2> QED
    BY <2>1, <2>2, <2>3, <2>4, BookLeft DEF AncsInv
<1> QED
  BY <1>1, <1>2, <1>3, <1>4, <1>5 DEF Next

\* The invariant holds in every state of every behaviour.
THEOREM AncsInvariant == Spec => []AncsInv
<1> QED
  BY InitInv, StepInv, PTL DEF Spec

\* The book of requests is consistent: the queue and its index agree, no
\* notification is asked for twice, nor one that has been removed or given up
\* (m_pending_requests, m_queued_uids, m_active_request).
THEOREM RequestsAlwaysExact == Spec => []RequestsExact
<1>1. ASSUME AncsInv PROVE RequestsExact
  <2>1. BookExact /\ book.pending \in Seq(Uids)
    BY <1>1, Fields DEF AncsInv
  <2>2. Cardinality(Range(book.pending)) = Len(book.pending)
    BY <2>1, DistinctCount DEF BookExact
  <2>3. ToSet(book.pending) = Range(book.pending)
    BY DEF ToSet, Range
  <2> QED
    BY <2>1, <2>2, <2>3 DEF BookExact, RequestsExact
<1> QED
  BY <1>1, AncsInvariant, PTL

\* What the handler has been told adds up at any time, and a stop() that
\* succeeded left neither a subscription nor a thread nor an event behind.
THEOREM AncsAlwaysHonest == Spec => []AncsHonest
<1>1. ASSUME AncsInv PROVE AncsHonest
  <2>1. TypeOK /\ Phases /\ Quiet /\ ViewFits
    BY <1>1 DEF AncsInv
  <2>2. AddsUp(log)
    <3>1. /\ log \in Seq(Event) /\ Given \in Seq(Event) /\ queue.events \in Seq(Event)
          /\ log \o Given \in Seq(Event)
      BY <2>1, ViewTypes
    <3>2. AddsUp((log \o Given) \o queue.events)
      BY <2>1 DEF ViewFits, View
    <3>3. AddsUp(log \o Given)
      BY <3>1, <3>2, AddsUpBefore
    <3> QED
      BY <3>1, <3>3, AddsUpBefore
  <2>3. ASSUME stopper.at = "idle", flag.state = "Stopped", flag.shutdown
        PROVE  /\ subs = {} /\ worker.at = "none" /\ writer.at = "none" /\ queue.events = <<>>
               /\ Last(log) = State("Stopped")
    <3>1. /\ subs = {} /\ worker.at = "none" /\ writer.at = "none" /\ queue.events = <<>>
          /\ View[Len(View)] = State("Stopped")
      BY <2>1, <2>3 DEF Quiet
    <3>2. View = log
      <4>1. log \in Seq(Event)
        BY <2>1, ViewTypes
      <4>2. Given = <<>>
        BY <3>1 DEF Given
      <4>3. (log \o <<>>) \o <<>> = log
        BY <4>1
      <4> QED
        BY <3>1, <4>2, <4>3 DEF View
    <3> QED
      BY <3>1, <3>2 DEF Last
  <2> QED
    BY <2>2, <2>3 DEF AncsHonest, StopQuiesces
<1> QED
  BY <1>1, AncsInvariant, PTL
=============================================================================
