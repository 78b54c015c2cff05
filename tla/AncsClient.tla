----------------------------- MODULE AncsClient -----------------------------
(***************************************************************************)
(* Dmn_AncsClient: a session with the notification service of a phone.     *)
(* start() and stop() run on callers' threads, GATT callbacks queue        *)
(* packets, one worker parses them, asks for attributes and calls the      *)
(* application's handler, another writes the requests to the Control       *)
(* Point.  A step is one region under m_mutex, or a blocking GATT call.    *)
(* Bytes are abstracted to what the parser tells apart: a Data Source      *)
(* fragment is [uid, first, last, text, date].                             *)
(***************************************************************************)
EXTENDS Integers, Sequences, SequencesExt, FiniteSets, Erasure

CONSTANTS
  Uids,         \* notification identifiers
  Workloads     \* bounds: [script, answer, cutoff, maximum, sessions, stops, faults, late, throws]

VARIABLES
  load,      \* what this behaviour is given: script, answer: what the phone sends; cutoff,
             \* maximum: the configuration; sessions: start() calls; stops: stop()
             \* calls before the destructor's;
             \* faults: GATT failures; late: the phone may be silent; throws: handler exceptions
  flag,      \* [state, ready, accept, shutdown, cancel, handler, backlog]
  queue,     \* [events, gatt, jobs, results]
  book,      \* [records, pending, queued, active]
  subs,      \* subscriptions held
  starter, stopper, worker, writer,   \* the four threads: [at, ...]
  phone,     \* [script, air]: Notification Source values to come, response fragments under way
  faults,    \* failures so far
  log        \* what the handler was given

vars == <<load, flag, queue, book, subs, starter, stopper, worker, writer, phone, faults, log>>

None == "none"

\* a Notification Source value; the date of a notification, which may be missing,
\* malformed or older than the cutoff; a fragment of a response
NotificationValue == [event : {"added", "updated", "removed", "unknown", "malformed"}, uid : Uids]
Dates == {"recent", "old"}
Fragment == [uid : Uids, first : BOOLEAN, last : BOOLEAN, text : BOOLEAN, date : Dates]

ASSUME AncsAssumption ==
  /\ None \notin Uids
  /\ Workloads \subseteq
       [script : Seq(NotificationValue), answer : [Uids -> Seq(Fragment)], cutoff : BOOLEAN,
        maximum : Nat, sessions : Nat, stops : Nat, faults : Nat, late : BOOLEAN, throws : BOOLEAN]

NoRecord == [known |-> FALSE, unreported |-> TRUE, unavailable |-> FALSE, ignored |-> FALSE]
NoRequest == [uid |-> None, unwritten |-> TRUE, removed |-> FALSE, seen |-> FALSE]

State(s) == [kind |-> "state", of |-> s]
Err(how) == [kind |-> "error", of |-> how]
Emit(e) == queue' = [queue EXCEPT !.events = Append(@, e)]

\* a GATT call may fail, within the bound
MayFail == load.faults > faults
Fault == faults' = faults + 1

\* clearSessionData()
ClearedQueue == [queue EXCEPT !.gatt = <<>>, !.jobs = <<>>, !.results = <<>>]
ClearedBook == [records |-> [u \in Uids |-> NoRecord], pending |-> <<>>, queued |-> {}, active |-> NoRequest]

-----------------------------------------------------------------------------
(* start(), from the caller's thread, under m_api_mutex *)

SetEventHandler ==
  /\ starter.at = "idle" /\ stopper.at = "idle"
  /\ flag.state = "Stopped" /\ ~flag.handler
  /\ flag' = [flag EXCEPT !.handler = TRUE]
  /\ UNCHANGED <<load, queue, book, subs, starter, stopper, worker, writer, phone, faults, log>>

StartReset(f) == [f EXCEPT !.cancel = FALSE, !.accept = TRUE, !.ready = FALSE, !.shutdown = FALSE,
                           !.state = "ResolvingServices"]

Start ==
  /\ starter.at = "idle" /\ stopper.at \in {"idle", "api"} /\ ~stopper.dying
  /\ flag.state = "Stopped" /\ flag.handler /\ starter.calls < load.sessions
  /\ flag' = StartReset(flag)
  /\ worker' = [worker EXCEPT !.at = "idle"]
  /\ writer' = [writer EXCEPT !.at = "idle"]
  /\ queue' = [queue EXCEPT !.events = @ \o <<State("Starting"), State("ResolvingServices")>>]
  /\ starter' = [at |-> "resolve", calls |-> starter.calls + 1]
  /\ UNCHANGED <<load, book, subs, stopper, phone, faults, log>>

\* a step of start(): the call it waits for, then the state that announces the next
StartStep(at, next, state, held) ==
  /\ starter.at = at
  /\ \/ MayFail /\ Fault /\ starter' = [starter EXCEPT !.at = "fail"] /\ UNCHANGED <<flag, queue, subs>>
     \/ /\ UNCHANGED faults
        /\ subs' = subs \cup held
        /\ IF flag.cancel /\ at # "discover"
             THEN starter' = [starter EXCEPT !.at = "fail"] /\ UNCHANGED <<flag, queue>>
             ELSE /\ starter' = [starter EXCEPT !.at = next]
                  /\ flag' = [flag EXCEPT !.state = state]
                  /\ Emit(State(state))
  /\ UNCHANGED <<load, book, stopper, worker, writer, phone, log>>

Resolve == StartStep("resolve", "discover", "DiscoveringANCS", {})

\* the service, its three characteristics and their flags, or an error
Discover == StartStep("discover", "data", "SubscribingDataSource", {})

SubscribeData == StartStep("data", "notify", "SubscribingNotificationSource", {"data"})

SubscribeNotification ==
  /\ starter.at = "notify"
  /\ \/ MayFail /\ Fault /\ UNCHANGED subs
        /\ starter' = [starter EXCEPT !.at = "fail"]
     \/ UNCHANGED faults /\ subs' = subs \cup {"notify"}
        /\ starter' = [starter EXCEPT !.at = IF flag.cancel THEN "fail" ELSE "ready"]
  /\ UNCHANGED <<load, flag, queue, book, stopper, worker, writer, phone, log>>

StartReady ==
  /\ starter.at = "ready"
  /\ starter' = [starter EXCEPT !.at = "idle"]
  /\ flag' = [flag EXCEPT !.ready = TRUE, !.state = "Ready"]
  /\ Emit(State("Ready"))
  /\ UNCHANGED <<load, book, subs, stopper, worker, writer, phone, faults, log>>

\* failStartup()
FailStartup ==
  /\ starter.at = "fail"
  /\ starter' = [starter EXCEPT !.at = "cleanup"]
  /\ flag' = [flag EXCEPT !.ready = FALSE, !.accept = FALSE]
  /\ queue' = [ClearedQueue EXCEPT !.events = Append(@, Err("fatal"))]
  /\ book' = ClearedBook
  /\ UNCHANGED <<load, subs, stopper, worker, writer, phone, faults, log>>

\* stopSubscriptions(): each one held is stopped, or kept when that fails
StopSubscriptions ==
  \/ subs' = {} /\ UNCHANGED faults
  \/ \E kept \in SUBSET subs \ {{}} : MayFail /\ Fault /\ subs' = kept

FailStartupCleanup ==
  /\ starter.at = "cleanup"
  /\ StopSubscriptions
  /\ starter' = [starter EXCEPT !.at = "idle"]
  /\ flag' = [flag EXCEPT !.state = "Failed"]
  /\ Emit(State("Failed"))
  /\ UNCHANGED <<load, book, stopper, worker, writer, phone, log>>

-----------------------------------------------------------------------------
(* stop(), from another thread; the last one is the destructor's *)

WorkMutexFree == worker.at \in {"none", "idle", "taken"} /\ stopper.at \notin {"held", "cleanup"}
OperationMutexFree == writer.at # "writing"

\* the cancellation is requested before the API mutex is waited for
Stop ==
  /\ stopper.at = "idle" /\ starter.calls > 0
  /\ \/ stopper.calls < load.stops /\ stopper' = [stopper EXCEPT !.at = "api", !.calls = @ + 1]
     \/ stopper.calls = load.stops /\ starter.at = "idle" /\ ~stopper.dying
        /\ stopper' = [stopper EXCEPT !.at = "api", !.dying = TRUE]
  /\ flag' = [flag EXCEPT !.cancel = TRUE]
  /\ UNCHANGED <<load, queue, book, subs, starter, worker, writer, phone, faults, log>>

\* intake ends before cleanup
StopClear ==
  /\ stopper.at = "api" /\ starter.at = "idle"
  /\ IF flag.state = "Stopped" /\ subs = {}
       THEN stopper' = [stopper EXCEPT !.at = "idle"] /\ UNCHANGED <<flag, queue, book>>
       ELSE /\ stopper' = [stopper EXCEPT !.at = "wait"]
            /\ flag' = [flag EXCEPT !.ready = FALSE, !.accept = FALSE]
            /\ queue' = ClearedQueue /\ book' = ClearedBook
  /\ UNCHANGED <<load, subs, starter, worker, writer, phone, faults, log>>

StopWorker ==
  /\ stopper.at = "wait" /\ WorkMutexFree
  /\ stopper' = [stopper EXCEPT !.at = "held"]
  /\ queue' = [ClearedQueue EXCEPT !.events = Append(@, State("Stopping"))]
  /\ book' = ClearedBook
  /\ flag' = [flag EXCEPT !.state = "Stopping"]
  /\ UNCHANGED <<load, subs, starter, worker, writer, phone, faults, log>>

StopCleanup ==
  /\ stopper.at = "held" /\ OperationMutexFree
  /\ StopSubscriptions
  /\ IF subs' = {}
       THEN stopper' = [stopper EXCEPT !.at = "cleanup"] /\ UNCHANGED <<flag, queue>>
       ELSE /\ stopper' = [stopper EXCEPT !.at = "idle"]
            /\ flag' = [flag EXCEPT !.state = "Failed"]
            /\ queue' = [queue EXCEPT !.events = @ \o <<Err("fatal"), State("Failed")>>]
  /\ UNCHANGED <<load, book, starter, worker, writer, phone, log>>

StopShutdown ==
  /\ stopper.at = "cleanup"
  /\ stopper' = [stopper EXCEPT !.at = "join"]
  /\ flag' = [flag EXCEPT !.state = "Stopped", !.shutdown = TRUE]
  /\ queue' = [queue EXCEPT !.events = Append(@, State("Stopped")), !.jobs = <<>>]
  /\ UNCHANGED <<load, book, subs, starter, worker, writer, phone, faults, log>>

StopJoin ==
  /\ stopper.at = "join" /\ worker.at = "none" /\ writer.at = "none"
  /\ stopper' = [stopper EXCEPT !.at = "idle"]
  /\ UNCHANGED <<load, flag, queue, book, subs, starter, worker, writer, phone, faults, log>>

\* ~Impl() after its stop(): the workers end whatever that stop() returned
Destroy ==
  /\ stopper.at = "idle" /\ stopper.dying
  /\ stopper' = [stopper EXCEPT !.at = "gone"]
  /\ flag' = [flag EXCEPT !.shutdown = TRUE]
  /\ queue' = [queue EXCEPT !.jobs = <<>>]
  /\ UNCHANGED <<load, book, subs, starter, worker, writer, phone, faults, log>>

-----------------------------------------------------------------------------
(* the GATT side: callbacks, and the phone they come from *)

\* enqueueGattEvent()
Enqueue(packet) ==
  queue' = IF flag.accept THEN [queue EXCEPT !.gatt = Append(@, packet)] ELSE queue

PhoneNotifies ==
  /\ phone.script # <<>> /\ "notify" \in subs
  /\ Enqueue([source |-> "notify", value |-> Head(phone.script)])
  /\ phone' = [phone EXCEPT !.script = Tail(@)]
  /\ UNCHANGED <<load, flag, book, subs, starter, stopper, worker, writer, faults, log>>

PhoneAnswers ==
  /\ phone.air # <<>>
  /\ IF "data" \in subs THEN Enqueue([source |-> "data", value |-> Head(phone.air)]) ELSE UNCHANGED queue
  /\ phone' = [phone EXCEPT !.air = Tail(@)]
  /\ UNCHANGED <<load, flag, book, subs, starter, stopper, worker, writer, faults, log>>

\* the link goes, or a notification fails
Invalidated ==
  /\ MayFail /\ subs # {} /\ Fault
  /\ Enqueue([source |-> "gatt", value |-> [invalid |-> TRUE]])
  /\ phone' = [phone EXCEPT !.air = <<>>]
  /\ UNCHANGED <<load, flag, book, subs, starter, stopper, worker, writer, log>>

-----------------------------------------------------------------------------
(* the Control Point worker *)

WriterTake ==
  /\ writer.at = "idle" /\ ~flag.shutdown /\ queue.jobs # <<>>
  /\ writer' = [at |-> "job", uid |-> Head(queue.jobs), ok |-> TRUE]
  /\ queue' = [queue EXCEPT !.jobs = Tail(@)]
  /\ UNCHANGED <<load, flag, book, subs, starter, stopper, worker, phone, faults, log>>

\* writeWithResponse(), under m_operation_mutex: the phone gets the request or it does not
WriterBegin ==
  /\ writer.at = "job"
  /\ \/ writer' = [writer EXCEPT !.at = "writing", !.ok = TRUE]
        /\ \/ phone' = [phone EXCEPT !.air = @ \o load.answer[writer.uid]]
           \/ load.late /\ UNCHANGED phone
        /\ UNCHANGED faults
     \/ MayFail /\ Fault /\ UNCHANGED phone
        /\ writer' = [writer EXCEPT !.at = "writing", !.ok = FALSE]
  /\ UNCHANGED <<load, flag, queue, book, subs, starter, stopper, worker, log>>

WriterEnd ==
  /\ writer.at = "writing"
  /\ IF flag.shutdown
       THEN writer' = [writer EXCEPT !.at = "none"] /\ UNCHANGED queue
       ELSE /\ writer' = [writer EXCEPT !.at = "idle"]
            /\ queue' = [queue EXCEPT !.results = Append(@, [uid |-> writer.uid, ok |-> writer.ok])]
  /\ UNCHANGED <<load, flag, book, subs, starter, stopper, worker, phone, faults, log>>

WriterExit ==
  /\ writer.at = "idle" /\ flag.shutdown
  /\ writer' = [writer EXCEPT !.at = "none"]
  /\ UNCHANGED <<load, flag, queue, book, subs, starter, stopper, worker, phone, faults, log>>

-----------------------------------------------------------------------------
(* the event worker: run() *)

\* application events first, then packets of a ready session, then write results
Take(kind, of, q) ==
  /\ worker.at = "idle"
  /\ worker' = [worker EXCEPT !.at = "taken", !.kind = kind, !.of = of]
  /\ queue' = q
  /\ UNCHANGED <<load, flag, book, subs, starter, stopper, writer, phone, faults, log>>

TakeEvent ==
  queue.events # <<>> /\ Take("event", Head(queue.events), [queue EXCEPT !.events = Tail(@)])

TakePacket ==
  /\ queue.events = <<>> /\ ~flag.shutdown /\ flag.ready /\ queue.gatt # <<>>
  /\ Take("packet", Head(queue.gatt), [queue EXCEPT !.gatt = Tail(@)])

TakeResult ==
  /\ queue.events = <<>> /\ ~flag.shutdown /\ ~(flag.ready /\ queue.gatt # <<>>) /\ queue.results # <<>>
  /\ Take("result", Head(queue.results), [queue EXCEPT !.results = Tail(@)])

\* the deadline of the active request has passed with nothing else to do
TakeTimeout ==
  /\ queue.events = <<>> /\ ~flag.shutdown /\ ~(flag.ready /\ queue.gatt # <<>>) /\ queue.results = <<>>
  /\ book.active # NoRequest /\ ~book.active.unwritten
  /\ phone.air = <<>> \/ load.late
  /\ Take("timeout", NoRequest, queue)

WorkerExit ==
  /\ worker.at = "idle" /\ flag.shutdown /\ queue.events = <<>>
  /\ worker' = [worker EXCEPT !.at = "none"]
  /\ UNCHANGED <<load, flag, queue, book, subs, starter, stopper, writer, phone, faults, log>>

\* the work begins once m_worker_work_mutex is free
Lock == stopper.at \notin {"held", "cleanup"}
Work(kind) == worker.at = "taken" /\ worker.kind = kind /\ Lock
Then(at) == worker' = [worker EXCEPT !.at = at]

\* failRuntime(), its first region; emit: what is reported before
FailRuntime(emit, b) ==
  IF flag.state \in {"Failed", "Stopped"}
    THEN /\ Then("next") /\ book' = b /\ UNCHANGED flag
         /\ queue' = [queue EXCEPT !.events = @ \o emit]
    ELSE /\ Then("cleanup")
         /\ flag' = [flag EXCEPT !.ready = FALSE, !.accept = FALSE, !.state = "Failed"]
         /\ queue' = [ClearedQueue EXCEPT !.events = @ \o emit]
         /\ book' = ClearedBook

\* ... and the rest of it, under m_operation_mutex
FailRuntimeCleanup ==
  /\ worker.at = "cleanup" /\ OperationMutexFree
  /\ StopSubscriptions
  /\ queue' = [queue EXCEPT !.events = @ \o <<Err("fatal"), State("Failed")>>]
  /\ Then("next")
  /\ UNCHANGED <<load, flag, book, starter, stopper, writer, phone, log>>

Dispatch ==
  /\ Work("event")
  /\ log' = Append(log, worker.of)
  /\ \/ Then("next") /\ UNCHANGED <<flag, queue, book, faults>>
     \/ load.throws /\ MayFail /\ Fault /\ FailRuntime(<<>>, book)
  /\ UNCHANGED <<load, subs, starter, stopper, writer, phone>>

\* the event the removal of a notification is told by, unless it was never shown
RemovedIgnored(uid) ==
  LET rec == book.records[uid] IN load.cutoff /\ (~rec.known \/ rec.ignored \/ rec.unreported)

\* Mutant: the record outlives the notification.
RemovedForgetful(uid) ==
  /\ \E rest \in Others(book.pending, uid) :
       book' = [book EXCEPT !.pending = rest, !.queued = @ \ {uid},
                            !.active.removed = @ \/ book.active.uid = uid]
  /\ IF RemovedIgnored(uid) THEN UNCHANGED queue ELSE Emit([kind |-> "removed", of |-> uid])
  /\ UNCHANGED flag

Removed(uid) ==
  /\ \E rest \in Others(book.pending, uid) :
       book' = [records |-> [book.records EXCEPT ![uid] = NoRecord],
                pending |-> rest,
                queued |-> book.queued \ {uid},
                active |-> IF book.active.uid = uid THEN [book.active EXCEPT !.removed = TRUE] ELSE book.active]
  /\ IF RemovedIgnored(uid) THEN UNCHANGED queue ELSE Emit([kind |-> "removed", of |-> uid])
  /\ UNCHANGED flag

\* Mutant: a queued request is not seen.
MustAskAgain(uid) == ~book.records[uid].unavailable /\ book.active.uid # uid

\* an attribute request is due, unless one is queued or under way or was in vain
MustAsk(uid) ==
  ~book.records[uid].unavailable /\ uid \notin book.queued /\ book.active.uid # uid

Saturated == load.maximum # 0 /\ Len(book.pending) >= load.maximum

\* the requests that give way to a new one
Dropped == IF Saturated THEN {Head(book.pending)} ELSE {}

AddedOrUpdated(uid) ==
  IF MustAsk(uid)
    THEN /\ book' = [book EXCEPT
              !.records = [u \in Uids |-> IF u = uid THEN [@[u] EXCEPT !.known = TRUE]
                                          ELSE IF u \in Dropped THEN NoRecord ELSE @[u]],
              !.pending = Append(IF Saturated THEN Tail(@) ELSE @, uid),
              !.queued = (@ \ Dropped) \cup {uid}]
         /\ flag' = [flag EXCEPT !.backlog = Saturated]
         /\ IF Saturated /\ ~flag.backlog THEN Emit(Err("minor")) ELSE UNCHANGED queue
    ELSE /\ book' = [book EXCEPT !.records[uid].known = TRUE]
         /\ UNCHANGED <<flag, queue>>

\* processNotificationSourceValue()
NotificationSource ==
  /\ Work("packet") /\ worker.of.source = "notify" /\ flag.ready
  /\ LET v == worker.of.value
     IN \/ v.event = "unknown" /\ Then("next") /\ Emit(Err("minor")) /\ UNCHANGED <<flag, book>>
        \/ v.event = "malformed" /\ FailRuntime(<<>>, book)
        \/ v.event = "removed" /\ Then("next") /\ Removed(v.uid)
        \/ v.event \in {"added", "updated"} /\ Then("next") /\ AddedOrUpdated(v.uid)
  /\ UNCHANGED <<load, subs, starter, stopper, writer, phone, faults, log>>

\* a packet taken before stop() or a failure, or one that tells of a failure
PacketVoid ==
  /\ Work("packet") /\ (~flag.ready \/ worker.of.source = "gatt")
  /\ IF flag.ready THEN FailRuntime(<<>>, book) ELSE Then("next") /\ UNCHANGED <<flag, queue, book>>
  /\ UNCHANGED <<load, subs, starter, stopper, writer, phone, faults, log>>

\* Dmn_AncsDataSourceReassembler::consume(), by fragments
Consume(a, f) ==
  CASE f.first = a.seen \/ f.uid # a.uid -> "fatal"
    [] f.first # a.seen /\ f.uid = a.uid /\ ~f.text -> "unreadable"
    [] f.first # a.seen /\ f.uid = a.uid /\ f.text -> IF f.last THEN "complete" ELSE "more"

\* emitAttributesUnavailable() and completeActiveRequest()
Unavailable(uid, b) ==
  [b EXCEPT !.records[uid].unavailable = b.records[uid].known, !.active = NoRequest]

\* processDataSourceValue(), its first region
DataSource ==
  /\ Work("packet") /\ worker.of.source = "data" /\ flag.ready
  /\ LET f == worker.of.value
         a == book.active
         result == IF a = NoRequest THEN "none" ELSE Consume(a, f)
     IN \/ result = "none" /\ Then("next") /\ UNCHANGED <<flag, queue, book>>
        \/ result = "more" /\ Then("next") /\ UNCHANGED <<flag, queue>>
              /\ book' = [book EXCEPT !.active.seen = TRUE]
        \/ result = "unreadable" /\ Then("next") /\ UNCHANGED flag
              /\ book' = Unavailable(a.uid, book)
              /\ Emit([kind |-> "unavailable", of |-> a.uid])
        \/ result = "fatal" /\ FailRuntime(<<>>, book)
        \/ result = "complete" /\ UNCHANGED <<flag, queue, book>>
              /\ worker' = [worker EXCEPT !.at = "conclude", !.of = [uid |-> a.uid, removed |-> a.removed,
                                                                     date |-> f.date]]
  /\ UNCHANGED <<load, subs, starter, stopper, writer, phone, faults, log>>

\* isBeforeCutoff(): a date that is missing, malformed or too old
IsBeforeCutoff(date) == load.cutoff /\ date # "recent"

\* the rest of it, with the attributes of a complete response
DataSourceComplete ==
  /\ worker.at = "conclude"
  /\ LET uid == worker.of.uid
         rec == book.records[uid]
         ignored == IsBeforeCutoff(worker.of.date)
     IN IF worker.of.removed \/ ~rec.known
          THEN book' = [book EXCEPT !.active = NoRequest] /\ UNCHANGED queue
          ELSE /\ book' = [book EXCEPT !.active = NoRequest,
                             !.records[uid].ignored = ignored, !.records[uid].unreported = FALSE]
               /\ IF ignored THEN UNCHANGED queue
                  ELSE Emit([kind |-> IF rec.unreported THEN "added" ELSE "updated", of |-> uid])
  /\ Then("next")
  /\ UNCHANGED <<load, flag, subs, starter, stopper, writer, phone, faults, log>>

\* Mutant: the deadline of the answer is not set.
WriteResultUnacked ==
  /\ Work("result")
  /\ IF worker.of.ok THEN Then("next") /\ UNCHANGED <<flag, queue, book>> ELSE FailRuntime(<<>>, book)
  /\ UNCHANGED <<load, subs, starter, stopper, writer, phone, faults, log>>

\* a write result: acknowledgeControlPointWrite(), or the end of the session
WriteResult ==
  /\ Work("result")
  /\ IF worker.of.ok
       THEN /\ Then("next") /\ UNCHANGED <<flag, queue>>
            /\ book' = IF book.active.uid = worker.of.uid
                         THEN [book EXCEPT !.active.unwritten = FALSE] ELSE book
       ELSE FailRuntime(<<>>, book)
  /\ UNCHANGED <<load, subs, starter, stopper, writer, phone, faults, log>>

\* failTimedOutRequest(), if the request is still there
TimedOut ==
  /\ Work("timeout")
  /\ IF book.active # NoRequest /\ ~book.active.unwritten
       THEN FailRuntime(<<[kind |-> "unavailable", of |-> book.active.uid]>>, Unavailable(book.active.uid, book))
       ELSE Then("next") /\ UNCHANGED <<flag, queue, book>>
  /\ UNCHANGED <<load, subs, starter, stopper, writer, phone, faults, log>>

\* startNextRequest(), its first region
StartNextRequest ==
  /\ worker.at = "next"
  /\ IF flag.ready /\ book.active = NoRequest /\ book.pending # <<>>
       THEN LET uid == Head(book.pending)
                rec == book.records[uid]
                asks == rec.known /\ ~rec.unavailable
            IN /\ book' = [book EXCEPT !.pending = Tail(@), !.queued = @ \ {uid},
                             !.active = IF asks THEN [NoRequest EXCEPT !.uid = uid] ELSE @]
               /\ worker' = [worker EXCEPT !.at = IF asks THEN "request" ELSE "idle", !.of = [uid |-> uid]]
       ELSE Then("idle") /\ UNCHANGED book
  /\ UNCHANGED <<load, flag, queue, subs, starter, stopper, writer, phone, faults, log>>

QueueRequest ==
  /\ worker.at = "request"
  /\ queue' = IF flag.ready /\ ~flag.shutdown THEN [queue EXCEPT !.jobs = Append(@, worker.of.uid)] ELSE queue
  /\ Then("idle")
  /\ UNCHANGED <<load, flag, book, subs, starter, stopper, writer, phone, faults, log>>

-----------------------------------------------------------------------------
Init ==
  /\ load \in Workloads
  /\ flag = [state |-> "Stopped", ready |-> FALSE, accept |-> FALSE, shutdown |-> FALSE,
             cancel |-> FALSE, handler |-> FALSE, backlog |-> FALSE]
  /\ queue = [events |-> <<>>, gatt |-> <<>>, jobs |-> <<>>, results |-> <<>>]
  /\ book = ClearedBook
  /\ subs = {}
  /\ starter = [at |-> "idle", calls |-> 0]
  /\ stopper = [at |-> "idle", calls |-> 0, dying |-> FALSE]
  /\ worker = [at |-> "none", kind |-> None, of |-> NoRequest]
  /\ writer = [at |-> "none", uid |-> None, ok |-> TRUE]
  /\ phone = [script |-> load.script, air |-> <<>>]
  /\ faults = 0
  /\ log = <<>>

Starter == Resolve \/ Discover \/ SubscribeData \/ SubscribeNotification \/ StartReady
           \/ FailStartup \/ FailStartupCleanup
Stopper == StopClear \/ StopWorker \/ StopCleanup \/ StopShutdown \/ StopJoin
Writer == WriterTake \/ WriterBegin \/ WriterEnd \/ WriterExit
Worker == TakeEvent \/ TakePacket \/ TakeResult \/ TakeTimeout \/ WorkerExit
          \/ Dispatch \/ NotificationSource \/ PacketVoid \/ DataSource \/ DataSourceComplete
          \/ WriteResult \/ TimedOut \/ FailRuntimeCleanup \/ StartNextRequest \/ QueueRequest

Next ==
  \/ SetEventHandler \/ Start \/ Starter
  \/ Stop \/ Stopper \/ Destroy
  \/ PhoneNotifies \/ PhoneAnswers \/ Invalidated
  \/ Writer \/ Worker

\* the threads run on and GATT calls have deadlines; nobody has to call, the
\* phone need not send
Fairness == WF_vars(Starter) /\ WF_vars(Stopper) /\ WF_vars(Writer) /\ WF_vars(Worker) /\ WF_vars(PhoneAnswers)

Spec == Init /\ [][Next]_vars /\ Fairness
-----------------------------------------------------------------------------
\* The book of requests is consistent: the queue mirrors its index and names
\* each notification once, none that is active, removed or given up.
RequestsExact ==
  /\ book.queued = ToSet(book.pending) /\ Cardinality(book.queued) = Len(book.pending)
  /\ book.active.uid \notin book.queued
  /\ \A uid \in book.queued : book.records[uid].known /\ ~book.records[uid].unavailable
  /\ load.maximum # 0 => Len(book.pending) <= load.maximum

Positions(s, e) == {i \in DOMAIN s : s[i] = e}
Report(kind, uid) == [kind |-> kind, of |-> uid]

\* A sequence of events adds up: nothing of a notification before Ready, an
\* update only of one that has been reported and has not gone since.  (Under a
\* date cutoff the first report may be an update: not claimed.)
AddsUp(s) ==
  \A i \in DOMAIN s :
    /\ s[i].kind \in {"added", "updated", "removed", "unavailable"} =>
         \E j \in 1..i : s[j] = State("Ready") /\ \A k \in j..i : s[k] # State("Stopped")
    /\ s[i].kind = "updated" /\ ~load.cutoff =>
         \E j \in Positions(s, Report("added", s[i].of)) :
           j < i /\ \A k \in j..i : s[k] # Report("removed", s[i].of)

\* A stop() that succeeded left nothing behind: no subscription, no worker, and
\* the last the handler heard was Stopped.
StopQuiesces ==
  (stopper.at = "idle" /\ starter.at = "idle" /\ flag.state = "Stopped" /\ flag.shutdown) =>
    /\ subs = {} /\ worker.at = "none" /\ writer.at = "none" /\ queue.events = <<>>
    /\ Last(log) = State("Stopped")

\* What the application is told adds up, and a stop() that succeeded left nothing
\* behind.
AncsHonest == AddsUp(log) /\ StopQuiesces

\* In the end no request waits, for its answer or its deadline; no stop() is
\* under way; and a destructor has seen both threads end.
SessionProgress ==
  <>[](/\ book.active = NoRequest /\ stopper.at # "api"
       /\ stopper.at = "gone" => worker.at = "none" /\ writer.at = "none")

\* start() returns only after both subscriptions are ready: a session that is
\* Ready has them, and its packets are accepted.
ReadyListens ==
  (flag.state = "Ready" /\ starter.at = "idle" /\ stopper.at = "idle") => flag.accept /\ subs = {"data", "notify"}
=============================================================================
