----------------------------- MODULE DbusClient -----------------------------
(***************************************************************************)
(* Dmn_DbusClient: callers submit method calls and subscriptions, the      *)
(* dispatch worker completes, expires and fails them and admits signals,   *)
(* the callback worker delivers those, and shutdown() ends it all.  One    *)
(* step is one region under m_mutex or m_callbackMutex, or one claim of    *)
(* CallRequest::completed with what follows it at once.  A call is         *)
(* answered over libdbus and its bus daemon, which are external.           *)
(***************************************************************************)
EXTENDS DbusCodec, FiniteSets, TLC

CONSTANTS
  Calls,             \* method calls the callers may make
  Subs,              \* subscriptions they may make; each has its AddMatch call
  Arguments,         \* call -> argument lists it may be made with
  Match,             \* the criteria of each subscription
  Signals,           \* signals the bus may send; good: they decode under the limits
  MaxInFlight,       \* min(limits.max_in_flight_calls, limits.max_queued_commands)
  MaxQueuedCommands, \* limits.max_queued_commands
  MaxSignalMessages, MaxSignalBytes,
  Workloads          \* bounds: [subscribed, requests, arrivals, drains, outage, shutdown] of
                     \* one behaviour: the subscriptions it starts with, who calls, how
                     \* many signals come, what else may happen

VARIABLES
  load,       \* the workload
  caller,     \* request -> where its caller stands
  request,    \* request -> [arg, wire, completed, handle]; handle: request->pending
  link,       \* request -> state of the DBusPendingCall
  answers,    \* request -> results put in its promise
  inFlight,   \* m_in_flight
  pending,    \* m_pending
  late,       \* requests whose deadline has passed
  flags,      \* [accepting, connected, started, stopping, ready]
  dispatch,   \* dispatch worker: [at, why, batch, cur, result, bytes]
  closing,    \* shutdown(): [at, batch, cur]
  subs,       \* m_subscriptions
  signals,    \* m_signalQueue, a drain marker is Drain
  tally,      \* [bytes, dropped, droppedBytes, discarded, discardedBytes, arrived]
  worker,     \* callback worker: [at, item]
  drainer,    \* drainSignalCallbacks(): [at, before]
  delivered   \* deliveries the callbacks got, in order

callVars == <<load, caller, request, link, answers, inFlight, pending, late>>
signalVars == <<subs, signals, tally, worker, drainer, delivered>>
vars == <<callVars, flags, dispatch, closing, signalVars>>

Requests == Calls \cup Subs
MatchRule == <<Basic("s", 2)>>

\* the two conversions of the argument lists in use
Table(f(_), S) == FoldSet(LAMBDA x, t : (x :> f(x)) @@ t, <<>>, S)
Encoded == Table(EncodeArguments, {MatchRule} \cup UNION {Arguments[c] : c \in Calls})
Decoded == Table(DecodeArguments, {Encoded[a].out : a \in DOMAIN Encoded})

Drain == [sub |-> "drain", sig |-> 0, bytes |-> 0]
NoReq == "none"
NoResult == [kind |-> "none", values |-> <<>>]

\* a result is the values of a reply, or the kind of an error
Reply(vs) == [kind |-> "reply", values |-> vs]
Error(kind) == [kind |-> kind, values |-> <<>>]

Answer(r, res) == answers' = [answers EXCEPT ![r] = Append(@, res)]

\* Mutant: a call that was completed is completed again.
ClaimAgain(r, res) ==
  /\ request' = [request EXCEPT ![r].completed = TRUE]
  /\ inFlight' = inFlight - 1
  /\ Answer(r, res)

\* completed.exchange(true), the counter and the promise
Claim(r, res) ==
  IF request[r].completed THEN UNCHANGED <<request, inFlight, answers>>
  ELSE /\ request' = [request EXCEPT ![r].completed = TRUE]
       /\ inFlight' = inFlight - 1
       /\ Answer(r, res)

CancelPending(r) ==
  IF request[r].handle
    THEN /\ request' = [request EXCEPT ![r].handle = FALSE]
         /\ pending' = pending \ {r}
         /\ link' = [link EXCEPT ![r] = "cancelled"]
    ELSE UNCHANGED <<request, pending, link>>

-----------------------------------------------------------------------------
(* submit() *)

Goto(r, at) == caller' = [caller EXCEPT ![r] = at]

\* validation and the first region; names and timeout are valid or not
SubmitBegin(r, valid, arg) ==
  /\ caller[r] = IF r \in Subs THEN "registered" ELSE "idle"
  /\ LET why == CASE ~valid -> "invalid"
                  [] valid /\ ~flags.accepting -> "shutdown"
                  [] valid /\ flags.accepting /\ ~flags.connected -> "notConnected"
                  [] valid /\ flags.accepting /\ flags.connected ->
                       IF inFlight >= MaxInFlight THEN "limit" ELSE "admitted"
     IN IF why = "admitted"
          THEN /\ inFlight' = inFlight + 1
               /\ request' = [request EXCEPT ![r].arg = arg]
               /\ Goto(r, "admitted") /\ UNCHANGED answers
          ELSE Answer(r, Error(why)) /\ Goto(r, "returned") /\ UNCHANGED <<request, inFlight>>
  /\ UNCHANGED <<load, link, pending, late, flags, dispatch, closing, signalVars>>

\* m_in_flight.fetch_sub(1) and finish()
Finish(r, res) ==
  /\ inFlight' = inFlight - 1
  /\ request' = [request EXCEPT ![r].completed = TRUE]
  /\ Answer(r, res)
  /\ Goto(r, "returned")

SubmitEncode(r) ==
  /\ caller[r] = "admitted"
  /\ LET e == Encoded[request[r].arg]
     IN IF e.err = "no"
          THEN /\ request' = [request EXCEPT ![r].wire = e.out]
               /\ Goto(r, "encoded") /\ UNCHANGED <<inFlight, answers>>
          ELSE Finish(r, Error(e.err))
  /\ UNCHANGED <<load, link, pending, late, flags, dispatch, closing, signalVars>>

SubmitSend(r) ==
  /\ caller[r] = "encoded"
  /\ IF flags.accepting /\ flags.connected
       THEN /\ request' = [request EXCEPT ![r].handle = TRUE]
            /\ pending' = pending \cup {r}
            /\ link' = [link EXCEPT ![r] = "open"]
            /\ Goto(r, "sent") /\ UNCHANGED <<inFlight, answers>>
       ELSE Finish(r, Error(IF flags.accepting THEN "transport" ELSE "shutdown"))
            /\ UNCHANGED <<pending, link>>
  /\ UNCHANGED <<load, late, flags, dispatch, closing, signalVars>>

\* a reply dispatched before this is never notified
SubmitNotify(r) ==
  /\ caller[r] = "sent"
  /\ link' = [link EXCEPT ![r] = IF @ = "open" THEN "notify" ELSE @]
  /\ Goto(r, "returned")
  /\ UNCHANGED <<load, request, answers, inFlight, pending, late, flags, dispatch, closing, signalVars>>

CancelCall(r) ==
  /\ caller[r] = "returned" /\ link[r] # "none" /\ r \in Calls
  /\ Claim(r, Error("cancelled"))
  /\ Goto(r, IF request[r].completed THEN "cancelled" ELSE "cancelling")
  /\ UNCHANGED <<load, link, pending, late, flags, dispatch, closing, signalVars>>

CancelCallEnd(r) ==
  /\ caller[r] = "cancelling"
  /\ CancelPending(r)
  /\ Goto(r, "cancelled")
  /\ UNCHANGED <<load, answers, inFlight, late, flags, dispatch, closing, signalVars>>

Elapse(r) ==
  /\ r \in pending /\ r \notin late
  /\ late' = late \cup {r}
  /\ UNCHANGED <<load, caller, request, link, answers, inFlight, pending, flags, dispatch, closing, signalVars>>

-----------------------------------------------------------------------------
(* Subscriptions *)

SubscribeBegin(s, valid) ==
  /\ caller[s] = "idle"
  /\ IF ~valid \/ Cardinality(subs) >= MaxQueuedCommands
       THEN /\ Answer(s, Error(IF valid THEN "limit" ELSE "invalid"))
            /\ Goto(s, "failed") /\ UNCHANGED subs
       ELSE /\ subs' = subs \cup {s}
            /\ Goto(s, "registered") /\ UNCHANGED answers
  /\ UNCHANGED <<load, request, link, inFlight, pending, late, flags, dispatch, closing,
                 signals, tally, worker, drainer, delivered>>

\* get() has returned; a failure or a reply with values undoes the registration
SubscribeEnd(s) ==
  /\ s \in Subs /\ caller[s] = "returned" /\ answers[s] # <<>>
  /\ IF answers[s][1] = Reply(<<>>)
       THEN Goto(s, "active") /\ UNCHANGED subs
       ELSE Goto(s, "failed") /\ subs' = subs \ {s}
  /\ UNCHANGED <<load, request, link, answers, inFlight, pending, late, flags, dispatch, closing,
                 signals, tally, worker, drainer, delivered>>

\* Dmn_DbusSubscription::cancel()
Cancel(s) ==
  /\ caller[s] = "active"
  /\ Goto(s, "cancelled")
  /\ subs' = subs \ {s}
  /\ UNCHANGED <<load, request, link, answers, inFlight, pending, late, flags, dispatch, closing,
                 signals, tally, worker, drainer, delivered>>

-----------------------------------------------------------------------------
(* The dispatch worker *)

DispatchReady ==
  /\ ~flags.ready
  /\ flags' = [flags EXCEPT !.ready = TRUE]
  /\ dispatch' = [dispatch EXCEPT !.at = "poll"]
  /\ UNCHANGED <<callVars, closing, signalVars>>

Poll == dispatch.at = "poll" /\ ~flags.stopping

\* an AddMatch is answered with no value or with an error, a call also with
\* its own arguments
Replies(r) ==
  {Error("remote"), Error("timeout")} \cup
  (IF r \in Subs THEN {Reply(<<>>), Reply(<<None>>)}
   ELSE LET d == Decoded[request[r].wire]
        IN {IF d.err = "no" THEN Reply(d.out) ELSE Error(d.err)})

\* pendingComplete() up to the end of its region
PendingComplete(r) ==
  /\ Poll /\ link[r] = "notify"
  /\ \E res \in Replies(r) : dispatch' = [dispatch EXCEPT !.at = "complete", !.cur = r, !.result = res]
  /\ pending' = pending \ {r}
  /\ request' = [request EXCEPT ![r].handle = FALSE]
  /\ link' = [link EXCEPT ![r] = "done"]
  /\ UNCHANGED <<load, caller, answers, inFlight, late, flags, closing, signalVars>>

PendingClaim ==
  /\ dispatch.at = "complete"
  /\ Claim(dispatch.cur, dispatch.result)
  /\ dispatch' = [dispatch EXCEPT !.at = "expire", !.cur = NoReq, !.result = NoResult]
  /\ UNCHANGED <<load, caller, link, pending, late, flags, closing, signalVars>>

\* libdbus completes a call nobody has asked to be notified of
ReplyUnnoticed(r) ==
  /\ Poll /\ link[r] = "open"
  /\ link' = [link EXCEPT ![r] = "replied"]
  /\ dispatch' = [dispatch EXCEPT !.at = "expire"]
  /\ UNCHANGED <<load, caller, request, answers, inFlight, pending, late, flags, closing, signalVars>>

\* Mutant: only the calls libdbus will notify of.
ExpireNotified ==
  LET due == {r \in pending \cap late : link[r] = "notify"}
  IN dispatch' = [dispatch EXCEPT !.why = "timeout", !.batch = due,
                    !.at = IF due = {} /\ flags.connected THEN "poll" ELSE "batch"]

\* expireCalls() takes its batch; with none the loop goes on at once
Expire ==
  dispatch' = [dispatch EXCEPT !.why = "timeout", !.batch = pending \cap late,
                 !.at = IF pending \cap late = {} /\ flags.connected THEN "poll" ELSE "batch"]

\* nothing to dispatch, or the dispatched message is dealt with
ExpireCalls ==
  /\ Poll \/ dispatch.at = "expire"
  /\ Expire
  /\ UNCHANGED <<callVars, flags, closing, signalVars>>

\* expireCalls() and failPendingOnDisconnect(), a request at a time
DispatchClaim(r) ==
  /\ dispatch.at = "batch" /\ dispatch.cur = NoReq /\ r \in dispatch.batch
  /\ Claim(r, Error(dispatch.why))
  /\ dispatch' = [dispatch EXCEPT !.cur = r]
  /\ UNCHANGED <<load, caller, link, pending, late, flags, closing, signalVars>>

DispatchCancel ==
  /\ dispatch.at = "batch" /\ dispatch.cur # NoReq
  /\ CancelPending(dispatch.cur)
  /\ dispatch' = [dispatch EXCEPT !.batch = @ \ {dispatch.cur}, !.cur = NoReq]
  /\ UNCHANGED <<load, caller, answers, inFlight, late, flags, closing, signalVars>>

BatchDone == dispatch.at = "batch" /\ dispatch.batch = {}

DispatchAgain ==
  /\ BatchDone /\ dispatch.why = "timeout" /\ flags.connected
  /\ dispatch' = [dispatch EXCEPT !.at = "poll"]
  /\ UNCHANGED <<callVars, flags, closing, signalVars>>

FailPendingOnDisconnect ==
  /\ BatchDone /\ dispatch.why = "timeout" /\ ~flags.connected
  /\ dispatch' = [dispatch EXCEPT !.why = "transport", !.batch = pending]
  /\ UNCHANGED <<callVars, flags, closing, signalVars>>

DispatchExit ==
  /\ \/ BatchDone /\ dispatch.why = "transport"
     \/ dispatch.at = "poll" /\ flags.stopping
  /\ dispatch' = [dispatch EXCEPT !.at = "stopped"]
  /\ UNCHANGED <<callVars, flags, closing, signalVars>>

Disconnect ==
  /\ load.outage /\ flags.connected /\ closing.at # "closed"
  /\ flags' = [flags EXCEPT !.connected = FALSE]
  /\ UNCHANGED <<callVars, dispatch, closing, signalVars>>

-----------------------------------------------------------------------------
(* Signals *)

UniqueNames == {":1", ":2"}

Matches(m, g) ==
  /\ m.name = g.name
  /\ m.sender \in UniqueNames => m.sender = g.sender
  /\ m.path # <<"any">> => m.path = g.path
  /\ m.space # <<"any">> => IsPrefix(m.space, g.path)

\* filterMessage(): the callbacks are copied under m_mutex
FilterMatch(g) ==
  /\ Poll /\ tally.arrived < load.arrivals
  /\ LET hits == {s \in subs : Matches(Match[s], g)}
     IN dispatch' = IF hits = {} \/ ~g.good THEN [dispatch EXCEPT !.at = "expire"]
                    ELSE [dispatch EXCEPT !.at = "push", !.batch = hits, !.bytes = g.bytes]
  /\ tally' = [tally EXCEPT !.arrived = @ + 1]
  /\ UNCHANGED <<callVars, flags, closing, subs, signals, worker, drainer, delivered>>

Queued == SelectSeq(signals, LAMBDA q : q # Drain)

\* nobody is between testing m_callbackCondition's predicate and sleeping
MutexFree == worker.at # "dozing" /\ drainer.at # "dozing"

NotifyOne ==
  IF worker.at = "asleep"
    THEN worker' = [worker EXCEPT !.at = "test"] /\ UNCHANGED drainer
    ELSE UNCHANGED worker
         /\ drainer' = [drainer EXCEPT !.at = IF @ = "asleep" THEN "test" ELSE @]

\* all deliveries of one signal fit, or none is queued
Admit(n, bytes) ==
  /\ n <= MaxSignalMessages - Len(Queued)
  /\ bytes <= (MaxSignalBytes - tally.bytes) \div n

\* the callbacks of one signal are queued in the order of the map, any
FilterPush ==
  /\ dispatch.at = "push" /\ MutexFree
  /\ LET n == Cardinality(dispatch.batch)
         b == dispatch.bytes
     IN IF Admit(n, b)
          THEN /\ \E order \in SetToSeqs(dispatch.batch) :
                    signals' = signals \o [i \in 1..n |-> [sub |-> order[i], sig |-> tally.arrived, bytes |-> b]]
               /\ tally' = [tally EXCEPT !.bytes = @ + n * b]
               /\ NotifyOne
          ELSE /\ tally' = [tally EXCEPT !.dropped = @ + 1, !.droppedBytes = @ + b]
               /\ UNCHANGED <<signals, worker, drainer>>
  /\ dispatch' = [dispatch EXCEPT !.at = "expire", !.batch = {}, !.bytes = 0]
  /\ UNCHANGED <<callVars, flags, closing, subs, delivered>>

\* the callback worker tests its predicate and either sleeps, ends or takes one
CallbackTest ==
  /\ worker.at = "test" /\ drainer.at # "dozing"
  /\ CASE flags.stopping ->
            /\ worker' = [worker EXCEPT !.at = "stopped"]
            /\ tally' = [tally EXCEPT !.discarded = @ + Len(Queued),
                                      !.discardedBytes = @ + tally.bytes, !.bytes = 0]
            /\ signals' = <<>>
            /\ drainer' = [drainer EXCEPT !.at =
                             IF Drain \in ToSet(signals) THEN "answered" ELSE @]
       [] ~flags.stopping /\ signals = <<>> ->
            worker' = [worker EXCEPT !.at = "dozing"] /\ UNCHANGED <<tally, signals, drainer>>
       [] ~flags.stopping /\ signals # <<>> ->
            /\ worker' = [at |-> "holding", item |-> Head(signals)]
            /\ signals' = Tail(signals)
            /\ tally' = [tally EXCEPT !.bytes = @ - Head(signals).bytes]
            /\ drainer' = [drainer EXCEPT !.at = IF @ = "asleep" THEN "test" ELSE @]
  /\ UNCHANGED <<callVars, flags, dispatch, closing, subs, delivered>>

CallbackSleep ==
  /\ worker.at = "dozing"
  /\ worker' = [worker EXCEPT !.at = "asleep"]
  /\ UNCHANGED <<callVars, flags, dispatch, closing, subs, signals, tally, drainer, delivered>>

\* a marker ends a drain; a callback that throws is reported like one that returns
CallbackRun ==
  /\ worker.at = "holding"
  /\ worker' = [worker EXCEPT !.at = "test"]
  /\ IF worker.item = Drain
       THEN drainer' = [drainer EXCEPT !.at = "answered"] /\ UNCHANGED delivered
       ELSE delivered' = Append(delivered, worker.item) /\ UNCHANGED drainer
  /\ UNCHANGED <<callVars, flags, dispatch, closing, subs, signals, tally>>

\* Mutant: the marker of a drain goes before the queued signals.
MarkerFirst == <<Drain>> \o signals

WithMarker == Append(signals, Drain)

DrainTest ==
  /\ drainer.at = "test" \/ (drainer.at = "no" /\ load.drains)
  /\ worker.at # "dozing"
  /\ CASE flags.stopping ->
            drainer' = [drainer EXCEPT !.at = "refused"] /\ UNCHANGED <<signals, worker>>
       [] ~flags.stopping /\ Len(Queued) >= MaxSignalMessages ->
            drainer' = [drainer EXCEPT !.at = "dozing"] /\ UNCHANGED <<signals, worker>>
       [] ~flags.stopping /\ Len(Queued) < MaxSignalMessages ->
            /\ drainer' = [at |-> "waiting", before |-> ToSet(Queued) \cup
                             (IF worker.at = "holding" THEN {worker.item} ELSE {})]
            /\ signals' = WithMarker
            /\ worker' = [worker EXCEPT !.at = IF @ = "asleep" THEN "test" ELSE @]
  /\ UNCHANGED <<callVars, flags, dispatch, closing, subs, tally, delivered>>

DrainSleep ==
  /\ drainer.at = "dozing"
  /\ drainer' = [drainer EXCEPT !.at = "asleep"]
  /\ UNCHANGED <<callVars, flags, dispatch, closing, subs, signals, tally, worker, delivered>>

DrainReturn ==
  /\ drainer.at = "answered"
  /\ drainer' = [drainer EXCEPT !.at = IF flags.stopping THEN "refused" ELSE "drained"]
  /\ UNCHANGED <<callVars, flags, dispatch, closing, subs, signals, tally, worker, delivered>>

-----------------------------------------------------------------------------
(* shutdown() *)

ShutdownBegin ==
  /\ ~flags.started /\ flags.ready /\ load.shutdown
  /\ flags' = [flags EXCEPT !.started = TRUE, !.accepting = FALSE]
  /\ closing' = [at |-> "batch", batch |-> pending, cur |-> NoReq]
  /\ UNCHANGED <<callVars, dispatch, signalVars>>

ShutdownClaim(r) ==
  /\ closing.at = "batch" /\ closing.cur = NoReq /\ r \in closing.batch
  /\ Claim(r, Error("shutdown"))
  /\ closing' = [closing EXCEPT !.cur = r]
  /\ UNCHANGED <<load, caller, link, pending, late, flags, dispatch, signalVars>>

ShutdownCancel ==
  /\ closing.at = "batch" /\ closing.cur # NoReq
  /\ CancelPending(closing.cur)
  /\ closing' = [closing EXCEPT !.batch = @ \ {closing.cur}, !.cur = NoReq]
  /\ UNCHANGED <<load, caller, answers, inFlight, late, flags, dispatch, signalVars>>

\* the wait for m_pending ends by its predicate or its timeout; m_stopping and
\* the notification, without m_callbackMutex
ShutdownStop ==
  /\ closing.at = "batch" /\ closing.batch = {}
  /\ flags' = [flags EXCEPT !.stopping = TRUE]
  /\ closing' = [closing EXCEPT !.at = "join"]
  /\ worker' = [worker EXCEPT !.at = IF @ = "asleep" THEN "test" ELSE @]
  /\ drainer' = [drainer EXCEPT !.at = IF @ = "asleep" THEN "test" ELSE @]
  /\ UNCHANGED <<callVars, dispatch, subs, signals, tally, delivered>>

ShutdownEnd ==
  /\ closing.at = "join" /\ dispatch.at = "stopped" /\ worker.at = "stopped"
  /\ closing' = [closing EXCEPT !.at = "closed"]
  /\ subs' = {}
  /\ request' = [r \in Requests |-> [request[r] EXCEPT !.handle = @ /\ r \notin pending]]
  /\ pending' = {}
  /\ flags' = [flags EXCEPT !.connected = FALSE]
  /\ UNCHANGED <<load, caller, link, answers, inFlight, late, dispatch, signals, tally, worker, drainer, delivered>>

-----------------------------------------------------------------------------
Init ==
  /\ load \in Workloads
  /\ subs = load.subscribed
  /\ caller = [r \in Requests |-> IF r \in subs THEN "active" ELSE "idle"]
  /\ request = [r \in Requests |-> [arg |-> <<>>, wire |-> <<>>, completed |-> r \in subs, handle |-> FALSE]]
  /\ link = [r \in Requests |-> IF r \in subs THEN "done" ELSE "none"]
  /\ answers = [r \in Requests |-> IF r \in subs THEN <<Reply(<<>>)>> ELSE <<>>]
  /\ inFlight = 0 /\ pending = {} /\ late = {}
  /\ flags = [accepting |-> TRUE, connected |-> TRUE, started |-> FALSE, stopping |-> FALSE,
              ready |-> subs # {}]
  /\ dispatch = [at |-> IF flags.ready THEN "poll" ELSE "start", why |-> "timeout", batch |-> {}, cur |-> NoReq, result |-> NoResult,
                 bytes |-> 0]
  /\ closing = [at |-> "no", batch |-> {}, cur |-> NoReq]
  /\ signals = <<>> /\ delivered = <<>>
  /\ tally = [bytes |-> 0, dropped |-> 0, droppedBytes |-> 0, discarded |-> 0,
              discardedBytes |-> 0, arrived |-> 0]
  /\ worker = [at |-> "test", item |-> Drain]
  /\ drainer = [at |-> "no", before |-> {}]

\* the constructor returns when the dispatch worker is ready
Submit(r) ==
  \/ \E valid \in BOOLEAN : flags.ready /\ r \in load.requests /\
       \/ r \in Subs /\ (SubscribeBegin(r, valid) \/ (valid /\ SubmitBegin(r, valid, MatchRule)))
       \/ r \in Calls /\ \E arg \in Arguments[r] : SubmitBegin(r, valid, arg)
  \/ SubmitEncode(r) \/ SubmitSend(r) \/ SubmitNotify(r)

Dispatcher ==
  \/ DispatchReady \/ PendingClaim \/ ExpireCalls \/ DispatchCancel
  \/ DispatchAgain \/ FailPendingOnDisconnect \/ DispatchExit \/ FilterPush
  \/ \E r \in Requests : PendingComplete(r) \/ ReplyUnnoticed(r) \/ DispatchClaim(r)
  \/ \E g \in Signals : FilterMatch(g)

CallbackWorker == CallbackTest \/ CallbackSleep \/ CallbackRun

Drainer == DrainTest \/ DrainSleep \/ DrainReturn

Shutdown ==
  ShutdownBegin \/ ShutdownCancel \/ ShutdownStop \/ ShutdownEnd \/ \E r \in Requests : ShutdownClaim(r)

Next ==
  \/ \E r \in Requests : Submit(r) \/ CancelCall(r) \/ CancelCallEnd(r) \/ Elapse(r)
  \/ \E s \in Subs : SubscribeEnd(s) \/ Cancel(s)
  \/ Dispatcher \/ CallbackWorker \/ Drainer \/ Shutdown \/ Disconnect

\* every thread runs on, time passes; nobody has to call, cancel or shut down
Fairness ==
  /\ WF_vars(Dispatcher) /\ WF_vars(CallbackWorker)
  /\ WF_vars(DrainSleep \/ DrainReturn \/ (drainer.at = "test" /\ DrainTest))
  /\ WF_vars(flags.started /\ Shutdown)
  /\ \A r \in Requests : /\ WF_vars(SubmitEncode(r) \/ SubmitSend(r) \/ SubmitNotify(r))
                         /\ WF_vars(Elapse(r)) /\ WF_vars(CancelCallEnd(r))

Spec == Init /\ [][Next]_vars /\ Fairness
-----------------------------------------------------------------------------
\* However a reply, a deadline, cancel(), a disconnection and shutdown() race
\* for a call, its promise is fulfilled once.
OneOutcome == \A r \in Requests : Len(answers[r]) <= 1

Admitted(r) == caller[r] \in {"admitted", "encoded"} \/ link[r] # "none"

\* m_in_flight, which admits calls, counts those admitted and unanswered
InFlightExact == inFlight = Cardinality({r \in Requests : Admitted(r) /\ ~request[r].completed})

\* What is sent and comes back under the limits is the value that was sent:
\* encodeValue() and decodeValue() agree on signatures, limits and nesting.
RoundTrip ==
  \A r \in Calls : answers[r] # <<>> =>
    CASE answers[r][1].kind = "reply" -> answers[r][1].values = request[r].arg
      [] answers[r][1].kind \in {"limit", "codec"} -> request[r].wire = <<>>
      [] OTHER -> TRUE

RECURSIVE SumBytes(_)
SumBytes(q) == IF q = <<>> THEN 0 ELSE Head(q).bytes + SumBytes(Tail(q))

\* The queue stays within both limits, its byte count is exact, and a
\* subscription gets the signals it was sent in order, none twice.
SignalsBounded ==
  /\ Len(Queued) <= MaxSignalMessages
  /\ tally.bytes = SumBytes(signals) /\ tally.bytes <= MaxSignalBytes
  /\ LET all == delivered \o (IF worker.at = "holding" THEN <<worker.item>> ELSE <<>>) \o signals
     IN \A i, j \in DOMAIN all : i < j /\ all[i].sub = all[j].sub /\ all[i] # Drain => all[i].sig < all[j].sig

\* drainSignalCallbacks() succeeds only when the callbacks of everything queued
\* before it have returned.
DrainFlushes == drainer.at = "drained" => drainer.before \subseteq ToSet(delivered)

\* Every call that was admitted is answered in the end: by its reply, its deadline, the
\* disconnection or shutdown(), even when its reply came unnoticed.
CallAnswered == <>[](\A r \in Requests : Admitted(r) => answers[r] # <<>>)
=============================================================================
