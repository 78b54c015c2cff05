------------------------------- MODULE DbusIo -------------------------------
(***************************************************************************)
(* Dmn_DbusOutput and Dmn_DbusInput: writers queue payloads for a send     *)
(* worker, the bus carries them as signals to the input connection, whose  *)
(* dispatch worker queues them for readers.  A step is one region under    *)
(* the mutex of a side; a thread waiting on a condition variable is        *)
(* "asleep" until it is notified.                                          *)
(***************************************************************************)
EXTENDS Integers, Sequences, SequencesExt, FiniteSets, TLC

CONSTANTS
  Writers,          \* each makes one write() of a payload that bears its name
  Readers,          \* each makes one read()
  Size,             \* writer -> bytes of its payload
  MaxMessageBytes, MaxQueuedMessages, MaxQueuedBytes,
  Workloads         \* bounds: [writers, foreign, faults, stops] of one behaviour: who writes,
                    \* how many malformed signals others send, whether connections and
                    \* memory fail, which sides are shut down

VARIABLES
  load,      \* the workload
  writer,    \* writer -> [at, ticket]
  out,       \* output side: [queue, bytes, next, serving, stopping, error, late]
  sender,    \* send worker: idle, send, pump, stopped or failed
  libdbus,   \* messages queued to libdbus and not yet sent
  bus,       \* messages under way to the input connection
  up,        \* [out, in]: the connections that stand
  inp,       \* input side: [queue, bytes, stopping, error, counted]
  getter,    \* dispatch worker: [at, item]
  reader,    \* reader -> its state
  closing,   \* [out, in]: no, begun or done
  foreign,   \* signals of others so far
  log        \* [called, accepted, read]: the history of both ends

outVars == <<writer, out, sender>>
inVars == <<inp, getter, reader>>
vars == <<load, outVars, libdbus, bus, up, inVars, closing, foreign, log>>

Bytes(q) == FoldLeft(LAMBDA n, w : n + Size[w], 0, q)

-----------------------------------------------------------------------------
(* Dmn_DbusOutput *)

HasSpace(w) == Len(out.queue) < MaxQueuedMessages /\ Size[w] <= MaxQueuedBytes - out.bytes

Refused(w) ==
  CASE out.error -> "failed"
    [] ~out.error /\ out.stopping -> "cancelled"
    [] OTHER -> "written"

Woken(ws) == [w \in Writers |-> IF ws[w].at = "asleep" THEN [ws[w] EXCEPT !.at = "awake"] ELSE ws[w]]

\* the end of write(): an error, a shutdown or the queue
Conclude(w, o, ws) ==
  /\ writer' = [ws EXCEPT ![w].at = Refused(w)]
  /\ IF Refused(w) = "written"
       THEN /\ out' = [o EXCEPT !.queue = Append(@, w), !.bytes = @ + Size[w]]
            /\ log' = [log EXCEPT !.accepted = Append(@, w)]
       ELSE out' = o /\ UNCHANGED log

\* Mutant: a writer that finds room does not queue behind those that wait.
BusyOnly(w) == ~HasSpace(w)

\* others wait already, or there is no room
MustWait(w) == out.next # out.serving \/ ~HasSpace(w)

Write(w) ==
  /\ writer[w].at = "idle" /\ w \in load.writers
  /\ CASE Size[w] > MaxMessageBytes ->
            writer' = [writer EXCEPT ![w].at = "tooBig"] /\ UNCHANGED <<out, log>>
       [] Size[w] <= MaxMessageBytes /\ ~out.stopping /\ ~out.error /\ MustWait(w) ->
            /\ writer' = [writer EXCEPT ![w] = [at |-> "asleep", ticket |-> out.next]]
            /\ out' = [out EXCEPT !.next = @ + 1]
            /\ log' = [log EXCEPT !.called = Append(@, w)]
       [] OTHER ->
            /\ writer' = [writer EXCEPT ![w].at = Refused(w)]
            /\ out' = IF Refused(w) = "written"
                        THEN [out EXCEPT !.queue = Append(@, w), !.bytes = @ + Size[w]] ELSE out
            /\ log' = [log EXCEPT !.called = Append(@, w),
                         !.accepted = IF Refused(w) = "written" THEN Append(@, w) ELSE @]
  /\ UNCHANGED <<load, sender, libdbus, bus, up, inVars, closing, foreign>>

\* m_space's predicate after a notification
Awake(w) ==
  /\ writer[w].at = "awake"
  /\ IF out.stopping \/ out.error \/ (writer[w].ticket = out.serving /\ HasSpace(w))
       THEN Conclude(w, [out EXCEPT !.serving = @ + 1], Woken(writer))
       ELSE writer' = [writer EXCEPT ![w].at = "asleep"] /\ UNCHANGED <<out, log>>
  /\ UNCHANGED <<load, sender, libdbus, bus, up, inVars, closing, foreign>>

\* setWorkerError()
SetWorkerError == out' = [out EXCEPT !.error = TRUE] /\ writer' = Woken(writer)

SendTake ==
  /\ sender = "idle"
  /\ sender' = CASE closing.out # "no" /\ (out.queue = <<>> \/ out.late) -> "stopped"
                 [] ~(closing.out # "no" /\ (out.queue = <<>> \/ out.late)) ->
                      IF out.queue # <<>> /\ Bytes(libdbus) < MaxQueuedBytes THEN "send" ELSE "pump"
  /\ UNCHANGED <<load, writer, out, libdbus, bus, up, inVars, closing, foreign, log>>

\* libdbus takes the front message, which then leaves the queue
SendQueue ==
  /\ sender = "send"
  /\ libdbus' = Append(libdbus, Head(out.queue))
  /\ out' = [out EXCEPT !.queue = Tail(@), !.bytes = @ - Size[Head(out.queue)]]
  /\ writer' = Woken(writer)
  /\ sender' = "pump"
  /\ UNCHANGED <<load, bus, up, inVars, closing, foreign, log>>

\* no memory for the signal
SendFails ==
  /\ sender = "send" /\ load.faults
  /\ SetWorkerError
  /\ sender' = "failed"
  /\ UNCHANGED <<load, libdbus, bus, up, inVars, closing, foreign, log>>

\* dbus_connection_read_write_dispatch() writes what the socket takes
SendPump ==
  /\ sender = "pump"
  /\ IF up.out
       THEN /\ \E n \in 0..Len(libdbus) :
                 /\ n > 0 \/ libdbus = <<>>
                 /\ bus' = IF up.in THEN bus \o SubSeq(libdbus, 1, n) ELSE bus
                 /\ libdbus' = SubSeq(libdbus, n + 1, Len(libdbus))
            /\ sender' = "idle" /\ UNCHANGED <<out, writer>>
       ELSE SetWorkerError /\ sender' = "failed" /\ UNCHANGED <<libdbus, bus>>
  /\ UNCHANGED <<load, up, inVars, closing, foreign, log>>

ShutdownOutput ==
  /\ closing.out = "no" /\ "out" \in load.stops
  /\ closing' = [closing EXCEPT !.out = "begun"]
  /\ out' = [out EXCEPT !.stopping = TRUE]
  /\ writer' = Woken(writer)
  /\ UNCHANGED <<load, sender, libdbus, bus, up, inVars, foreign, log>>

\* one second has passed
ShutdownDeadline ==
  /\ closing.out = "begun" /\ ~out.late
  /\ out' = [out EXCEPT !.late = TRUE]
  /\ UNCHANGED <<load, writer, sender, libdbus, bus, up, inVars, closing, foreign, log>>

\* the worker has been joined; what is left is counted and discarded
ShutdownOutputEnd ==
  /\ closing.out = "begun" /\ sender \in {"stopped", "failed"}
  /\ closing' = [closing EXCEPT !.out = "done"]
  /\ libdbus' = <<>>
  /\ up' = [up EXCEPT !.out = FALSE]
  /\ UNCHANGED <<load, outVars, bus, inVars, foreign, log>>

-----------------------------------------------------------------------------
(* Dmn_DbusInput *)

WokenReaders == [r \in Readers |-> IF reader[r] = "asleep" THEN "awake" ELSE reader[r]]

\* m_ready.notify_one()
OneWoken(rs) ==
  IF \E r \in Readers : reader[r] = "asleep"
    THEN \E r \in Readers : reader[r] = "asleep" /\ rs = [reader EXCEPT ![r] = "awake"]
    ELSE rs = reader

\* the kinds of signals handleMessage() counts and leaves
Counted(why) == inp' = [inp EXCEPT !.counted[why] = @ + 1]

\* handleMessage() up to its second region
HandleMessage ==
  /\ getter.at = "poll" /\ closing.in = "no" /\ bus # <<>> /\ up.in
  /\ LET w == Head(bus)
         full == Len(inp.queue) >= MaxQueuedMessages \/ Size[w] > MaxQueuedBytes - inp.bytes
     IN CASE inp.stopping -> UNCHANGED <<inp, getter>>
          [] ~inp.stopping /\ full -> Counted("dropped") /\ UNCHANGED getter
          [] ~inp.stopping /\ ~full -> getter' = [at |-> "push", item |-> w] /\ UNCHANGED inp
  /\ bus' = Tail(bus)
  /\ UNCHANGED <<load, outVars, libdbus, up, reader, closing, foreign, log>>

Push(w) == inp' = [inp EXCEPT !.queue = Append(@, w), !.bytes = @ + Size[w]]

MessagePush ==
  /\ getter.at = "push"
  /\ getter' = [getter EXCEPT !.at = "poll"]
  /\ \/ ~inp.stopping
        /\ Push(getter.item)
        /\ OneWoken(reader')
     \/ inp.stopping /\ UNCHANGED <<inp, reader>>
     \/ load.faults /\ Counted("allocation") /\ UNCHANGED reader
  /\ UNCHANGED <<load, outVars, libdbus, bus, up, closing, foreign, log>>

\* a signal of somebody else: malformed or oversized
ForeignSignal(why) ==
  /\ getter.at = "poll" /\ closing.in = "no" /\ up.in /\ foreign < load.foreign
  /\ foreign' = foreign + 1
  /\ Counted(why)
  /\ UNCHANGED <<load, outVars, libdbus, bus, up, getter, reader, closing, log>>

\* Mutant: the readers are not woken.
SetTerminalErrorQuietly == inp' = [inp EXCEPT !.error = TRUE] /\ UNCHANGED reader

SetTerminalError == inp' = [inp EXCEPT !.error = TRUE] /\ reader' = WokenReaders

DispatchExit ==
  /\ getter.at = "poll"
  /\ getter' = [getter EXCEPT !.at = "stopped"]
  /\ \/ closing.in # "no" /\ UNCHANGED <<inp, reader>>
     \/ closing.in = "no" /\ ~up.in /\ SetTerminalError
  /\ UNCHANGED <<load, outVars, libdbus, bus, up, closing, foreign, log>>

Read(r) ==
  /\ reader[r] \in {"idle", "awake"}
  /\ CASE inp.queue # <<>> ->
            /\ reader' = [reader EXCEPT ![r] = "got"]
            /\ inp' = [inp EXCEPT !.queue = Tail(@), !.bytes = @ - Size[Head(inp.queue)]]
            /\ log' = [log EXCEPT !.read = Append(@, Head(inp.queue))]
       [] inp.queue = <<>> ->
            /\ reader' = [reader EXCEPT ![r] = IF inp.error THEN "failed"
                            ELSE IF inp.stopping THEN "cancelled" ELSE "asleep"]
            /\ UNCHANGED <<inp, log>>
  /\ UNCHANGED <<load, outVars, libdbus, bus, up, getter, closing, foreign>>

ShutdownInput ==
  /\ closing.in = "no" /\ "in" \in load.stops
  /\ closing' = [closing EXCEPT !.in = "begun"]
  /\ inp' = [inp EXCEPT !.stopping = TRUE]
  /\ reader' = WokenReaders
  /\ UNCHANGED <<load, outVars, libdbus, bus, up, getter, foreign, log>>

ShutdownInputEnd ==
  /\ closing.in = "begun" /\ getter.at = "stopped"
  /\ closing' = [closing EXCEPT !.in = "done"]
  /\ up' = [up EXCEPT !.in = FALSE]
  /\ bus' = <<>>
  /\ UNCHANGED <<load, outVars, libdbus, inVars, foreign, log>>

\* the bus daemon goes, and takes what is under way to a side with it
Disconnect(side) ==
  /\ up[side] /\ load.faults
  /\ up' = [up EXCEPT ![side] = FALSE]
  /\ bus' = IF side = "in" THEN <<>> ELSE bus
  /\ UNCHANGED <<load, outVars, libdbus, inVars, closing, foreign, log>>

-----------------------------------------------------------------------------
Init ==
  /\ load \in Workloads
  /\ writer = [w \in Writers |-> [at |-> "idle", ticket |-> 0]]
  /\ out = [queue |-> <<>>, bytes |-> 0, next |-> 0, serving |-> 0, stopping |-> FALSE,
            error |-> FALSE, late |-> FALSE]
  /\ sender = "idle" /\ libdbus = <<>> /\ bus = <<>>
  /\ up = [out |-> TRUE, in |-> TRUE]
  /\ inp = [queue |-> <<>>, bytes |-> 0, stopping |-> FALSE, error |-> FALSE,
            counted |-> [dropped |-> 0, allocation |-> 0, malformed |-> 0, oversized |-> 0]]
  /\ getter = [at |-> "poll", item |-> CHOOSE w \in Writers : TRUE]
  /\ reader = [r \in Readers |-> "idle"]
  /\ closing = [out |-> "no", in |-> "no"]
  /\ foreign = 0
  /\ log = [called |-> <<>>, accepted |-> <<>>, read |-> <<>>]

Sender == SendTake \/ SendQueue \/ SendFails \/ SendPump

Getter == HandleMessage \/ MessagePush \/ DispatchExit

Next ==
  \/ \E w \in Writers : Write(w) \/ Awake(w)
  \/ \E r \in Readers : Read(r)
  \/ Sender \/ Getter
  \/ \E why \in {"malformed", "oversized"} : ForeignSignal(why)
  \/ ShutdownOutput \/ ShutdownDeadline \/ ShutdownOutputEnd
  \/ ShutdownInput \/ ShutdownInputEnd
  \/ \E side \in {"out", "in"} : Disconnect(side)

\* the workers and the woken threads run on; nobody has to call or shut down
Fairness ==
  /\ WF_vars(Sender) /\ WF_vars(Getter)
  /\ \A w \in Writers : WF_vars(Awake(w))
  /\ \A r \in Readers : WF_vars(reader[r] = "awake" /\ Read(r))
  /\ WF_vars(ShutdownDeadline) /\ WF_vars(ShutdownOutputEnd) /\ WF_vars(ShutdownInputEnd)

Spec == Init /\ [][Next]_vars /\ Fairness
-----------------------------------------------------------------------------
IsSubsequence(s, t) ==
  \E f \in [DOMAIN s -> DOMAIN t] :
    /\ \A i \in DOMAIN s : s[i] = t[f[i]]
    /\ \A i, j \in DOMAIN s : i < j => f[i] < f[j]

\* The ticket queue keeps writers in turn: payloads are accepted in the order
\* of the write() calls, none overtakes a writer that waits for room.
WritersInTurn == IsSubsequence(log.accepted, log.called)

\* Whatever is dropped on the way, readers get accepted payloads in order and
\* none twice; both queues stay within both limits and know their bytes.
InOrderBounded ==
  /\ IsSubsequence(log.read \o inp.queue, log.accepted)
  /\ out.bytes = Bytes(out.queue) /\ inp.bytes = Bytes(inp.queue)
  /\ \A side \in {out, inp} : side.bytes <= MaxQueuedBytes /\ Len(side.queue) <= MaxQueuedMessages

\* In the end no write() waits for room, as room is made, the bus goes, or
\* shutdown() comes; the shutdown of the output ends; and no read() waits on an
\* input that has failed or is shut down.
CallsReturn ==
  <>[](/\ \A w \in Writers : writer[w].at \notin {"asleep", "awake"}
       /\ closing.out # "begun"
       /\ \A r \in Readers : reader[r] = "asleep" => ~inp.error /\ ~inp.stopping)
=============================================================================
