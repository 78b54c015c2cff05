------------------------------- MODULE MCDbus -------------------------------
(***************************************************************************)
(* D-Bus: each behaviour is about the client (the variables of DbusClient) *)
(* or about the message bus facade.  The other stays in its initial state. *)
(***************************************************************************)
EXTENDS MCDbusClient

VARIABLES
  part,
  ioLoad, writer, out, sender, libdbus, bus, up, inp, getter, reader, ioClosing, foreign, log

ioVars == <<ioLoad, writer, out, sender, libdbus, bus, up, inp, getter, reader, ioClosing, foreign, log>>

Writers == {"w1", "w2", "w3", "w4"}
Size == ("w1" :> 1) @@ ("w2" :> 2) @@ ("w3" :> 1) @@ ("w4" :> 3)

\* writers contend for room; everything fails around two of them; signals of others
IoWorkloads ==
  { [writers |-> {"w1", "w2", "w3"}, foreign |-> 0, faults |-> FALSE, stops |-> {"out"}],
    [writers |-> {"w1", "w2", "w4"}, foreign |-> 0, faults |-> TRUE, stops |-> {}],
    [writers |-> {"w1", "w3"}, foreign |-> 1, faults |-> FALSE, stops |-> {"in"}] }

Io == INSTANCE DbusIo WITH
  Readers <- {"r1"}, MaxMessageBytes <- 2, MaxQueuedMessages <- 1, MaxQueuedBytes <- 2,
  Workloads <- IoWorkloads, load <- ioLoad, closing <- ioClosing

MCInit ==
  /\ part \in {"client", "io"} /\ Init /\ Io!Init
  /\ part # "client" => load = CHOOSE l \in Workloads : TRUE
  /\ part # "io" => ioLoad = CHOOSE l \in IoWorkloads : TRUE

MCNext ==
  \/ part = "client" /\ Next /\ UNCHANGED <<part, ioVars>>
  \/ part = "io" /\ Io!Next /\ UNCHANGED <<part, vars>>

ClientFairness ==
  /\ WF_vars(part = "client" /\ Dispatcher) /\ WF_vars(part = "client" /\ CallbackWorker)
  /\ WF_vars(part = "client" /\ (DrainSleep \/ DrainReturn \/ (drainer.at = "test" /\ DrainTest)))
  /\ WF_vars(part = "client" /\ flags.started /\ Shutdown)
  /\ WF_vars(part = "client" /\ \E r \in Requests :
       SubmitEncode(r) \/ SubmitSend(r) \/ SubmitNotify(r) \/ CancelCallEnd(r))
  /\ WF_vars(part = "client" /\ \E r \in Requests : Elapse(r))

IoFairness ==
  /\ WF_ioVars(part = "io" /\ Io!Sender) /\ WF_ioVars(part = "io" /\ Io!Getter)
  /\ WF_ioVars(part = "io" /\ \E w \in Writers : Io!Awake(w))
  /\ WF_ioVars(part = "io" /\ reader["r1"] = "awake" /\ Io!Read("r1"))
  /\ WF_ioVars(part = "io" /\ (Io!ShutdownDeadline \/ Io!ShutdownOutputEnd \/ Io!ShutdownInputEnd))

MCSpec == MCInit /\ [][MCNext]_<<part, vars, ioVars>> /\ ClientFairness /\ IoFairness
-----------------------------------------------------------------------------
\* submit(), cancel(), shutdown() and the dispatch worker: however a reply, a
\* deadline, a cancellation, a disconnection and shutdown() race for a call, its
\* promise is fulfilled once, m_in_flight counts exactly the calls admitted and
\* unanswered, and a value sent and echoed comes back as it was.
CallsExact == OneOutcome /\ InFlightExact /\ RoundTrip

\* The signal queue stays within both its limits, a subscription gets its
\* signals in order and once, and drainSignalCallbacks() succeeds only when the
\* callbacks of everything queued before it have returned.
SignalsExact == SignalsBounded /\ DrainFlushes

\* Dmn_DBus_Io: payloads are accepted in the order of the write() calls and read
\* in that order, none twice; both queues stay within their limits.
IoInOrder == Io!WritersInTurn /\ Io!InOrderBounded

\* Dmn_DBus_Io: a write() that waits for room returns, as room is made, the bus
\* goes or the output is shut down; and a read() once the input has ended.
IoReturns == Io!CallsReturn
=============================================================================
