-------------------------------- MODULE DMesg --------------------------------
(***************************************************************************)
(* Dmn_DMesg and its handlers (include/dmn-dmesg.hpp, src/dmn-dmesg.cpp):  *)
(* a publisher that numbers the messages of every topic, detects writers   *)
(* that are out of date, and keeps for every handler a counter and a       *)
(* conflict state that the handler mirrors.                                *)
(*                                                                         *)
(* The publisher and every handler are serial executors (Dmn_Async, see    *)
(* SerialExecutor): each is a FIFO of tasks and runs its first task as one *)
(* step, except that a handler's task may wait for a task it has given to  *)
(* the publisher.  Application threads call the handlers and wait.         *)
(*                                                                         *)
(* A message is its ghost identity, topic, running counter, source and     *)
(* three flags; timestamps and bodies are left out.  The 64-bit counters   *)
(* do not wrap within the bounds.                                          *)
(***************************************************************************)
EXTENDS Naturals, Sequences, FiniteSets, FiniteSetsExt

CONSTANTS
  Handlers, Threads, Topics,
  NoMsg,          \* no message
  SysTopics,      \* the topics of messages of type sys
  IncludeSys,     \* handlers with Handler_IncludeSys
  TopicsOf,       \* what a handler's topic (or no topic filter) matches
  FilterOf,       \* what a handler's filter function lets through
  AsyncProcess,   \* handlers with an async-process function
  InitiallyOpen,  \* handlers already open, with no message written
  Writers,        \* handlers the application writes with
  Calls,          \* the calls the threads make: subset of CallNames
  Kinds,          \* the messages written: plain, force, or marked conflict
  Modes,          \* how a write waits: async, block, or check
  CounterValues,  \* arguments of setTopicRunningCounter()
  MaxCalls        \* bound on the number of calls

CallNames == {"open", "close", "write", "resolve", "reset", "setcounter"}

ASSUME DMesgAssumption ==
  /\ NoMsg \notin Topics
  /\ SysTopics \subseteq Topics
  /\ TopicsOf \in [Handlers -> SUBSET Topics]
  /\ FilterOf \in [Handlers -> SUBSET Topics]
  /\ IncludeSys \cup AsyncProcess \cup InitiallyOpen \cup Writers \subseteq Handlers
  /\ Calls \subseteq CallNames
  /\ Kinds \subseteq {"plain", "force", "marked"}
  /\ Modes \subseteq {"async", "block", "check"}
  /\ CounterValues \subseteq Nat
  /\ MaxCalls \in Nat

VARIABLES
  counter,   \* the publisher's m_topic_running_counter
  last,      \* the publisher's m_topic_last_dmesgpb
  subs,      \* the handlers in the publisher's m_subscribers
  states,    \* m_handler_states; listed: the handler is in it and in m_handlers
  queue,     \* the publisher's tasks
  local,     \* each handler's own counters, conflicts, generation and flag
  tasks,     \* each handler's tasks
  waiting,   \* the handlers whose current task waits for the publisher
  got,       \* each handler's deliveries: pushed for read() or processed
  calls,     \* what each thread waits for
  made,      \* the number of calls made
  log        \* ghost: the accepted messages, in order

pubVars == <<counter, last, subs, states, queue>>
handlerVars == <<local, tasks, waiting, got>>
vars == <<pubVars, handlerVars, calls, made, log>>

Messages == [id : Nat, topic : Topics, rc : Nat, src : Handlers,
             force : BOOLEAN, conflict : BOOLEAN, playback : BOOLEAN]
States == [listed : BOOLEAN, counter : [Topics -> Nat], known : SUBSET Topics,
           conflict : SUBSET Topics, gen : Nat]
Locals == [counter : [Topics -> Nat], conflict : SUBSET Topics, gen : Nat,
           ready : BOOLEAN, owner : BOOLEAN]

DMesgTypeOK ==
  /\ counter \in [Topics -> Nat]
  /\ last \in [Topics -> Messages \cup {NoMsg}]
  /\ subs \subseteq Handlers
  /\ states \in [Handlers -> States]
  /\ local \in [Handlers -> Locals]
  /\ waiting \subseteq Handlers
  /\ \A h \in waiting : tasks[h] # <<>>
  /\ made \in 0 .. MaxCalls

-----------------------------------------------------------------------------
(* What the publisher does to one handler.  A view of a handler is its      *)
(* publisher-side state, its task queue and its deliveries.                *)

View(h) == [st |-> states[h], q |-> tasks[h], got |-> got[h]]
Views == [h \in Handlers |-> View(h)]

Matches(h, topic) == topic \in TopicsOf[h]

\* enqueueHandlerEvent(): a snapshot for the handler.
Enqueue(v, type, topic, m, notify) ==
  IF v.st.listed
  THEN [v EXCEPT !.q = Append(@,
          [op |-> "event", type |-> type, topic |-> topic,
           counter |-> v.st.counter[topic], gen |-> v.st.gen,
           force |-> m # NoMsg /\ m.force, notify |-> notify])]
  ELSE v

\* Mutant: every conflict message is reported as a transition.
ThrowAlways(v, m) ==
  LET inserted == m.topic \notin v.st.conflict
      entered == [v EXCEPT !.st.conflict = @ \cup {m.topic},
                           !.st.gen = IF inserted THEN @ + 1 ELSE @]
  IN  IF v.st.listed THEN Enqueue(entered, "entered", m.topic, m, TRUE) ELSE v

\* throwHandlerConflict().
Throw(v, m) ==
  LET inserted == m.topic \notin v.st.conflict
      entered == [v EXCEPT !.st.conflict = @ \cup {m.topic},
                           !.st.gen = IF inserted THEN @ + 1 ELSE @]
  IN  IF v.st.listed THEN Enqueue(entered, "entered", m.topic, m, inserted) ELSE v

\* resolveHandlerConflict() for one topic.
Resolve(v, topic, m) ==
  LET resolved == topic \in v.st.conflict
      left == [v EXCEPT !.st.conflict = @ \ {topic},
                        !.st.gen = IF resolved THEN @ + 1 ELSE @]
  IN  IF v.st.listed /\ (resolved \/ m # NoMsg)
      THEN Enqueue(left, "resolved", topic, m, resolved)
      ELSE v

\* resolveHandlerConflict() for all topics.
ResolveAll(v) ==
  FoldSet(LAMBDA topic, acc : Resolve(acc, topic, NoMsg), v, v.st.conflict)

SetCounter(v, topic, n) ==
  IF v.st.listed
  THEN [v EXCEPT !.st.counter[topic] = n, !.st.known = @ \cup {topic}]
  ELSE v

\* What notify() hands to the handler: its read queue or its own context.
Handed(h, v, m) ==
  IF h \in AsyncProcess
  THEN [v EXCEPT !.q = Append(@, [op |-> "process", id |-> m.id,
                                  topic |-> m.topic])]
  ELSE [v EXCEPT !.got = Append(@, [id |-> m.id, topic |-> m.topic])]

\* Whether notify() lets a message that is new to h through.
Eligible(h, m) ==
  /\ m.src # h \/ m.topic \in SysTopics
  /\ m.topic \notin SysTopics \/ h \in IncludeSys
  /\ Matches(h, m.topic)
  /\ m.topic \in FilterOf[h]

\* Mutant: the next message is taken for one already seen.
NotifiedLate(h, v, m) ==
  LET synced == SetCounter(v, m.topic, m.rc)
  IN  CASE ~v.st.listed -> v
        [] v.st.listed /\ m.conflict ->
             IF m.src # h /\ Matches(h, m.topic) /\ m.topic \in v.st.known
             THEN Throw(v, m) ELSE v
        [] v.st.listed /\ ~m.conflict /\ m.force -> Resolve(synced, m.topic, m)
        [] OTHER ->
             IF m.rc > v.st.counter[m.topic] + 1 /\ Eligible(h, m)
             THEN Handed(h, Enqueue(Resolve(synced, m.topic, m), "message",
                                    m.topic, m, TRUE), m)
             ELSE v

\* Dmn_DMesgHandler::notify().
Notified(h, v, m) ==
  LET synced == SetCounter(v, m.topic, m.rc)
  IN  CASE ~v.st.listed -> v
        [] v.st.listed /\ m.conflict ->
             IF m.src # h /\ Matches(h, m.topic) /\ m.topic \in v.st.known
             THEN Throw(v, m) ELSE v
        [] v.st.listed /\ ~m.conflict /\ m.force -> Resolve(synced, m.topic, m)
        [] OTHER ->
             IF m.rc > v.st.counter[m.topic] /\ Eligible(h, m)
             THEN Handed(h, Enqueue(Resolve(synced, m.topic, m), "message",
                                    m.topic, m, TRUE), m)
             ELSE v

\* Dmn_Pub::publishInternal() with the filter of Dmn_DMesg: playback is for the
\* handlers that have not finished theirs.
Selected(h, m) ==
  /\ h \in subs /\ local[h].owner
  /\ m.playback => ~local[h].ready
  /\ Matches(h, m.topic)

NotifyAll(views, m) ==
  [h \in Handlers |-> IF Selected(h, m) THEN Notified(h, views[h], m)
                      ELSE views[h]]

\* playbackLastTopicDMesgPbInternal().
Playback(views) ==
  FoldSet(LAMBDA topic, acc :
            NotifyAll(acc, [last[topic] EXCEPT !.playback = TRUE]),
          views, {topic \in Topics : last[topic] # NoMsg})

-----------------------------------------------------------------------------
(* The publisher's tasks.                                                  *)

\* Dmn_DMesg::publishInternal() for a message that is not a playback: whether
\* it is accepted, as what, and what becomes of the handlers.
Published(m) ==
  LET own == [Views EXCEPT ![m.src] = SetCounter(@, m.topic, m.rc)]
      dropped == m.topic \in own[m.src].st.conflict /\ ~m.force
      stale == m.conflict \/ (~m.force /\ m.rc < counter[m.topic] + 1)
      out == [m EXCEPT !.rc = IF stale \/ m.force THEN @ ELSE counter[m.topic] + 1,
                       !.conflict = stale]
      thrown == [own EXCEPT ![m.src] = IF stale THEN Throw(@, out) ELSE @]
  IN  [taken |-> ~dropped /\ ~stale, msg |-> out,
       views |-> IF dropped THEN own ELSE NotifyAll(thrown, out)]

\* A thread's call comes back from the executor.
Back(thread, ok) ==
  calls' = [calls EXCEPT ![thread].busy = FALSE, ![thread].ok = ok]

\* Mutant: the handler that waits is not released.
FinishOnly(views, h) ==
  /\ states' = [g \in Handlers |-> views[g].st]
  /\ got' = [g \in Handlers |-> views[g].got]
  /\ tasks' = [g \in Handlers |-> IF g = h THEN Tail(views[g].q) ELSE views[g].q]
  /\ waiting' = waiting
  /\ queue' = Tail(queue)

\* The publisher finishes its task with these views; if h waits for it, h's
\* own task is finished too and its thread comes back.
Finish(views, h) ==
  /\ states' = [g \in Handlers |-> views[g].st]
  /\ got' = [g \in Handlers |-> views[g].got]
  /\ tasks' = [g \in Handlers |-> IF g = h THEN Tail(views[g].q) ELSE views[g].q]
  /\ waiting' = waiting \ {h}
  /\ queue' = Tail(queue)

Take(op) == queue # <<>> /\ Head(queue).op = op

PublishTask ==
  /\ Take("publish")
  /\ LET task == Head(queue)
         m == task.msg
         result == Published(m)
     IN  /\ counter' = IF result.taken
                       THEN [counter EXCEPT ![m.topic] = result.msg.rc] ELSE counter
         /\ last' = IF result.taken THEN [last EXCEPT ![m.topic] = result.msg] ELSE last
         /\ log' = IF result.taken THEN Append(log, m.id) ELSE log
         /\ Finish(result.views, task.waiter)
         /\ IF task.waiter \in Handlers THEN Back(Head(tasks[m.src]).thread, TRUE)
            ELSE UNCHANGED calls
  /\ UNCHANGED <<subs, local, made>>

\* resetConflictStateWithLastTopicMessageInternal().
ResetTask ==
  /\ Take("reset")
  /\ LET task == Head(queue)
         m == last[task.topic]
         result == Published([m EXCEPT !.force = TRUE])
     IN  IF m = NoMsg
         THEN Finish(Views, NoMsg) /\ UNCHANGED <<counter, last>>
         ELSE /\ counter' = [counter EXCEPT ![m.topic] = result.msg.rc]
              /\ last' = [last EXCEPT ![m.topic] = result.msg]
              /\ Finish(result.views, NoMsg)
  /\ Back(Head(queue).thread, TRUE)
  /\ UNCHANGED <<subs, local, made, log>>

\* resetHandlerConflictStateInternal().
ResolveTask ==
  /\ Take("resolve")
  /\ LET task == Head(queue)
     IN  Finish([Views EXCEPT ![task.h] = IF task.topic = NoMsg THEN ResolveAll(@)
                                          ELSE Resolve(@, task.topic, NoMsg)], NoMsg)
  /\ Back(Head(queue).thread, TRUE)
  /\ UNCHANGED <<counter, last, subs, local, made, log>>

\* setHandlerTopicRunningCounter(); the handler waits.
SetCounterTask ==
  /\ Take("setcounter")
  /\ LET task == Head(queue)
     IN  /\ Finish([Views EXCEPT ![task.h] = SetCounter(@, task.topic, task.value)],
                   task.h)
         /\ Back(Head(tasks[task.h]).thread, TRUE)
  /\ UNCHANGED <<counter, last, subs, local, made, log>>

\* registerSubscriber() and unregisterSubscriber().
RegisterTask ==
  /\ Take("register")
  /\ subs' = subs \cup {Head(queue).h}
  /\ Back(Head(queue).thread, TRUE)
  /\ Finish(Views, NoMsg)
  /\ UNCHANGED <<counter, last, local, made, log>>

UnregisterTask ==
  /\ Take("unregister")
  /\ subs' = subs \ {Head(queue).h}
  /\ Back(Head(queue).thread, TRUE)
  /\ Finish(Views, NoMsg)
  /\ UNCHANGED <<counter, last, local, made, log>>

\* The task of finalizeHandlerRegistration(): list, play back, then the marker.
ListTask ==
  /\ Take("list")
  /\ LET h == Head(queue).h
         played == Playback([Views EXCEPT ![h].st.listed = TRUE])
     IN  Finish([played EXCEPT ![h].q = Append(@, [op |-> "marker"])], NoMsg)
  /\ Back(Head(queue).thread, TRUE)
  /\ UNCHANGED <<counter, last, subs, local, made, log>>

NoState == [listed |-> FALSE, counter |-> [topic \in Topics |-> 0],
            known |-> {}, conflict |-> {}, gen |-> 0]

\* The task of closeHandler().
EraseTask ==
  /\ Take("erase")
  /\ Finish([Views EXCEPT ![Head(queue).h].st = NoState], NoMsg)
  /\ Back(Head(queue).thread, TRUE)
  /\ UNCHANGED <<counter, last, subs, local, made, log>>

Publisher ==
  \/ PublishTask \/ ResetTask \/ ResolveTask \/ SetCounterTask
  \/ RegisterTask \/ UnregisterTask \/ ListTask \/ EraseTask

-----------------------------------------------------------------------------
(* The handlers' tasks.                                                    *)

\* The first task of h, which is not already waiting for the publisher.
Runs(h, op) == h \notin waiting /\ tasks[h] # <<>> /\ Head(tasks[h]).op = op

Done(h) == tasks' = [tasks EXCEPT ![h] = Tail(@)]

\* writeDMesgInternal(): a topic in conflict refuses the write.
RefuseWrite(h) ==
  /\ Runs(h, "write")
  /\ Head(tasks[h]).topic \in local[h].conflict
  /\ Head(tasks[h]).kind # "force"
  /\ Done(h)
  /\ Back(Head(tasks[h]).thread, FALSE)
  /\ UNCHANGED <<pubVars, local, waiting, got, made, log>>

WaitsForPublisher(task) == task.block \/ task.kind = "force"

Write(h) ==
  /\ Runs(h, "write")
  /\ LET task == Head(tasks[h])
         rc == local[h].counter[task.topic] + 1
         m == [id |-> task.id, topic |-> task.topic, rc |-> rc, src |-> h,
               force |-> task.kind = "force", conflict |-> task.kind = "marked",
               playback |-> FALSE]
     IN  /\ task.topic \in local[h].conflict => task.kind = "force"
         /\ local' = [local EXCEPT ![h].counter[task.topic] = rc]
         /\ IF WaitsForPublisher(task)
            THEN /\ queue' = Append(queue, [op |-> "publish", msg |-> m, waiter |-> h])
                 /\ waiting' = waiting \cup {h}
                 /\ UNCHANGED <<tasks, calls>>
            ELSE /\ queue' = Append(queue, [op |-> "publish", msg |-> m, waiter |-> NoMsg])
                 /\ Done(h)
                 /\ Back(task.thread, TRUE)
                 /\ UNCHANGED waiting
  /\ UNCHANGED <<counter, last, subs, states, got, made, log>>

\* Mutant: a resolution without a message is taken for a message.
MirroredMessage(me, event) ==
  [me EXCEPT !.counter[event.topic] =
                IF event.type # "entered" /\ (event.force \/ event.counter > @)
                THEN event.counter ELSE @,
             !.conflict = IF event.type = "entered" THEN @ \cup {event.topic} ELSE @,
             !.gen = event.gen]

\* What a snapshot makes of the handler's mirror.
Mirrored(me, event) ==
  [me EXCEPT !.counter[event.topic] =
                IF event.type # "entered" /\ (event.force \/ event.counter > @)
                THEN event.counter ELSE @,
             !.conflict = IF event.type = "entered" THEN @ \cup {event.topic}
                          ELSE IF event.type = "resolved" THEN @ \ {event.topic}
                          ELSE @,
             !.gen = event.gen]

\* enqueuePublisherEvent()'s task.
Mirror(h) ==
  /\ Runs(h, "event")
  /\ local' = [local EXCEPT ![h] = Mirrored(@, Head(tasks[h]))]
  /\ Done(h)
  /\ UNCHANGED <<pubVars, waiting, got, calls, made, log>>

Process(h) ==
  /\ Runs(h, "process")
  /\ got' = [got EXCEPT ![h] = Append(@, [id |-> Head(tasks[h]).id,
                                          topic |-> Head(tasks[h]).topic])]
  /\ Done(h)
  /\ UNCHANGED <<pubVars, local, waiting, calls, made, log>>

\* setAfterInitialPlaybackInternal().
Marker(h) ==
  /\ Runs(h, "marker")
  /\ local' = [local EXCEPT ![h].ready = TRUE]
  /\ Done(h)
  /\ UNCHANGED <<pubVars, waiting, got, calls, made, log>>

\* isInConflict(); a write that is to be checked succeeded if it says no.
Query(h) ==
  /\ Runs(h, "query")
  /\ Back(Head(tasks[h]).thread, Head(tasks[h]).topic \notin local[h].conflict)
  /\ Done(h)
  /\ UNCHANGED <<pubVars, local, waiting, got, made, log>>

\* An empty task that tells its thread that all earlier ones are done.
Barrier(h) ==
  /\ Runs(h, "barrier")
  /\ Back(Head(tasks[h]).thread, TRUE)
  /\ Done(h)
  /\ UNCHANGED <<pubVars, local, waiting, got, made, log>>

\* setTopicRunningCounterInternal().
SetLocalCounter(h) ==
  /\ Runs(h, "setcounter")
  /\ LET task == Head(tasks[h])
     IN  /\ local' = [local EXCEPT ![h].counter[task.topic] = task.value]
         /\ queue' = Append(queue, [op |-> "setcounter", h |-> h,
                                    topic |-> task.topic, value |-> task.value])
  /\ waiting' = waiting \cup {h}
  /\ UNCHANGED <<counter, last, subs, states, tasks, got, calls, made, log>>

Handler(h) ==
  \/ RefuseWrite(h) \/ Write(h) \/ Mirror(h) \/ Process(h) \/ Marker(h)
  \/ Query(h) \/ Barrier(h) \/ SetLocalCounter(h)

-----------------------------------------------------------------------------
(* The application's threads.  A call goes to an executor and comes back,   *)
(* once for each of its legs.                                              *)

Idle == [op |-> "idle", h |-> NoMsg, topic |-> NoMsg, leg |-> 0, id |-> 0,
         busy |-> FALSE, ok |-> TRUE]

ToPublisher(task) == queue' = Append(queue, task) /\ UNCHANGED tasks
ToHandler(h, task) == tasks' = [tasks EXCEPT ![h] = Append(@, task)] /\ UNCHANGED queue

\* The application has the handler's proxy, and calls wait for its playback.
Usable(h) ==
  /\ local[h].owner /\ local[h].ready
  /\ \A u \in Threads : calls[u].h = h => calls[u].op \notin {"open", "close"}

\* A new call.
Call(t, op, h, topic) ==
  /\ calls[t].op = "idle" /\ made < MaxCalls
  /\ made' = made + 1
  /\ calls' = [calls EXCEPT ![t] =
        [op |-> op, h |-> h, topic |-> topic, leg |-> 1, id |-> made + 1,
         busy |-> TRUE, ok |-> TRUE]]
  /\ UNCHANGED <<counter, last, subs, states, waiting, got, log>>

CallOpen(t, h) ==
  /\ "open" \in Calls
  /\ ~local[h].owner /\ ~local[h].ready
  /\ local' = [local EXCEPT ![h].owner = TRUE]
  /\ ToPublisher([op |-> "register", h |-> h, thread |-> t])
  /\ Call(t, "open", h, NoMsg)

\* A handler is closed when no other call on it is under way.
CallClose(t, h) ==
  /\ "close" \in Calls
  /\ Usable(h)
  /\ \A u \in Threads : calls[u].h # h
  /\ ToPublisher([op |-> "unregister", h |-> h, thread |-> t])
  /\ Call(t, "close", h, NoMsg)
  /\ UNCHANGED local

CallWrite(t, h, topic, kind, mode) ==
  /\ "write" \in Calls
  /\ Usable(h)
  /\ ToHandler(h, [op |-> "write", thread |-> t, topic |-> topic, kind |-> kind,
                   id |-> made + 1, block |-> mode # "async"])
  /\ Call(t, IF mode = "check" THEN "check" ELSE "write", h, topic)
  /\ UNCHANGED local

CallResolve(t, h, topic) ==
  /\ "resolve" \in Calls
  /\ Usable(h)
  /\ ToPublisher([op |-> "resolve", h |-> h, topic |-> topic, thread |-> t])
  /\ Call(t, "resolve", h, topic)
  /\ UNCHANGED local

CallReset(t, topic) ==
  /\ "reset" \in Calls
  /\ ToPublisher([op |-> "reset", topic |-> topic, thread |-> t])
  /\ Call(t, "reset", NoMsg, topic)
  /\ UNCHANGED local

CallSetCounter(t, h, topic, n) ==
  /\ "setcounter" \in Calls
  /\ Usable(h)
  /\ ToHandler(h, [op |-> "setcounter", thread |-> t, topic |-> topic, value |-> n])
  /\ Call(t, "setcounter", h, topic)
  /\ UNCHANGED local

\* The call of t has come back from this leg.
At(t, op, leg) == calls[t].op = op /\ calls[t].leg = leg /\ ~calls[t].busy

NextLeg(t) ==
  /\ calls' = [calls EXCEPT ![t].leg = @ + 1, ![t].busy = TRUE]
  /\ UNCHANGED <<counter, last, subs, states, local, waiting, got, made, log>>

ContinueOpen(t) ==
  /\ At(t, "open", 1)
  /\ ToPublisher([op |-> "list", h |-> calls[t].h, thread |-> t])
  /\ NextLeg(t)

\* resolveConflict() and closeHandler() wait for the handler's earlier tasks.
ContinueBarrier(t) ==
  /\ At(t, "resolve", 1) \/ At(t, "close", 1)
  /\ ToHandler(calls[t].h, [op |-> "barrier", thread |-> t])
  /\ NextLeg(t)

ContinueClose(t) ==
  /\ At(t, "close", 2)
  /\ ToPublisher([op |-> "erase", h |-> calls[t].h, thread |-> t])
  /\ NextLeg(t)

ContinueCheck(t) ==
  /\ At(t, "check", 1) /\ calls[t].ok
  /\ ToHandler(calls[t].h, [op |-> "query", topic |-> calls[t].topic, thread |-> t])
  /\ NextLeg(t)

\* The call returns, or throws what its task threw.
Return(t) ==
  /\ \/ At(t, "open", 2) \/ At(t, "close", 3) \/ At(t, "check", 2)
     \/ At(t, "check", 1) /\ ~calls[t].ok
     \/ At(t, "resolve", 2) \/ At(t, "write", 1) \/ At(t, "reset", 1)
     \/ At(t, "setcounter", 1)
  /\ calls' = [calls EXCEPT ![t] = Idle]
  /\ local' = IF calls[t].op = "close" THEN [local EXCEPT ![calls[t].h].owner = FALSE]
              ELSE local
  /\ UNCHANGED <<pubVars, tasks, waiting, got, made, log>>

Continue(t) ==
  \/ ContinueOpen(t) \/ ContinueBarrier(t) \/ ContinueClose(t)
  \/ ContinueCheck(t) \/ Return(t)

-----------------------------------------------------------------------------

Init ==
  /\ counter = [topic \in Topics |-> 0]
  /\ last = [topic \in Topics |-> NoMsg]
  /\ subs = InitiallyOpen
  /\ states = [h \in Handlers |-> [NoState EXCEPT !.listed = h \in InitiallyOpen]]
  /\ queue = <<>>
  /\ local = [h \in Handlers |->
       [counter |-> [topic \in Topics |-> 0], conflict |-> {}, gen |-> 0,
        ready |-> h \in InitiallyOpen, owner |-> h \in InitiallyOpen]]
  /\ tasks = [h \in Handlers |-> <<>>]
  /\ waiting = {}
  /\ got = [h \in Handlers |-> <<>>]
  /\ calls = [t \in Threads |-> Idle]
  /\ made = 0
  /\ log = <<>>

Next ==
  \/ Publisher
  \/ \E h \in Handlers : Handler(h)
  \/ \E t \in Threads : Continue(t)
  \/ \E t \in Threads, h \in Handlers : CallOpen(t, h) \/ CallClose(t, h)
  \/ \E t \in Threads, h \in Writers, topic \in Topics :
       \/ \E kind \in Kinds, mode \in Modes : CallWrite(t, h, topic, kind, mode)
       \/ \E n \in CounterValues : CallSetCounter(t, h, topic, n)
  \/ \E t \in Threads, h \in Handlers, topic \in Topics \cup {NoMsg} :
       CallResolve(t, h, topic)
  \/ \E t \in Threads, topic \in Topics : CallReset(t, topic)

Spec == Init /\ [][Next]_vars

-----------------------------------------------------------------------------
(* Properties.                                                             *)

Events(h, topic) ==
  SelectSeq(tasks[h], LAMBDA task : task.op = "event" /\ task.topic = topic
                                    /\ task.type # "message")
AllEvents(h) == SelectSeq(tasks[h], LAMBDA task : task.op = "event")

\* "Each handler keeps a local mirror, updated by ordered snapshots queued from
\* the publisher": a handler's conflicts and generation, once it has run the
\* snapshots still in its queue, are those the publisher holds for it.
ConflictMirror ==
  \A h \in Handlers : states[h].listed =>
    /\ \A topic \in Topics :
         LET pending == Events(h, topic)
         IN  topic \in states[h].conflict <=>
               IF pending = <<>> THEN topic \in local[h].conflict
               ELSE pending[Len(pending)].type = "entered"
    /\ LET pending == AllEvents(h)
       IN  states[h].gen = IF pending = <<>> THEN local[h].gen
                           ELSE pending[Len(pending)].gen

\* The observer is told of "actual per-topic conflict entry/resolution
\* transitions" only, each with the next generation.
TransitionStep ==
  \A h \in Handlers :
    (tasks[h] # <<>> /\ Head(tasks[h]).op = "event" /\ tasks'[h] = Tail(tasks[h]))
      => LET event == Head(tasks[h])
         IN  /\ (event.type = "entered" /\ event.notify)
                   <=> (event.topic \in local'[h].conflict \ local[h].conflict)
             /\ (event.type = "resolved" /\ event.notify)
                   <=> (event.topic \in local[h].conflict \ local'[h].conflict)
             /\ event.gen = local[h].gen
                   + (IF event.type # "message" /\ event.notify THEN 1 ELSE 0)

Position(id) == CHOOSE i \in 1 .. Len(log) : log[i] = id

\* What a handler is handed has been accepted, and no message of a topic is
\* handed to it twice or after one accepted later, by playback or otherwise.
DeliveredInOrder ==
  \A h \in Handlers : \A i \in 1 .. Len(got[h]) :
    /\ \E k \in 1 .. Len(log) : log[k] = got[h][i].id
    /\ \A j \in 1 .. i - 1 : got[h][j].topic = got[h][i].topic
         => Position(got[h][j].id) < Position(got[h][i].id)

Has(h, m) == \E i \in 1 .. Len(got[h]) : got[h][i].id = m.id

\* With nothing under way, every handler has been handed the latest message of
\* each topic it is interested in, however its opening, the playback and the
\* writes interleaved: notify() skips only what is older than what it has seen.
UpToDate ==
  (queue = <<>> /\ \A h \in Handlers : tasks[h] = <<>>) =>
    \A h \in Handlers, topic \in Topics :
      (/\ states[h].listed /\ h \in subs
       /\ last[topic] # NoMsg /\ Eligible(h, last[topic])) => Has(h, last[topic])

\* openHandler() returns with "the most recent state for every topic" handed to
\* the new handler.
NewHandlerCurrent ==
  \A t \in Threads : At(t, "open", 2) =>
    LET h == calls[t].h
    IN  \A topic \in Topics : (/\ last[topic] # NoMsg /\ h \notin AsyncProcess
                               /\ Eligible(h, last[topic])) => Has(h, last[topic])

\* With nothing under way, the counter a handler stamps its next message with
\* follows the one the publisher holds for it.
CounterMirror ==
  (queue = <<>> /\ \A h \in Handlers : tasks[h] = <<>>) =>
    \A h \in Handlers : states[h].listed => local[h].counter = states[h].counter

\* Whatever waits for whatever, the wait ends: when the publisher has run all
\* its tasks and a call is still under way, a handler or the caller itself has a
\* step to take. Tasks are never put back, so every call returns.
NoStuckCall ==
  (queue = <<>> /\ \E t \in Threads : calls[t].op # "idle") =>
     \/ \E t \in Threads : ENABLED Continue(t)
     \/ \E h \in Handlers : ENABLED Handler(h)
=============================================================================
