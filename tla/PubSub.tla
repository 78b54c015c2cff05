------------------------------- MODULE PubSub -------------------------------
(***************************************************************************)
(* Dmn_Pub and Dmn_Sub (include/dmn-pub-sub.hpp): publishers with a replay *)
(* buffer, a list of subscribers and a list of callback failures, and      *)
(* subscribers with back pointers to their publishers.                     *)
(*                                                                         *)
(* Every operation is a task of the publisher's executor (SerialExecutor), *)
(* here its queue of immediate tasks and the task that runs.  Within a     *)
(* task one action is one callback, or one access to the subscriber's      *)
(* m_pubs, the only state that threads of several publishers share: find() *)
(* and the change that follows it are two accesses, and since nothing      *)
(* locks the vector the change is based on what was found.                 *)
(*                                                                         *)
(* Items are numbered per publisher in the order of their publication.     *)
(***************************************************************************)
EXTENDS Integers, Sequences, FiniteSets, SequencesExt, Erasure

CONSTANTS
  Pubs, Subs,
  Clients,          \* threads that call the publishers
  Capacity,         \* m_capacity
  Replay,           \* m_replayQuantity of each subscriber
  FailureCapacity,  \* m_callbackFailureCapacity
  HasFilter,        \* whether the publishers have a filter
  Throwing,         \* the subscribers whose callbacks may throw
  MaxItems,         \* bound on the publications per publisher
  MaxRegistrations  \* bound on the calls of registerSubscriber()

Nobody == "nobody"

ASSUME PubSubAssumption ==
  /\ Capacity \in Nat /\ MaxItems \in Nat /\ MaxRegistrations \in Nat
  /\ Replay \in [Subs -> Int] /\ FailureCapacity \in Int
  /\ HasFilter \in BOOLEAN /\ Throwing \subseteq Subs
  /\ Nobody \notin Clients \cup Pubs

VARIABLES
  tasks,        \* the tasks waiting in each publisher's executor
  run,          \* the task each publisher runs, and how far it is
  buffer,       \* m_buffer
  subscribers,  \* m_subscribers
  failures,     \* m_callbackFailures
  pubsOf,       \* m_pubs of each subscriber
  assertFailed,     \* whether an assert() has failed
  alive,        \* the publishers not destroyed
  call,         \* what each client waits for
  registrations,\* history: calls of registerSubscriber()
  issued,       \* history: publications accepted by each publisher
  published,    \* history: publications each publisher has started to deliver
  joined,       \* history: published, when the subscriber registered
  offered,      \* history: the items whose callback was called since then
  thrown,       \* history: the callbacks that threw since the last drain
  outcome       \* history: item to whether its publication threw

pubVars == <<buffer, subscribers, failures>>
inputs == <<issued, registrations>>
history == <<published, joined, offered, thrown, outcome>>
pubSubVars == <<tasks, run, pubVars, pubsOf, assertFailed, alive, call, inputs, history>>

Free == [op |-> "none", pub |-> Nobody]
NoTask == [op |-> "none"]
Idle(p) == run[p].op = "none"

\* A task as it waits, a task as it runs, and what a client is doing.
Waiting ==
  [op: {"publish"}, by: Clients \cup {Nobody}]
    \cup [op: {"register", "unregister"}, by: Clients, sub: Subs]
    \cup [op: {"take", "destroy"}, by: Clients]
Publishing ==
  [op: {"publish"}, by: Clients \cup {Nobody}, todo: Seq(Subs), first: BOOLEAN]
Linking == [op: {"registerFound", "unregisterFound"}, by: Clients, sub: Subs, found: Seq(Pubs)]
Replaying == [op: {"replay"}, by: Clients, sub: Subs, todo: Seq(Nat)]
Running ==
  {NoTask} \cup {t \in Waiting : t.op # "publish"} \cup Publishing \cup Linking \cup Replaying
Calling ==
  {Free} \cup [op: {"publish", "register", "unregister", "take", "destroy"}, pub: Pubs]
    \cup [op: {"returned"}, pub: Pubs, item: Nat, threw: BOOLEAN]
Failures == {"notify", "filter"} \X Subs

PubSubTypeOK ==
  /\ tasks \in [Pubs -> Seq(Waiting)]
  /\ run \in [Pubs -> Running]
  /\ buffer \in [Pubs -> Seq(Nat)] /\ \A p \in Pubs : Len(buffer[p]) <= Capacity
  /\ subscribers \in [Pubs -> Seq(Subs)]
  /\ failures \in [Pubs -> Seq(Failures)] /\ thrown \in [Pubs -> Seq(Failures)]
  /\ pubsOf \in [Subs -> Seq(Pubs)]
  /\ assertFailed \in BOOLEAN
  /\ alive \subseteq Pubs
  /\ call \in [Clients -> Calling]
  /\ issued \in [Pubs -> 0 .. MaxItems]
  /\ registrations \in 0 .. MaxRegistrations
  /\ published \in [Pubs -> Nat]
  /\ joined \in [Pubs -> [Subs -> Nat]]
  /\ offered \in [Pubs -> [Subs -> Seq(Nat)]]
  /\ outcome \in [Pubs -> Seq(BOOLEAN)]

-----------------------------------------------------------------------------
(* The calls of clients, each a task that a blocking call waits for.       *)

Enqueue(p, task) == tasks' = [tasks EXCEPT ![p] = Append(@, task)]

\* Callers stop before the publisher is destroyed.
Open(p) ==
  /\ p \in alive
  /\ \A c \in Clients : call[c].op = "destroy" => call[c].pub # p

Begin(c, p, task) ==
  /\ call[c] = Free
  /\ Open(p)
  /\ Enqueue(p, task)
  /\ call' = [call EXCEPT ![c] = [op |-> task.op, pub |-> p]]

\* publish(item, true) and publishAsync(item) with a wait for its future.
PublishAndWait(c, p) ==
  /\ issued[p] < MaxItems
  /\ issued' = [issued EXCEPT ![p] = @ + 1]
  /\ Begin(c, p, [op |-> "publish", by |-> c])
  /\ UNCHANGED <<run, pubVars, pubsOf, assertFailed, alive, registrations, history>>

\* publish(item): nobody waits.
Publish(p) ==
  /\ Open(p)
  /\ issued[p] < MaxItems
  /\ issued' = [issued EXCEPT ![p] = @ + 1]
  /\ Enqueue(p, [op |-> "publish", by |-> Nobody])
  /\ UNCHANGED <<run, pubVars, pubsOf, assertFailed, alive, call, registrations,
                 history>>

\* No call about this subscriber is under way at this publisher: its owner
\* registers and unregisters it one call after the other.
Settled(p, s) ==
  \A t \in Range(tasks[p]) \cup {run[p]} :
    "sub" \in DOMAIN t => t.sub # s

RegisterSubscriber(c, p, s) ==
  /\ Settled(p, s)
  /\ registrations < MaxRegistrations
  /\ registrations' = registrations + 1
  /\ Begin(c, p, [op |-> "register", by |-> c, sub |-> s])
  /\ UNCHANGED <<run, pubVars, pubsOf, assertFailed, alive, issued, history>>

UnregisterSubscriber(c, p, s) ==
  /\ Settled(p, s) /\ s \in Range(subscribers[p])
  /\ Begin(c, p, [op |-> "unregister", by |-> c, sub |-> s])
  /\ UNCHANGED <<run, pubVars, pubsOf, assertFailed, alive, inputs, history>>

TakeCallbackFailures(c, p) ==
  /\ Begin(c, p, [op |-> "take", by |-> c])
  /\ UNCHANGED <<run, pubVars, pubsOf, assertFailed, alive, inputs, history>>

\* ~Dmn_Pub(): its task unlinks the subscribers; nobody else is in a call.
DestroyPub(c, p) ==
  /\ \A d \in Clients : call[d].pub # p
  /\ Begin(c, p, [op |-> "destroy", by |-> c])
  /\ UNCHANGED <<run, pubVars, pubsOf, assertFailed, alive, inputs, history>>

-----------------------------------------------------------------------------
(* The tasks.                                                              *)

\* The task ends and releases who waits for it.
Finish(p) ==
  /\ run' = [run EXCEPT ![p] = NoTask]
  /\ call' = [c \in Clients |-> IF run[p].by = c THEN Free ELSE call[c]]

\* The history never holds more than m_capacity items.
Trimmed(b) ==
  IF Len(b) > Capacity THEN SubSeq(b, Len(b) - Capacity + 1, Len(b)) ELSE b

\* recordCallbackFailure().
Recorded(list, f) ==
  CASE FailureCapacity = 0 -> list
    [] FailureCapacity > 0 /\ Len(list) >= FailureCapacity -> Append(Tail(list), f)
    [] OTHER -> Append(list, f)

\* The worker takes the next task.  A publication enters the history at once and
\* goes to the subscribers registered now.
StartTask(p) ==
  /\ Idle(p) /\ tasks[p] # <<>>
  /\ LET t == Head(tasks[p])
     IN  IF t.op = "publish"
         THEN /\ published' = [published EXCEPT ![p] = @ + 1]
              /\ buffer' = [buffer EXCEPT ![p] = Trimmed(Append(@, published'[p]))]
              /\ outcome' = [outcome EXCEPT ![p] = Append(@, FALSE)]
              /\ run' = [run EXCEPT ![p] = [op |-> "publish", by |-> t.by,
                                            todo |-> subscribers[p],
                                            first |-> FALSE]]
         ELSE /\ run' = [run EXCEPT ![p] = t]
              /\ UNCHANGED <<published, buffer, outcome>>
  /\ tasks' = [tasks EXCEPT ![p] = Tail(@)]
  /\ UNCHANGED <<subscribers, failures, pubsOf, assertFailed, alive, call, inputs,
                 joined, offered, thrown>>

Offer(p, s, item) == offered' = [offered EXCEPT ![p][s] = Append(@, item)]

\* A callback of s threw.
Threw(p, s, kind) ==
  /\ s \in Throwing
  /\ failures' = [failures EXCEPT ![p] = Recorded(@, <<kind, s>>)]
  /\ thrown' = [thrown EXCEPT ![p] = Append(@, <<kind, s>>)]

\* Mutant: only the exception of the last callback is remembered.
NotifyNextForgets(p) ==
  /\ run[p].op = "publish" /\ run[p].todo # <<>>
  /\ LET s == Head(run[p].todo)
     IN  /\ Offer(p, s, published[p])
         /\ \/ /\ UNCHANGED <<failures, thrown, outcome>>
               /\ run' = [run EXCEPT ![p].todo = Tail(@), ![p].first = FALSE]
            \/ /\ Threw(p, s, "notify")
               /\ run' = [run EXCEPT ![p].todo = Tail(@), ![p].first = TRUE]
               /\ outcome' = [outcome EXCEPT ![p][published[p]] = TRUE]
  /\ UNCHANGED <<tasks, buffer, subscribers, pubsOf, assertFailed, alive, call,
                 inputs, published, joined>>

\* One pass of the loop of publishInternal(): the filter accepts, skips or
\* throws, and for an accepted item notify() returns or throws.
NotifyNext(p) ==
  /\ run[p].op = "publish" /\ run[p].todo # <<>>
  /\ LET s == Head(run[p].todo)
     IN  /\ Offer(p, s, published[p])
         /\ \/ /\ UNCHANGED <<failures, thrown, outcome>>
               /\ run' = [run EXCEPT ![p].todo = Tail(@)]
            \/ \E kind \in {"notify", "filter"} :
                 /\ kind = "filter" => HasFilter
                 /\ Threw(p, s, kind)
                 /\ run' = [run EXCEPT ![p].todo = Tail(@), ![p].first = TRUE]
                 /\ outcome' = [outcome EXCEPT ![p][published[p]] = TRUE]
  /\ UNCHANGED <<tasks, buffer, subscribers, pubsOf, assertFailed, alive, call,
                 inputs, published, joined>>

\* Mutant: an exception leaves the promise of the task unset.
PublishDoneSilent(p) ==
  /\ run[p].op = "publish" /\ run[p].todo = <<>>
  /\ run' = [run EXCEPT ![p] = NoTask]
  /\ call' = [c \in Clients |->
                IF run[p].by = c /\ ~run[p].first THEN Free ELSE call[c]]
  /\ UNCHANGED <<tasks, pubVars, pubsOf, assertFailed, alive, inputs, history>>

\* The end of publishInternal(): the first exception is rethrown to who waits.
PublishDone(p) ==
  /\ run[p].op = "publish" /\ run[p].todo = <<>>
  /\ run' = [run EXCEPT ![p] = NoTask]
  /\ call' = [c \in Clients |->
                IF run[p].by = c
                THEN [op |-> "returned", pub |-> p, item |-> published[p],
                      threw |-> run[p].first]
                ELSE call[c]]
  /\ UNCHANGED <<tasks, pubVars, pubsOf, assertFailed, alive, inputs, history>>

\* The client looks at what publish() returned.
Return(c) ==
  /\ call[c].op = "returned"
  /\ call' = [call EXCEPT ![c] = Free]
  /\ UNCHANGED <<tasks, run, pubVars, pubsOf, assertFailed, alive, inputs, history>>

\* std::find() in the tasks of registerSubscriber() and unregisterSubscriber(),
\* with the early return of the first and the assert() of the second.
Find(p) ==
  /\ run[p].op \in {"register", "unregister"}
  /\ LET here == p \in Range(pubsOf[run[p].sub])
     IN  IF (run[p].op = "register") = here
         THEN /\ assertFailed' = (assertFailed \/ run[p].op = "unregister")
              /\ Finish(p)
         ELSE /\ run' = [run EXCEPT ![p] =
                           [op |-> IF here THEN "unregisterFound" ELSE "registerFound",
                            by |-> run[p].by, sub |-> run[p].sub,
                            found |-> pubsOf[run[p].sub]]]
              /\ UNCHANGED <<assertFailed, call>>
  /\ UNCHANGED <<tasks, pubVars, pubsOf, alive, inputs, history>>

\* Mutant: a bounded replay starts one item early.
SkippedOneLess(s, n) ==
  CASE Replay[s] = 0 -> n
    [] Replay[s] > 0 /\ n > Replay[s] + 1 -> n - Replay[s] - 1
    [] OTHER -> 0

\* numberOfItemsToBeSkipped, of a history of n items.
Skipped(s, n) ==
  CASE Replay[s] = 0 -> n
    [] Replay[s] > 0 /\ n > Replay[s] -> n - Replay[s]
    [] OTHER -> 0

\* Registration proper; the replay follows, item by item.
Register(p) ==
  /\ run[p].op = "registerFound"
  /\ LET s == run[p].sub
     IN  /\ pubsOf' = [pubsOf EXCEPT ![s] = Append(run[p].found, p)]
         /\ subscribers' = [subscribers EXCEPT ![p] = Append(@, s)]
         /\ joined' = [joined EXCEPT ![p][s] = published[p]]
         /\ offered' = [offered EXCEPT ![p][s] = <<>>]
         /\ run' = [run EXCEPT ![p] =
                      [op |-> "replay", by |-> run[p].by, sub |-> s,
                       todo |-> SubSeq(buffer[p], Skipped(s, Len(buffer[p])) + 1,
                                       Len(buffer[p]))]]
  /\ UNCHANGED <<tasks, buffer, failures, assertFailed, alive, call, inputs,
                 published, thrown, outcome>>

\* One item of the replay; an exception is recorded and the replay goes on.
ReplayNext(p) ==
  /\ run[p].op = "replay" /\ run[p].todo # <<>>
  /\ Offer(p, run[p].sub, Head(run[p].todo))
  /\ UNCHANGED <<failures, thrown>> \/ Threw(p, run[p].sub, "notify")
  /\ run' = [run EXCEPT ![p].todo = Tail(@)]
  /\ UNCHANGED <<tasks, buffer, subscribers, pubsOf, assertFailed, alive, call,
                 inputs, published, joined, outcome>>

ReplayDone(p) ==
  /\ run[p].op = "replay" /\ run[p].todo = <<>>
  /\ Finish(p)
  /\ UNCHANGED <<tasks, pubVars, pubsOf, assertFailed, alive, inputs, history>>

\* Mutant: the publisher keeps its pointer to the subscriber.
UnregisterHalf(p) ==
  /\ run[p].op = "unregisterFound"
  /\ pubsOf' = [pubsOf EXCEPT ![run[p].sub] = RemoveFirst(run[p].found, p)]
  /\ Finish(p)
  /\ UNCHANGED <<tasks, pubVars, assertFailed, alive, inputs, history>>

Unregister(p) ==
  /\ run[p].op = "unregisterFound"
  /\ LET s == run[p].sub
     IN  /\ pubsOf' = [pubsOf EXCEPT ![s] = RemoveFirst(run[p].found, p)]
         /\ \E others \in Others(subscribers[p], s) :
              subscribers' = [subscribers EXCEPT ![p] = others]
  /\ Finish(p)
  /\ UNCHANGED <<tasks, buffer, failures, assertFailed, alive, inputs, history>>

Take(p) ==
  /\ run[p].op = "take"
  /\ failures' = [failures EXCEPT ![p] = <<>>]
  /\ thrown' = [thrown EXCEPT ![p] = <<>>]
  /\ Finish(p)
  /\ UNCHANGED <<tasks, buffer, subscribers, pubsOf, assertFailed, alive, inputs,
                 published, joined, offered, outcome>>

\* The task of ~Dmn_Pub(); the drain that follows finds an empty queue, and the
\* members, the shared pointers to the subscribers among them, are destroyed.
Unlink(p) ==
  /\ run[p].op = "destroy"
  /\ assertFailed' = (assertFailed \/ \E s \in Range(subscribers[p]) :
                                p \notin Range(pubsOf[s]))
  /\ pubsOf' = [s \in Subs |-> IF s \in Range(subscribers[p])
                               THEN RemoveFirst(pubsOf[s], p)
                               ELSE pubsOf[s]]
  /\ alive' = alive \ {p}
  /\ subscribers' = [subscribers EXCEPT ![p] = <<>>]
  /\ Finish(p)
  /\ UNCHANGED <<tasks, buffer, failures, inputs, history>>

-----------------------------------------------------------------------------

PubSubInit ==
  /\ tasks = [p \in Pubs |-> <<>>]
  /\ run = [p \in Pubs |-> NoTask]
  /\ buffer = [p \in Pubs |-> <<>>]
  /\ subscribers = [p \in Pubs |-> <<>>]
  /\ failures = [p \in Pubs |-> <<>>]
  /\ pubsOf = [s \in Subs |-> <<>>]
  /\ assertFailed = FALSE
  /\ alive = Pubs
  /\ call = [c \in Clients |-> Free]
  /\ registrations = 0
  /\ issued = [p \in Pubs |-> 0]
  /\ published = [p \in Pubs |-> 0]
  /\ joined = [p \in Pubs |-> [s \in Subs |-> 0]]
  /\ offered = [p \in Pubs |-> [s \in Subs |-> <<>>]]
  /\ thrown = [p \in Pubs |-> <<>>]
  /\ outcome = [p \in Pubs |-> <<>>]

WorkerStep(p) ==
  \/ StartTask(p) \/ NotifyNext(p) \/ PublishDone(p) \/ Find(p) \/ Register(p)
  \/ ReplayNext(p) \/ ReplayDone(p) \/ Unregister(p) \/ Take(p) \/ Unlink(p)

ClientStep(c, p) ==
  \/ PublishAndWait(c, p) \/ TakeCallbackFailures(c, p) \/ DestroyPub(c, p)
  \/ \E s \in Subs : RegisterSubscriber(c, p, s) \/ UnregisterSubscriber(c, p, s)

PubSubNext ==
  \/ \E p \in Pubs : WorkerStep(p) \/ Publish(p)
  \/ \E c \in Clients, p \in Pubs : ClientStep(c, p)
  \/ \E c \in Clients : Return(c)

PubSubSpec == PubSubInit /\ [][PubSubNext]_pubSubVars

\* The executor runs its tasks and callbacks return.
PubSubFairSpec == PubSubSpec /\ \A p \in Pubs : WF_pubSubVars(WorkerStep(p))

-----------------------------------------------------------------------------
(* Properties.                                                             *)

\* How many of n earlier items a subscriber is promised when it registers.
Promised(s, n) ==
  LET kept == IF n < Capacity THEN n ELSE Capacity
  IN  IF Replay[s] < 0 \/ Replay[s] > kept THEN kept ELSE Replay[s]

\* The items that follow the first ones, up to the last.
After(first, last) == [i \in 1 .. last - first |-> first + i]

\* Replay and live delivery join without a gap and without a repetition: since
\* its registration a subscriber was offered exactly the promised last items of
\* the history and every later publication, in order (registerSubscriber and
\* publishInternal, whatever else was queued between them).
DeliveryContiguous ==
  \A p \in Pubs : Idle(p) =>
    \A s \in Range(subscribers[p]) :
      offered[p][s] = After(joined[p][s] - Promised(s, joined[p][s]), published[p])

\* No subscriber is left with a pointer to a destroyed publisher, and no task of
\* a destroyed publisher is left behind.
NoDanglingPublisher ==
  \A p \in Pubs \ alive :
    tasks[p] = <<>> /\ Idle(p) /\ \A s \in Subs : p \notin Range(pubsOf[s])

\* Outside a task the two sides of a registration agree: the publisher lists the
\* subscriber once exactly when the subscriber points back once, and the assert()s
\* that rely on it have held. Nothing is left of a publisher after its destructor.
LinksAgree ==
  /\ ~assertFailed
  /\ \A p \in Pubs, s \in Subs :
       (Idle(p) /\ p \in alive) =>
          /\ s \in Range(subscribers[p]) <=> p \in Range(pubsOf[s])
          /\ Cardinality({i \in DOMAIN subscribers[p] : subscribers[p][i] = s}) <= 1
  /\ NoDanglingPublisher

\* takeCallbackFailures() finds the failures since the last call, in the order
\* of the callbacks, the newest FailureCapacity of them if that is bounded.
Kept(n) == IF FailureCapacity < 0 \/ FailureCapacity > n THEN n ELSE FailureCapacity

Newest(list) == SubSeq(list, Len(list) - Kept(Len(list)) + 1, Len(list))

FailuresKept == \A p \in Pubs : failures[p] = Newest(thrown[p])

\* publish(item, true) returns after every subscriber registered when its task
\* started was served, and throws exactly when one of their callbacks threw.
BlockingPublish ==
  \A c \in Clients :
    call[c].op = "returned" =>
      /\ call[c].threw = outcome[call[c].pub][call[c].item]
      /\ \A s \in Range(subscribers[call[c].pub]) :
           joined[call[c].pub][s] < call[c].item
             => call[c].item \in Range(offered[call[c].pub][s])

\* The properties of the deliveries.
DeliveryExact == DeliveryContiguous /\ FailuresKept

-----------------------------------------------------------------------------
(* What makes them inductive.                                              *)

\* The history holds the last items.  Nobody has joined after the last of them.
Recent(n) ==
  LET kept == IF n < Capacity THEN n ELSE Capacity
  IN  [i \in 1 .. kept |-> n - kept + i]

HistoryExact ==
  \A p \in Pubs :
    /\ buffer[p] = Recent(published[p])
    /\ Len(outcome[p]) = published[p]
    /\ \A s \in Subs : joined[p][s] <= published[p]

\* A publication that runs remembers whether one of its callbacks threw, and no
\* one has been told its outcome; its caller is told what happened to it.
OutcomeAgrees ==
  /\ \A p \in Pubs : run[p].op = "publish" =>
       published[p] > 0 /\ run[p].first = outcome[p][published[p]]
  /\ \A c \in Clients : call[c].op = "returned" =>
       LET p == call[c].pub
       IN  /\ call[c].item \in 1 .. published[p]
           /\ run[p].op = "publish" => call[c].item < published[p]
           /\ call[c].threw = outcome[p][call[c].item]

\* A subscriber was offered what was published since it registered, except the
\* present item if it is still to be served.
Served ==
  \A p \in Pubs : \A s \in Range(subscribers[p]) :
    \A k \in joined[p][s] + 1 .. published[p] :
       \/ k \in Range(offered[p][s])
       \/ run[p].op = "publish" /\ k = published[p] /\ s \in Range(run[p].todo)

\* The call that a task was submitted by.
Origin(op) ==
  CASE op \in {"registerFound", "replay"} -> "register"
    [] op = "unregisterFound" -> "unregister"
    [] OTHER -> op

\* The tasks a publisher holds: the one that runs, at 0, and those that wait.
Held(p) == (IF Idle(p) THEN {} ELSE {0}) \cup DOMAIN tasks[p]
TaskAt(p, i) == IF i = 0 THEN run[p] ELSE tasks[p][i]

\* A client waits for its one task; a subscriber is the object of one task at a
\* publisher; the destructor's task is the last one.
TasksOfCalls ==
  \A p \in Pubs :
    /\ \A i \in Held(p) : TaskAt(p, i).by # Nobody =>
         call[TaskAt(p, i).by] = [op |-> Origin(TaskAt(p, i).op), pub |-> p]
    /\ \A i, j \in Held(p) :
         TaskAt(p, i).by = TaskAt(p, j).by => i = j \/ TaskAt(p, i).by = Nobody
    /\ \A i, j \in Held(p) :
         /\ "sub" \in DOMAIN TaskAt(p, i) /\ "sub" \in DOMAIN TaskAt(p, j)
         /\ TaskAt(p, i).sub = TaskAt(p, j).sub
         => i = j
    /\ \A i \in Held(p) : TaskAt(p, i).op = "destroy" => i = Len(tasks[p])
    /\ p \notin alive => Held(p) = {}

\* Of one publisher: the two sides of a registration, through find() and the
\* change that follows it.
LinksExact(p) ==
  /\ ~assertFailed
  /\ IsInjective(subscribers[p])
  /\ \A s \in Subs : pubsOf[s] = IF s \in Range(subscribers[p]) THEN <<p>> ELSE <<>>
  /\ \A i \in Held(p) :
       TaskAt(p, i).op = "unregister" => TaskAt(p, i).sub \in Range(subscribers[p])
  /\ run[p].op = "registerFound" => run[p].found = <<>> /\ run[p].sub \notin Range(subscribers[p])
  /\ run[p].op = "unregisterFound" => run[p].found = <<p>> /\ run[p].sub \in Range(subscribers[p])
  /\ p \notin alive => subscribers[p] = <<>>

\* And the deliveries: what is still to come of the present item and of a replay.
DeliveryExactSoFar(p) ==
  /\ run[p].op = "publish" =>
       /\ IsInjective(run[p].todo) /\ Range(run[p].todo) \subseteq Range(subscribers[p])
       /\ \A s \in Range(run[p].todo) : joined[p][s] < published[p]
  /\ run[p].op = "replay" => run[p].sub \in Range(subscribers[p])
  /\ \A s \in Range(subscribers[p]) :
       LET start == joined[p][s] - Promised(s, joined[p][s])
           last == IF run[p].op = "publish" /\ s \in Range(run[p].todo)
                   THEN published[p] - 1 ELSE published[p]
           items == IF run[p].op = "replay" /\ run[p].sub = s
                    THEN offered[p][s] \o run[p].todo ELSE offered[p][s]
       IN  items = After(start, last)

OnePublisher == \A p, q \in Pubs : p = q

PubSubInv ==
  /\ PubSubTypeOK /\ FailuresKept /\ HistoryExact /\ OutcomeAgrees /\ Served /\ TasksOfCalls
  /\ OnePublisher => ~assertFailed /\ \A p \in Pubs : LinksExact(p) /\ DeliveryExactSoFar(p)

\* Every call to a publisher returns.
CallReturns ==
  \A c \in Clients : call[c].op \notin {"none", "returned"}
                       ~> call[c].op \in {"none", "returned"}
=============================================================================
