----------------------------- MODULE MCMessaging -----------------------------
(***************************************************************************)
(* Who waits for whom: each behaviour is about the election among nodes    *)
(* (the variables of Election), about a publisher, its subscribers and its *)
(* clients (those of PubSub), or about producers and consumers of a mutex  *)
(* queue.  The others stay in their initial state.                         *)
(***************************************************************************)
EXTENDS MCElection, PubSub

VARIABLES
  part,
  mutex, closed, inflight, queue, pushCount, popCount, notEmptyWaiters, emptyWaiters,
  pc, op, delivered

queueVars == <<mutex, closed, inflight, queue, pushCount, popCount, notEmptyWaiters,
               emptyWaiters, pc, op, delivered>>

\* A subscriber that throws and wants the last item, and one that wants all.
ReplayOneOrAll == ("s1" :> 1) @@ ("s2" :> -1)

\* Consumers that all wait for one item, one of them cancellable.
Queue == INSTANCE BlockingQueueMt WITH
  Threads <- {"p1", "p2", "c1", "c2"},
  Calls <- ("p1" :> {"push"}) @@ ("p2" :> {"push"}) @@ ("c1" :> {"pop", "popNoWait"}) @@ ("c2" :> {"pop"}),
  Cancellable <- {"c2"}, BatchCount <- 2, MaxPush <- 2, NoThread <- "none"

MCInit == part \in {"election", "publisher", "queue"} /\ Init /\ PubSubInit /\ Queue!Init

MCNext ==
  \/ part = "election" /\ Next /\ UNCHANGED <<part, pubSubVars, queueVars>>
  \/ part = "publisher" /\ PubSubNext /\ UNCHANGED <<part, vars, queueVars>>
  \/ part = "queue" /\ Queue!Next /\ UNCHANGED <<part, vars, pubSubVars>>

MCFairness ==
  /\ \A n \in Nodes : WF_vars(part = "election" /\ Tick(n))
  /\ \A m, n \in Nodes : WF_vars(part = "election" /\ Deliver(m, n))
  /\ \A p \in Pubs : WF_pubSubVars(part = "publisher" /\ WorkerStep(p))
  /\ \A t \in {"p1", "p2", "c1", "c2"} : WF_queueVars(part = "queue" /\ Queue!Step(t))

MCSpec == MCInit /\ [][MCNext]_<<part, vars, pubSubVars, queueVars>> /\ MCFairness
-----------------------------------------------------------------------------
\* pushImpl(), popOptional(): one notify_one per push is enough, no pop() sleeps
\* for ever beside an item, also when another one is cancelled in its wait.
PopServed == Queue!PopServed
=============================================================================
