--------------------------- MODULE BlockingQueueMt ---------------------------
(***************************************************************************)
(* Dmn_BlockingQueue_Mt (include/dmn-blockingqueue-mt.hpp): the mutex and  *)
(* condition variable queue under every pipe, async context, publisher and *)
(* runtime of Dmn, together with the in-flight guard it inherits           *)
(* (include/dmn-inflight-guard.hpp) and the public operations it gets from *)
(* Dmn_BlockingQueue (include/dmn-blockingqueue.hpp).                      *)
(*                                                                         *)
(* One action is one access to shared state: a mutex acquisition, a read   *)
(* of the atomic shutdown flag, an atomic increment, a notification, or a  *)
(* critical section up to its unlock.  The shutdown flag is an atomic that *)
(* shutdown() sets WITHOUT the mutex, so a waiter's test of its predicate  *)
(* and its going to sleep are two steps.                                   *)
(*                                                                         *)
(* Items are numbered in the order of their emplace_back, so an item is a  *)
(* natural number and a queue of items tells loss, duplication and         *)
(* reordering apart.  Atomics are sequentially consistent here.            *)
(***************************************************************************)
EXTENDS Naturals, Sequences, FiniteSets

CONSTANTS
  Threads,      \* the threads that call the queue
  NoThread,     \* the owner of a mutex nobody holds
  Calls,        \* Calls[t]: the operations that thread t may call
  Cancellable,  \* the threads another thread may pthread_cancel
  BatchCount,   \* the count argument of every pop(count, timeout)
  MaxPush       \* bound: no push starts once this many have

Ops == {"push", "pop", "popNoWait", "popBatch", "popTimed", "waitForEmpty",
        "shutdown"}

ASSUME ConstantsAssumption ==
  /\ IsFiniteSet(Threads)
  /\ NoThread \notin Threads
  /\ Calls \in [Threads -> SUBSET Ops]
  /\ Cancellable \subseteq Threads
  /\ BatchCount \in Nat \ {0}
  /\ MaxPush \in Nat

VARIABLES
  mutex,            \* m_mutex: its owner
  closed,           \* m_shutdown_flag
  inflight,         \* m_inflight_count
  queue,            \* m_queue
  pushCount,        \* m_push_count
  popCount,         \* m_pop_count
  notEmptyWaiters,  \* threads asleep on m_not_empty_cond
  emptyWaiters,     \* threads asleep on m_empty_cond
  pc,               \* where each thread is
  op,               \* the operation each thread is executing
  delivered         \* history: the items removed, in the order of removal

conds == <<notEmptyWaiters, emptyWaiters>>
data == <<queue, pushCount, popCount, delivered>>
vars == <<mutex, closed, inflight, data, conds, pc, op>>

-----------------------------------------------------------------------------
(* Types and program points.                                               *)

Points ==
  {"idle",
   "gateCheck", "gateAdd", "gateRecheck", "dropTicket", "throw",   \* Ticket()
   "lock", "locked", "test", "block", "wait",                      \* methods
   "woken", "expired", "cancelled", "collect",
   "notifyOne", "notifyEmpty", "leave",
   "setFlag", "wakeEmpty", "wakeNotEmpty", "awaitInflight", "returned"}

TypeOK ==
  /\ mutex \in Threads \cup {NoThread}
  /\ closed \in BOOLEAN
  /\ inflight \in Nat
  /\ queue \in Seq(Nat)
  /\ pushCount \in Nat
  /\ popCount \in Nat
  /\ notEmptyWaiters \subseteq Threads
  /\ emptyWaiters \subseteq Threads
  /\ pc \in [Threads -> Points]
  /\ op \in [Threads -> Ops]
  /\ delivered \in Seq(Nat)

\* popOptional() takes m_mutex before its ticket, pushImpl() and pop(count)
\* take the ticket first, waitForEmpty() takes no ticket at all.
LocksFirst == {"pop", "popNoWait"}
Unguarded == {"waitForEmpty", "shutdown"}

Goto(t, p) == pc' = [pc EXCEPT ![t] = p]

Free(t) == IF mutex = t THEN NoThread ELSE mutex

-----------------------------------------------------------------------------
(* Calls.                                                                  *)

\* Pushes that have started; the bound of the model is on these.
Pushing == {t \in Threads : op[t] = "push" /\ pc[t] # "idle"}

EntryPoint(o) ==
  CASE o \in {"push", "popBatch", "popTimed"} -> "gateCheck"
    [] o \in {"pop", "popNoWait", "waitForEmpty"} -> "lock"
    [] o = "shutdown" -> "setFlag"

Call(t) ==
  /\ pc[t] = "idle"
  /\ \E o \in Calls[t] :
       /\ o = "push" => pushCount + Cardinality(Pushing) < MaxPush
       /\ op' = [op EXCEPT ![t] = o]
       /\ Goto(t, EntryPoint(o))
  /\ UNCHANGED <<mutex, closed, inflight, data, conds>>

-----------------------------------------------------------------------------
(* The in-flight ticket: Ticket::Ticket and Ticket::~Ticket.               *)

\* First test of the closed flag: the constructor throws.
GateCheck(t) ==
  /\ pc[t] = "gateCheck"
  /\ Goto(t, IF closed THEN "throw" ELSE "gateAdd")
  /\ UNCHANGED <<mutex, closed, inflight, data, conds, op>>

GateAdd(t) ==
  /\ pc[t] = "gateAdd"
  /\ inflight' = inflight + 1
  /\ Goto(t, "gateRecheck")
  /\ UNCHANGED <<mutex, closed, data, conds, op>>

\* Mutant: the gate is not tested again after the increment.
GateTestedOnce(t) ==
  /\ pc[t] = "gateRecheck"
  /\ Goto(t, IF op[t] \in LocksFirst THEN "locked" ELSE "lock")
  /\ UNCHANGED <<mutex, closed, inflight, data, conds, op>>

\* Second test, after the increment: shutdown may have started in between.
GateRecheck(t) ==
  /\ pc[t] = "gateRecheck"
  /\ Goto(t, IF closed THEN "dropTicket"
             ELSE IF op[t] \in LocksFirst THEN "locked" ELSE "lock")
  /\ UNCHANGED <<mutex, closed, inflight, data, conds, op>>

\* Mutant: a rejected or cancelled call keeps its count.
KeepTicket(t) ==
  /\ pc[t] = "dropTicket"
  /\ Goto(t, "throw")
  /\ UNCHANGED <<mutex, closed, inflight, data, conds, op>>

\* The count is rolled back (or, for a cancelled thread, cleanup_thunk_inflight
\* resets the ticket); a lock taken before the ticket is still held.
DropTicket(t) ==
  /\ pc[t] = "dropTicket"
  /\ inflight' = inflight - 1
  /\ Goto(t, "throw")
  /\ UNCHANGED <<mutex, closed, data, conds, op>>

\* The exception leaves the method: the unique_lock, if any, is destroyed.
Throw(t) ==
  /\ pc[t] = "throw"
  /\ mutex' = Free(t)
  /\ Goto(t, "idle")
  /\ UNCHANGED <<closed, inflight, data, conds, op>>

\* The ticket is destroyed when the method returns.
Leave(t) ==
  /\ pc[t] = "leave"
  /\ inflight' = inflight - 1
  /\ Goto(t, "idle")
  /\ UNCHANGED <<mutex, closed, data, conds, op>>

-----------------------------------------------------------------------------
(* The queue methods.                                                      *)

\* Acquire m_mutex on entry, or again after a sleep on a condition variable.
Lock(t) ==
  /\ pc[t] \in {"lock", "woken", "expired", "cancelled"}
  /\ mutex = NoThread
  /\ mutex' = t
  /\ Goto(t, CASE pc[t] = "woken" -> "test"
               [] pc[t] = "expired" -> "collect"
               [] pc[t] = "cancelled" ->
                    IF op[t] \in Unguarded THEN "throw" ELSE "dropTicket"
               [] pc[t] = "lock" ->
                    IF op[t] \in LocksFirst THEN "gateCheck" ELSE "locked")
  /\ UNCHANGED <<closed, inflight, data, conds, op>>

\* Mutant: push puts the item at the front.
PushFront(t) ==
  /\ pc[t] = "locked" /\ op[t] = "push"
  /\ queue' = <<pushCount + 1>> \o queue
  /\ pushCount' = pushCount + 1
  /\ mutex' = NoThread
  /\ Goto(t, "notifyOne")
  /\ UNCHANGED <<closed, inflight, popCount, delivered, conds, op>>

\* Mutant: push forgets to notify.
PushSilently(t) ==
  /\ pc[t] = "locked" /\ op[t] = "push"
  /\ queue' = Append(queue, pushCount + 1)
  /\ pushCount' = pushCount + 1
  /\ mutex' = NoThread
  /\ Goto(t, "leave")
  /\ UNCHANGED <<closed, inflight, popCount, delivered, conds, op>>

\* pushImpl(): emplace_back under the lock, then unlock.
PushItem(t) ==
  /\ pc[t] = "locked" /\ op[t] = "push"
  /\ queue' = Append(queue, pushCount + 1)
  /\ pushCount' = pushCount + 1
  /\ mutex' = NoThread
  /\ Goto(t, "notifyOne")
  /\ UNCHANGED <<closed, inflight, popCount, delivered, conds, op>>

\* Remove n items from the front, unlock, and pick the notification to send.
TakeItems(t, n) ==
  /\ delivered' = delivered \o SubSeq(queue, 1, n)
  /\ queue' = SubSeq(queue, n + 1, Len(queue))
  /\ popCount' = popCount + n
  /\ mutex' = NoThread
  /\ Goto(t, IF Len(queue) = n THEN "notifyEmpty" ELSE "notifyOne")
  /\ UNCHANGED <<closed, inflight, pushCount, conds, op>>

\* popOptional(wait) with an item in the queue, or empty-handed without wait:
\* the shutdown flag is not looked at again.
PopNow(t) ==
  /\ pc[t] = "locked" /\ op[t] \in LocksFirst
  /\ queue # <<>> \/ op[t] = "popNoWait"
  /\ TakeItems(t, IF queue # <<>> THEN 1 ELSE 0)

\* popOptional(true) on an empty queue, pop(count, timeout) and waitForEmpty()
\* go on to wait for their predicate.
StartWait(t) ==
  /\ pc[t] = "locked"
  /\ \/ op[t] = "pop" /\ queue = <<>>
     \/ op[t] \in {"popBatch", "popTimed", "waitForEmpty"}
  /\ Goto(t, "test")
  /\ UNCHANGED <<mutex, closed, inflight, data, conds, op>>

\* The predicates passed to condition_variable::wait.
Ready(t) ==
  \/ closed
  \/ op[t] = "pop" /\ queue # <<>>
  \/ op[t] \in {"popBatch", "popTimed"} /\ Len(queue) >= BatchCount
  \/ op[t] = "waitForEmpty" /\ queue = <<>>

TestPredicate(t) ==
  /\ pc[t] = "test"
  /\ Goto(t, IF Ready(t) THEN "collect" ELSE "block")
  /\ UNCHANGED <<mutex, closed, inflight, data, conds, op>>

\* The atomic release-and-sleep of condition_variable::wait.
Block(t) ==
  /\ pc[t] = "block"
  /\ mutex' = NoThread
  /\ IF op[t] = "waitForEmpty"
     THEN /\ emptyWaiters' = emptyWaiters \cup {t}
          /\ UNCHANGED notEmptyWaiters
     ELSE /\ notEmptyWaiters' = notEmptyWaiters \cup {t}
          /\ UNCHANGED emptyWaiters
  /\ Goto(t, "wait")
  /\ UNCHANGED <<closed, inflight, data, op>>

StopWaiting(t, p) ==
  /\ pc[t] = "wait"
  /\ notEmptyWaiters' = notEmptyWaiters \ {t}
  /\ emptyWaiters' = emptyWaiters \ {t}
  /\ Goto(t, p)
  /\ UNCHANGED <<mutex, closed, inflight, data, op>>

\* A condition variable may wake a thread nobody notified.
SpuriousWake(t) == StopWaiting(t, "woken")

\* The deadline of pop(count, timeout > 0) passes.
TimeOut(t) == op[t] = "popTimed" /\ StopWaiting(t, "expired")

\* The predicate held (or the deadline passed) and the lock is held.
\* popOptional() reads the shutdown flag once more before it takes the front.
CollectOne(t) ==
  /\ pc[t] = "collect" /\ op[t] = "pop"
  /\ TakeItems(t, IF closed THEN 0 ELSE 1)

CollectBatch(t) ==
  /\ pc[t] = "collect" /\ op[t] \in {"popBatch", "popTimed"}
  /\ TakeItems(t, IF Len(queue) < BatchCount THEN Len(queue) ELSE BatchCount)

\* waitForEmpty() returns m_pop_count (after asserting it is m_push_count).
ReturnCount(t) ==
  /\ pc[t] = "collect" /\ op[t] = "waitForEmpty"
  /\ mutex' = NoThread
  /\ Goto(t, "idle")
  /\ UNCHANGED <<closed, inflight, data, conds, op>>

\* m_not_empty_cond.notify_one(), after the unlock.
NotifyOne(t) ==
  /\ pc[t] = "notifyOne"
  /\ \/ /\ notEmptyWaiters = {}
        /\ Goto(t, "leave")
        /\ UNCHANGED notEmptyWaiters
     \/ \E w \in notEmptyWaiters :
          /\ notEmptyWaiters' = notEmptyWaiters \ {w}
          /\ pc' = [pc EXCEPT ![t] = "leave", ![w] = "woken"]
  /\ UNCHANGED <<mutex, closed, inflight, data, emptyWaiters, op>>

WakeAll(t, waiters, p) ==
  pc' = [s \in Threads |-> IF s = t THEN p
                           ELSE IF s \in waiters THEN "woken" ELSE pc[s]]

\* m_empty_cond.notify_all() by a pop that left the queue empty.
NotifyEmpty(t) ==
  /\ pc[t] = "notifyEmpty"
  /\ emptyWaiters' = {}
  /\ WakeAll(t, emptyWaiters, "leave")
  /\ UNCHANGED <<mutex, closed, inflight, data, notEmptyWaiters, op>>

-----------------------------------------------------------------------------
(* pthread_cancel acts at the testcancel() after the lock and in the wait. *)

CancelLocked(t) ==
  /\ t \in Cancellable
  /\ pc[t] = "locked"
  /\ \/ /\ op[t] = "push"           \* the lock is the inner scope of pushImpl()
        /\ mutex' = NoThread
        /\ Goto(t, "leave")
     \/ /\ op[t] = "waitForEmpty"
        /\ Goto(t, "throw")
        /\ UNCHANGED mutex
     \/ /\ op[t] \notin {"push", "waitForEmpty"}
        /\ Goto(t, "dropTicket")
        /\ UNCHANGED mutex
  /\ UNCHANGED <<closed, inflight, data, conds, op>>

CancelWaiting(t) == t \in Cancellable /\ StopWaiting(t, "cancelled")

-----------------------------------------------------------------------------
(* shutdown().                                                             *)

SetFlag(t) ==
  /\ pc[t] = "setFlag"
  /\ closed' = TRUE
  /\ Goto(t, "wakeEmpty")
  /\ UNCHANGED <<mutex, inflight, data, conds, op>>

WakeEmpty(t) ==
  /\ pc[t] = "wakeEmpty"
  /\ emptyWaiters' = {}
  /\ WakeAll(t, emptyWaiters, "wakeNotEmpty")
  /\ UNCHANGED <<mutex, closed, inflight, data, notEmptyWaiters, op>>

WakeNotEmpty(t) ==
  /\ pc[t] = "wakeNotEmpty"
  /\ notEmptyWaiters' = {}
  /\ WakeAll(t, notEmptyWaiters, "awaitInflight")
  /\ UNCHANGED <<mutex, closed, inflight, data, emptyWaiters, op>>

\* waitForEmptyInflight(): atomic::wait until the count is seen at zero.
AwaitInflight(t) ==
  /\ pc[t] = "awaitInflight"
  /\ inflight = 0
  /\ Goto(t, "returned")
  /\ UNCHANGED <<mutex, closed, inflight, data, conds, op>>

-----------------------------------------------------------------------------

Init ==
  /\ mutex = NoThread
  /\ closed = FALSE
  /\ inflight = 0
  /\ queue = <<>>
  /\ pushCount = 0
  /\ popCount = 0
  /\ notEmptyWaiters = {}
  /\ emptyWaiters = {}
  /\ pc = [t \in Threads |-> "idle"]
  /\ op = [t \in Threads |-> "pop"]
  /\ delivered = <<>>

\* What a running thread does next; the code of the methods.
Step(t) ==
  \/ GateCheck(t) \/ GateAdd(t) \/ GateRecheck(t) \/ DropTicket(t)
  \/ Throw(t) \/ Leave(t)
  \/ Lock(t) \/ PushItem(t) \/ PopNow(t) \/ StartWait(t)
  \/ TestPredicate(t) \/ Block(t)
  \/ CollectOne(t) \/ CollectBatch(t) \/ ReturnCount(t)
  \/ NotifyOne(t) \/ NotifyEmpty(t)
  \/ SetFlag(t) \/ WakeEmpty(t) \/ WakeNotEmpty(t) \/ AwaitInflight(t)

\* What the callers, the clock and other threads may do, and need not.
Environment(t) ==
  \/ Call(t) \/ SpuriousWake(t) \/ TimeOut(t)
  \/ CancelLocked(t) \/ CancelWaiting(t)

Next == \E t \in Threads : Step(t) \/ Environment(t)

Spec == Init /\ [][Next]_vars

\* A running thread keeps running and deadlines pass; nobody has to call,
\* cancel or be woken for no reason.
Fairness ==
  \A t \in Threads : WF_vars(Step(t)) /\ WF_vars(TimeOut(t))

FairSpec == Spec /\ Fairness

-----------------------------------------------------------------------------
(* Properties.                                                             *)

\* A thread is counted in m_inflight_count from the increment in the Ticket
\* constructor to the decrement in its destructor.
HasTicket(p, o) ==
  \/ p \in {"gateRecheck", "dropTicket", "notifyOne", "notifyEmpty", "leave"}
  \/ /\ o \notin Unguarded
     /\ p \in {"locked", "test", "block", "wait", "woken", "expired",
               "cancelled", "collect"}
  \/ p = "lock" /\ o \notin LocksFirst \cup Unguarded

Ticketed == {t \in Threads : HasTicket(pc[t], op[t])}

\* The guarded calls that passed the second test of the gate.
Admitted == {t \in Ticketed : pc[t] \notin {"gateRecheck", "dropTicket"}}

\* The in-flight counter shutdown() waits on is exactly the number of
\* outstanding tickets, on every path: return, rejection by the gate, timeout
\* and pthread cancellation (Ticket, cleanup_thunk_inflight).
InflightExact == inflight = Cardinality(Ticketed)

\* Once shutdown() has returned no push or pop that was let in is still
\* running, and none is let in later, although a call may have passed the
\* first test of the flag long before (Ticket::Ticket against
\* waitForEmptyInflight).
ShutdownQuiesces == (\E t \in Threads : pc[t] = "returned") => Admitted = {}

\* popOptional() never takes the front of an empty queue: between the wake-up
\* and the second read of the flag the queue may be emptied and shut down in
\* any order.
FrontDefined ==
  \A t \in Threads :
    (pc[t] = "collect" /\ op[t] = "pop" /\ ~closed) => queue # <<>>

\* The queue behaves as a FIFO queue.
Fifo == INSTANCE FifoQueue
          WITH items <- queue, entered <- pushCount, taken <- delivered

ImplementsFifo == Fifo!Spec

\* A pop() asleep beside an item is woken, or the items go to other callers.
PopServed ==
  \A t \in Threads :
    (pc[t] = "wait" /\ op[t] = "pop" /\ queue # <<>>)
       ~> (pc[t] # "wait" \/ queue = <<>>)

\* shutdown() releases every call asleep in the queue.
ShutdownReleases ==
  \A t \in Threads : (closed /\ pc[t] = "wait") ~> pc[t] # "wait"

=============================================================================
