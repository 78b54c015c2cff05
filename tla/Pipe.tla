-------------------------------- MODULE Pipe --------------------------------
(***************************************************************************)
(* Dmn_Pipe (include/dmn-pipe.hpp): a queue, a worker thread that calls    *)
(* the processing function for each item, the accounting that              *)
(* waitForEmpty() waits on, and shutdown.  A pipe is either ordinary (the  *)
(* worker pops batches from the queue) or has scheduled writes (the worker *)
(* prefers queued items and otherwise takes the item with the earliest     *)
(* deadline once it is due).                                               *)
(*                                                                         *)
(* One action is one critical section of the pipe's m_mutex, one operation *)
(* of the underlying queue, or one call of the processing function.  The   *)
(* queue is the FIFO queue that BlockingQueueMt is shown to implement,     *)
(* with its gate (closed to calls that start after its shutdown) and its   *)
(* shutdown's wait for the calls already inside.                           *)
(*                                                                         *)
(* Items are numbered in the order in which they are accepted.             *)
(***************************************************************************)
EXTENDS Naturals, Sequences, FiniteSets, SequencesExt

CONSTANTS
  Worker,      \* the background thread
  Readers,     \* threads that call read() or readAndProcess()
  Waiters,     \* threads that call waitForEmpty()
  Scheduled,   \* m_scheduled_writes_enabled
  HasFn,       \* m_hasFn: a processing function, so a worker, was given
  BatchCount,  \* count of the worker's readAndProcess(fn, count, timeout)
  Timed,       \* whether that call has a timeout
  FnThrows,    \* whether the processing function may throw
  Immediate,   \* in place of a deadline: an ordinary write
  MaxWrites,   \* bound on the accepted writes
  MaxTime      \* bound on the clock, and so on the deadlines

ASSUME PipeAssumption ==
  /\ Worker \notin Readers
  /\ IsFiniteSet(Readers)
  /\ {Scheduled, HasFn, Timed, FnThrows} \subseteq BOOLEAN
  /\ Scheduled => HasFn
  /\ BatchCount \in Nat \ {0}
  /\ Immediate \notin Nat
  /\ MaxWrites \in Nat
  /\ MaxTime \in Nat

Agents == {Worker} \cup Readers

VARIABLES
  now,        \* steady_clock
  queue,      \* the underlying queue
  queueShut,  \* the queue's own shutdown flag
  popCount,   \* the queue's m_pop_count
  sched,      \* m_scheduled_queue, in multimap order
  submitted,  \* m_submitted_count (in ordinary mode the queue's m_push_count)
  count,      \* m_count
  failure,    \* whether m_processing_exception is set
  shut,       \* m_shutdown_flag
  pc,         \* where each agent is
  hand,       \* the items each agent has taken and not yet processed
  done,       \* processedCount of each agent's current batch
  alarm,      \* the deadline of the worker's wait_until
  wait,       \* where each waitForEmpty() call is
  snapshot,   \* inbound_count of each waitForEmpty() call
  closer,     \* where the shutdown() call is
  due,        \* history: Immediate, or the deadline, of each accepted item
  log         \* history: the items the processing function has processed

io == <<queue, popCount, sched, submitted, due>>
acct == <<count, failure, log>>
agents == <<pc, hand, done, alarm>>
waiting == <<wait, snapshot>>
vars == <<now, io, queueShut, acct, shut, agents, waiting, closer>>

-----------------------------------------------------------------------------

Points == {"idle", "gate", "pop", "run", "account", "fail", "check",
           "select", "sleep", "exited"}
WaitPoints == {"idle", "queueWait", "test", "asleep",
               "drained", "interrupted", "rethrown"}
Returned == {"drained", "interrupted", "rethrown"}
ClosePoints == {"idle", "join", "closeQueue", "awaitInflight", "returned"}
Items == 1 .. MaxWrites
NoAlarm == MaxTime + 1

TypeOK ==
  /\ now \in 0 .. MaxTime
  /\ queue \in Seq(Items)
  /\ queueShut \in BOOLEAN
  /\ popCount \in Nat
  /\ sched \in Seq(Items)
  /\ submitted \in Nat
  /\ count \in Nat
  /\ failure \in BOOLEAN
  /\ shut \in BOOLEAN
  /\ pc \in [Agents -> Points]
  /\ hand \in [Agents -> Seq(Items)]
  /\ done \in [Agents -> Nat]
  /\ alarm \in 0 .. NoAlarm
  /\ wait \in [Waiters -> WaitPoints]
  /\ snapshot \in [Waiters -> Nat]
  /\ closer \in ClosePoints
  /\ due \in Seq({Immediate} \cup (0 .. MaxTime))
  /\ log \in Seq(Items)

Goto(a, p) == pc' = [pc EXCEPT ![a] = p]

\* Mutant: the condition variable is not notified.
EmptyUnnotified == wait

\* Notifications of m_work_cond (only the worker waits there) and m_empty_cond.
WorkNotified == [pc EXCEPT ![Worker] = IF @ = "sleep" THEN "select" ELSE @]
EmptyNotified ==
  [w \in Waiters |-> IF wait[w] = "asleep" THEN "test" ELSE wait[w]]

-----------------------------------------------------------------------------
(* write() and writeAt().                                                  *)

Tick ==
  /\ now < MaxTime
  /\ now' = now + 1
  /\ UNCHANGED <<io, queueShut, acct, shut, agents, waiting, closer>>

\* With scheduled writes the pipe's own flag is tested under the mutex;
\* otherwise only the queue's gate decides.
Accepting == IF Scheduled THEN ~shut ELSE ~queueShut

Accept(deadline) ==
  /\ Accepting
  /\ submitted < MaxWrites
  /\ submitted' = submitted + 1
  /\ due' = Append(due, deadline)
  /\ pc' = IF Scheduled THEN WorkNotified ELSE pc
  /\ UNCHANGED <<now, queueShut, popCount, acct, shut, hand, done, alarm,
                 waiting, closer>>

Write ==
  /\ Accept(Immediate)
  /\ queue' = Append(queue, submitted + 1)
  /\ UNCHANGED sched

\* Mutant: equal deadlines in reverse order of submission.
InsertBeforeEqual(deadline) ==
  {p \in 1 .. Len(sched) + 1 : \A i \in DOMAIN sched : i < p <=> due[sched[i]] < deadline}

\* multimap::emplace puts an item behind those with an equal deadline: the one
\* position (sched is sorted) that separates them from the later deadlines.
InsertPosition(deadline) ==
  {p \in 1 .. Len(sched) + 1 : \A i \in DOMAIN sched : i < p <=> due[sched[i]] <= deadline}

\* m_scheduled_queue.emplace().
Emplace(deadline) ==
  \E p \in InsertPosition(deadline) : sched' = InsertAt(sched, p, submitted + 1)

WriteAt ==
  /\ Scheduled
  /\ \E deadline \in 0 .. MaxTime :
       /\ Accept(deadline)
       /\ Emplace(deadline)
  /\ UNCHANGED queue

-----------------------------------------------------------------------------
(* readAndProcess(), by a reader or by the worker of an ordinary pipe.     *)

ReadCall(r) ==
  /\ r \in Readers
  /\ pc[r] = "idle"
  /\ Goto(r, "gate")
  /\ UNCHANGED <<now, io, queueShut, acct, shut, hand, done, alarm, waiting,
                 closer>>

\* enterInflightGate() in the queue's pop(count, timeout): after the queue's
\* shutdown it throws.  A reader's caller gets the exception; the worker's
\* loop records it.
Gate(a) ==
  /\ pc[a] = "gate"
  /\ Goto(a, IF ~queueShut THEN "pop" ELSE IF a = Worker THEN "fail" ELSE "idle")
  /\ UNCHANGED <<now, io, queueShut, acct, shut, hand, done, alarm, waiting,
                 closer>>

Wanted(a) == IF a = Worker THEN BatchCount ELSE 1

Pop(a) ==
  /\ pc[a] = "pop"
  /\ \/ Len(queue) >= Wanted(a)
     \/ queueShut
     \/ a = Worker /\ Timed
  /\ LET n == IF Len(queue) < Wanted(a) THEN Len(queue) ELSE Wanted(a)
     IN  /\ hand' = [hand EXCEPT ![a] = SubSeq(queue, 1, n)]
         /\ queue' = SubSeq(queue, n + 1, Len(queue))
         /\ popCount' = popCount + n
  /\ done' = [done EXCEPT ![a] = 0]
  /\ Goto(a, "run")
  /\ UNCHANGED <<now, queueShut, sched, submitted, due, acct, shut, alarm,
                 waiting, closer>>

-----------------------------------------------------------------------------
(* Calls of the processing function and the accounting.                    *)

RunItem(a) ==
  /\ pc[a] = "run" /\ hand[a] # <<>>
  /\ log' = Append(log, Head(hand[a]))
  /\ hand' = [hand EXCEPT ![a] = Tail(@)]
  /\ done' = [done EXCEPT ![a] = @ + 1]
  /\ UNCHANGED <<now, io, queueShut, count, failure, shut, pc, alarm, waiting,
                 closer>>

BatchDone(a) ==
  /\ pc[a] = "run" /\ hand[a] = <<>>
  /\ Goto(a, "account")
  /\ UNCHANGED <<now, io, queueShut, acct, shut, hand, done, alarm, waiting,
                 closer>>

\* The processing function throws: the rest of the batch stays in the hand of
\* a call that is unwinding.
RunThrows(a) ==
  /\ FnThrows
  /\ pc[a] = "run" /\ hand[a] # <<>>
  /\ Goto(a, "fail")
  /\ UNCHANGED <<now, io, queueShut, acct, shut, hand, done, alarm, waiting,
                 closer>>

Account(a) ==
  /\ pc[a] = "account"
  /\ count' = count + done[a]
  /\ done' = [done EXCEPT ![a] = 0]
  /\ wait' = EmptyNotified
  /\ Goto(a, IF a # Worker THEN "idle" ELSE IF Scheduled THEN "select"
             ELSE "check")
  /\ UNCHANGED <<now, io, queueShut, failure, log, shut, hand, alarm, snapshot,
                 closer>>

\* Mutant: the item that threw is counted as processed.
FailCountsItem(a) ==
  /\ pc[a] = "fail"
  /\ count' = count + done[a] + 1
  /\ failure' = TRUE
  /\ done' = [done EXCEPT ![a] = 0]
  /\ wait' = EmptyNotified
  /\ pc' = [WorkNotified EXCEPT ![a] = IF a = Worker THEN "exited" ELSE "idle"]
  /\ hand' = [hand EXCEPT ![a] = IF a = Worker THEN @ ELSE <<>>]
  /\ UNCHANGED <<now, io, queueShut, log, shut, alarm, snapshot, closer>>

\* The exception path of readAndProcess() and recordProcessingFailure(): the
\* processed prefix is counted, the first failure kept, everybody notified.
\* The worker's loop ends; the items in its hand are never processed.
Fail(a) ==
  /\ pc[a] = "fail"
  /\ count' = count + done[a]
  /\ failure' = TRUE
  /\ done' = [done EXCEPT ![a] = 0]
  /\ wait' = EmptyNotified
  /\ pc' = [WorkNotified EXCEPT ![a] = IF a = Worker THEN "exited" ELSE "idle"]
  /\ hand' = [hand EXCEPT ![a] = IF a = Worker THEN @ ELSE <<>>]
  /\ UNCHANGED <<now, io, queueShut, log, shut, alarm, snapshot, closer>>

\* The loop condition of the ordinary worker.
Check ==
  /\ pc[Worker] = "check"
  /\ Goto(Worker, IF shut \/ failure THEN "exited" ELSE "gate")
  /\ UNCHANGED <<now, io, queueShut, acct, shut, hand, done, alarm, waiting,
                 closer>>

-----------------------------------------------------------------------------
(* scheduledProcessingLoop(): one pass of its inner loop.                  *)

Take(item) ==
  /\ hand' = [hand EXCEPT ![Worker] = <<item>>]
  /\ done' = [done EXCEPT ![Worker] = 0]
  /\ Goto(Worker, "run")
  /\ UNCHANGED alarm

Quit == Goto(Worker, "exited") /\ UNCHANGED <<hand, done, alarm>>

Sleep(deadline) ==
  /\ alarm' = deadline
  /\ Goto(Worker, "sleep")
  /\ UNCHANGED <<hand, done>>

Select ==
  /\ pc[Worker] = "select"
  /\ \/ failure /\ Quit /\ UNCHANGED io
     \/ /\ ~failure /\ queue # <<>>
        /\ Take(Head(queue))
        /\ queue' = Tail(queue)
        /\ popCount' = popCount + 1
        /\ UNCHANGED <<sched, submitted, due>>
     \/ /\ ~failure /\ queue = <<>> /\ sched # <<>>
        /\ due[Head(sched)] <= now
        /\ Take(Head(sched))
        /\ sched' = Tail(sched)
        /\ UNCHANGED <<queue, popCount, submitted, due>>
     \/ /\ ~failure /\ queue = <<>> /\ sched # <<>>
        /\ due[Head(sched)] > now
        /\ Sleep(due[Head(sched)])
        /\ UNCHANGED io
     \/ ~failure /\ queue = <<>> /\ sched = <<>> /\ shut /\ Quit /\ UNCHANGED io
     \/ /\ ~failure /\ queue = <<>> /\ sched = <<>> /\ ~shut
        /\ Sleep(NoAlarm)
        /\ UNCHANGED io
  /\ UNCHANGED <<now, queueShut, acct, shut, waiting, closer>>

\* The deadline of wait_until passes.
Alarm ==
  /\ pc[Worker] = "sleep" /\ alarm <= now
  /\ Goto(Worker, "select")
  /\ UNCHANGED <<now, io, queueShut, acct, shut, hand, done, alarm, waiting,
                 closer>>

\* Waits on m_work_cond and m_empty_cond may also end for no reason.
SpuriousWake ==
  /\ pc[Worker] = "sleep"
  /\ Goto(Worker, "select")
  /\ UNCHANGED <<now, io, queueShut, acct, shut, hand, done, alarm, waiting,
                 closer>>

SpuriousTest(w) ==
  /\ wait[w] = "asleep"
  /\ wait' = [wait EXCEPT ![w] = "test"]
  /\ UNCHANGED <<now, io, queueShut, acct, shut, agents, snapshot, closer>>

-----------------------------------------------------------------------------
(* waitForEmpty().                                                         *)

\* With scheduled writes the call takes its snapshot at once; otherwise it
\* first waits for the queue to be empty.
WaitCall(w) ==
  /\ wait[w] \in {"idle"} \cup Returned
  /\ IF Scheduled
     THEN /\ wait' = [wait EXCEPT ![w] = "test"]
          /\ snapshot' = [snapshot EXCEPT ![w] = submitted]
     ELSE /\ wait' = [wait EXCEPT ![w] = "queueWait"]
          /\ UNCHANGED snapshot
  /\ UNCHANGED <<now, io, queueShut, acct, shut, agents, closer>>

\* QueueType::waitForEmpty() returns the number of items popped so far.
QueueEmpty(w) ==
  /\ wait[w] = "queueWait"
  /\ queue = <<>> \/ queueShut
  /\ wait' = [wait EXCEPT ![w] = "test"]
  /\ snapshot' = [snapshot EXCEPT ![w] = popCount]
  /\ UNCHANGED <<now, io, queueShut, acct, shut, agents, closer>>

\* The predicate of the wait on m_empty_cond, tested under the mutex, and what
\* the call does when it holds.
WaitTest(w) ==
  /\ wait[w] = "test"
  /\ wait' = [wait EXCEPT ![w] = IF failure THEN "rethrown"
                                 ELSE IF count >= snapshot[w] THEN "drained"
                                 ELSE IF shut THEN "interrupted" ELSE "asleep"]
  /\ UNCHANGED <<now, io, queueShut, acct, shut, agents, snapshot, closer>>

-----------------------------------------------------------------------------
(* shutdown(), also the destructor's; callers serialize it.                *)

\* With scheduled writes the flag is set under the mutex and everybody is
\* notified; the worker is joined before the queue is closed.
BeginShutdown ==
  /\ closer = "idle"
  /\ shut' = TRUE
  /\ IF Scheduled
     THEN /\ closer' = "join"
          /\ pc' = WorkNotified
          /\ wait' = EmptyNotified
     ELSE /\ closer' = "closeQueue"
          /\ UNCHANGED <<pc, wait>>
  /\ UNCHANGED <<now, io, queueShut, acct, hand, done, alarm, snapshot>>

Join ==
  /\ closer = "join"
  /\ pc[Worker] = "exited"
  /\ closer' = IF Scheduled THEN "closeQueue" ELSE "returned"
  /\ UNCHANGED <<now, io, queueShut, acct, shut, agents, waiting>>

CloseQueue ==
  /\ closer = "closeQueue"
  /\ queueShut' = TRUE
  /\ closer' = "awaitInflight"
  /\ UNCHANGED <<now, io, acct, shut, agents, waiting>>

\* The queue's shutdown waits for the calls inside the queue.
AwaitInflight ==
  /\ closer = "awaitInflight"
  /\ \A a \in Agents : pc[a] # "pop"
  /\ closer' = IF Scheduled \/ ~HasFn THEN "returned" ELSE "join"
  /\ UNCHANGED <<now, io, queueShut, acct, shut, agents, waiting>>

-----------------------------------------------------------------------------

Init ==
  /\ now = 0
  /\ queue = <<>> /\ queueShut = FALSE /\ popCount = 0
  /\ sched = <<>> /\ submitted = 0
  /\ count = 0 /\ failure = FALSE /\ shut = FALSE
  /\ pc = [a \in Agents |->
             IF a # Worker THEN "idle" ELSE IF Scheduled THEN "select"
             ELSE IF HasFn THEN "gate" ELSE "exited"]
  /\ hand = [a \in Agents |-> <<>>]
  /\ done = [a \in Agents |-> 0]
  /\ alarm = NoAlarm
  /\ wait = [w \in Waiters |-> "idle"]
  /\ snapshot = [w \in Waiters |-> 0]
  /\ closer = "idle"
  /\ due = <<>> /\ log = <<>>

\* A thread inside the pipe's code, or inside the processing function.
AgentStep(a) ==
  \/ Gate(a) \/ Pop(a) \/ RunItem(a) \/ BatchDone(a) \/ RunThrows(a)
  \/ Account(a) \/ Fail(a)
  \/ a = Worker /\ (Check \/ Select \/ Alarm)

WaiterStep(w) == QueueEmpty(w) \/ WaitTest(w)

CloserStep == Join \/ CloseQueue \/ AwaitInflight

Environment ==
  \/ Write \/ WriteAt \/ BeginShutdown \/ SpuriousWake
  \/ \E r \in Readers : ReadCall(r)
  \/ \E w \in Waiters : WaitCall(w) \/ SpuriousTest(w)

Next ==
  \/ Tick \/ CloserStep \/ Environment
  \/ \E a \in Agents : AgentStep(a)
  \/ \E w \in Waiters : WaiterStep(w)

Spec == Init /\ [][Next]_vars

\* Time passes, threads inside the pipe run and the processing function
\* returns or throws; nobody has to write, read, wait or shut down.
Fairness ==
  /\ WF_vars(Tick) /\ WF_vars(CloserStep)
  /\ \A a \in Agents : WF_vars(AgentStep(a))
  /\ \A w \in Waiters : WF_vars(WaiterStep(w))

FairSpec == Spec /\ Fairness

-----------------------------------------------------------------------------
(* Properties.                                                             *)

\* m_count is exactly the number of items processed, up to the batches whose
\* accounting is still to come: no failure path counts an item twice or counts
\* one the processing function did not finish (readAndProcess,
\* scheduledProcessingLoop).
Uncounted == UNION {{a} \X (1 .. done[a]) : a \in Agents}

CountExact == count + Cardinality(Uncounted) = Len(log)

Held == UNION {Range(hand[a]) : a \in Agents}

\* An accepted item is never in two places, whichever of the worker and the
\* readers takes it, and as long as nothing has thrown it is never lost.
EachItemOnce ==
  /\ \A s \in {queue, sched, log} \cup {hand[a] : a \in Agents} : IsInjective(s)
  /\ Range(queue) \cap Range(sched) = {}
  /\ Range(log) \cap Held = {}
  /\ (Range(queue) \cup Range(sched)) \cap (Range(log) \cup Held) = {}
  /\ \A a, b \in Agents : a # b => Range(hand[a]) \cap Range(hand[b]) = {}
  /\ Range(queue) \cup Range(sched) \cup Range(log) \cup Held \subseteq 1 .. submitted
  /\ ~failure => 1 .. submitted
                   \subseteq Range(queue) \cup Range(sched) \cup Range(log) \cup Held

\* When shutdown() of a pipe with scheduled writes has joined the worker, every
\* accepted item, however far away its deadline was, has been processed or is
\* with a reader, unless processing failed.
DrainedAtShutdown ==
  (Scheduled /\ ~failure /\ closer \in {"closeQueue", "awaitInflight", "returned"})
     => \A i \in 1 .. submitted :
          i \in Range(log) \/ \E r \in Readers : i \in Range(hand[r])

\* The sleeping worker has nothing to do before its alarm: no queued item, no
\* earlier deadline, no failure and no finished shutdown was missed between
\* its tests and its going to sleep (m_work_cond).
SleepsSoundly ==
  pc[Worker] = "sleep" =>
     /\ queue = <<>> /\ ~failure
     /\ \A i \in Range(sched) : alarm <= due[i]
     /\ shut => sched # <<>>

\* The worker takes a scheduled item only when it is due, when no ordinary
\* write waits, and when no other pending item has an earlier deadline or the
\* same deadline and an earlier submission.
Pending == {i \in 1 .. submitted : due[i] # Immediate} \ (Range(log) \cup Held)

Before(i, j) == due[i] < due[j] \/ (due[i] = due[j] /\ i <= j)

DueStep ==
  \A i \in Pending :
     i \in Range(hand'[Worker]) =>
       /\ due[i] <= now
       /\ queue = <<>>
       /\ \A j \in Pending : Before(i, j)

DueOrder == [][DueStep]_vars

\* A waitForEmpty() that returns normally returns after every item of its
\* snapshot was processed.
SnapshotDone ==
  \A w \in Waiters :
    wait[w] = "drained" => 1 .. snapshot[w] \subseteq Range(log)

\* What makes the above inductive.  An item has the deadline it was written
\* with; ordinary items are in the queue and with readers, delayed ones are
\* sorted in m_scheduled_queue and never lost.
ItemsPlaced ==
  /\ Len(due) = submitted
  /\ \A i \in Range(queue) : due[i] = Immediate
  /\ \A r \in Readers : \A i \in Range(hand[r]) : due[i] = Immediate
  /\ \A i \in Range(sched) : due[i] # Immediate
  /\ \A i, j \in DOMAIN sched : i <= j => Before(sched[i], sched[j])
  /\ \A i \in 1 .. submitted :
       due[i] # Immediate => i \in Range(sched) \cup Range(log) \cup Range(hand[Worker])

\* An agent holds and counts items only while it processes a batch; each kind
\* of worker stays in its own loop.
AgentsInLoop ==
  /\ \A a \in Agents : /\ pc[a] \notin {"run", "fail", "exited"} => hand[a] = <<>>
                       /\ pc[a] \notin {"run", "account", "fail"} => done[a] = 0
  /\ \A r \in Readers : pc[r] \in {"idle", "gate", "pop", "run", "account", "fail"}
  /\ Scheduled => /\ pc[Worker] \in {"select", "sleep", "run", "account", "fail", "exited"}
                  /\ Len(hand[Worker]) <= 1
  /\ ~Scheduled => pc[Worker] \notin {"select", "sleep"} /\ sched = <<>>

\* A worker with scheduled writes ends when the shutdown has begun and nothing
\* is left, and the queue is closed after it has ended.
WorkerEndsLast ==
  /\ shut <=> closer # "idle"
  /\ Scheduled /\ closer \in {"closeQueue", "awaitInflight", "returned"}
       => pc[Worker] = "exited"
  /\ Scheduled /\ pc[Worker] = "exited" /\ ~failure
       => shut /\ queue = <<>> /\ sched = <<>> /\ hand[Worker] = <<>>

\* Without readers beside it the worker's counter needs no sum, and an ordinary
\* pipe processes the items in the order of their numbers.
OneReaderFifo ==
  Readers = {} =>
    /\ count + done[Worker] = Len(log)
    /\ ~Scheduled =>
         /\ \A i \in 1 .. Len(log) : log[i] = i
         /\ \A i \in 1 .. Len(hand[Worker]) : hand[Worker][i] = Len(log) + i
         /\ \A i \in 1 .. Len(queue) : queue[i] = Len(log) + Len(hand[Worker]) + i
         /\ submitted = Len(log) + Len(hand[Worker]) + Len(queue)
         /\ SnapshotDone

PipeInv ==
  /\ TypeOK /\ EachItemOnce /\ ItemsPlaced /\ AgentsInLoop /\ WorkerEndsLast
  /\ SleepsSoundly /\ OneReaderFifo

\* Every waitForEmpty() returns, be it by rethrowing.
WaitReturns ==
  \A w \in Waiters :
    wait[w] \in {"queueWait", "test", "asleep"} ~> wait[w] \in Returned

\* shutdown() returns: the worker it joins ends, whatever it was waiting for.
ShutdownReturns == closer # "idle" ~> closer = "returned"

=============================================================================
