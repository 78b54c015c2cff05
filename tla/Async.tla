------------------------------- MODULE Async --------------------------------
(***************************************************************************)
(* Dmn_Async (include/dmn-async.hpp): a pipe with scheduled writes whose   *)
(* items are task handles.  The processing function runs the task and      *)
(* fulfils its promise with a value or the task's exception, so it never   *)
(* throws itself and the pipe never fails.                                 *)
(*                                                                         *)
(* addExecTaskAfter() and its variants read the clock, convert the delay   *)
(* and compute the deadline before the pipe's mutex is taken, so a caller  *)
(* may be delayed between the two.  Delays are given in half ticks of the  *)
(* clock: a delay of an odd number of them is not representable.  MaxTime  *)
(* is the largest value of the clock's representation.                     *)
(***************************************************************************)
EXTENDS Pipe, Integers

CONSTANTS
  Callers,  \* threads that submit delayed tasks
  Delays    \* the delays they ask for, in half ticks

ASSUME AsyncAssumption ==
  /\ Scheduled /\ HasFn /\ ~FnThrows
  /\ Readers = {}
  /\ Delays \subseteq Int

VARIABLES
  promise,   \* the state of each task's promise
  caller,    \* the callers of addExecTaskAfter(): the deadline computed
  asked      \* history: per task, the half tick before which it must not run

avars == <<vars, promise, caller, asked>>

NoCall == [at |-> "idle", deadline |-> 0, earliest |-> 0]

-----------------------------------------------------------------------------

\* Mutant: the conversion rounds towards zero.
ToClockDurationDown(delay) == delay \div 2

\* toClockDuration(): std::ceil to whole ticks.
ToClockDuration(delay) == (delay + 1) \div 2

\* nextDeadline().
NextDeadline(ticks) == now + ticks

\* The delays that are not refused: std::invalid_argument for a negative one,
\* std::overflow_error for one out of the clock's range, on its own or added to
\* the present time.
Representable(delay) ==
  /\ delay >= 0
  /\ ToClockDuration(delay) <= MaxTime
  /\ ~(now > 0 /\ ToClockDuration(delay) > MaxTime - now)

\* addExecTaskAfterWithWait() up to the call of writeAt().
AddExecTaskAfter(c) ==
  /\ caller[c].at = "idle"
  /\ ~shut
  /\ \E delay \in Delays :
       /\ Representable(delay)
       /\ caller' = [caller EXCEPT ![c] =
                       [at |-> "submit",
                        deadline |-> NextDeadline(ToClockDuration(delay)),
                        earliest |-> 2 * now + delay]]
  /\ UNCHANGED <<vars, promise, asked>>

\* Its call of writeAt().
SubmitAfter(c) ==
  /\ caller[c].at = "submit"
  /\ Accept(caller[c].deadline)
  /\ Emplace(caller[c].deadline)
  /\ promise' = [promise EXCEPT ![submitted + 1] = "pending"]
  /\ asked' = Append(asked, caller[c].earliest)
  /\ caller' = [caller EXCEPT ![c] = NoCall]
  /\ UNCHANGED queue

\* The pipe was shut down in between: writeAt() throws.
SubmitRefused(c) ==
  /\ caller[c].at = "submit" /\ ~Accepting
  /\ caller' = [caller EXCEPT ![c] = NoCall]
  /\ UNCHANGED <<vars, promise, asked>>

\* addExecTask(), addExecTaskWithWait(), addExecTaskFuture().
AddExecTask ==
  /\ Write
  /\ promise' = [promise EXCEPT ![submitted + 1] = "pending"]
  /\ asked' = Append(asked, 0)
  /\ UNCHANGED caller

\* Mutant: an exception of the task leaves the promise alone.
RunTaskForgets ==
  /\ RunItem(Worker)
  /\ \/ promise' = [promise EXCEPT ![Head(hand[Worker])] = "value"]
     \/ UNCHANGED promise
  /\ UNCHANGED <<caller, asked>>

\* The processing function given to the pipe.  The promise behind a future of
\* addExecTaskFuture() is set in the same call, just before the handle's own.
RunTask ==
  /\ RunItem(Worker)
  /\ \E r \in {"value", "exception"} :
       promise' = [promise EXCEPT ![Head(hand[Worker])] = r]
  /\ UNCHANGED <<caller, asked>>

\* The rest of the pipe, with the destructor as its shutdown.
PipeWorkerStep ==
  /\ BatchDone(Worker) \/ Account(Worker) \/ Select \/ Alarm
  /\ UNCHANGED <<promise, caller, asked>>

PipeStep ==
  /\ \/ Tick \/ CloserStep \/ BeginShutdown \/ SpuriousWake
     \/ \E w \in Waiters : WaiterStep(w) \/ WaitCall(w) \/ SpuriousTest(w)
  /\ UNCHANGED <<promise, caller, asked>>

AsyncInit ==
  /\ Init
  /\ promise = [i \in Items |-> "none"]
  /\ caller = [c \in Callers |-> NoCall]
  /\ asked = <<>>

AsyncNext ==
  \/ AddExecTask \/ RunTask \/ PipeWorkerStep \/ PipeStep
  \/ \E c \in Callers : AddExecTaskAfter(c) \/ SubmitAfter(c) \/ SubmitRefused(c)

AsyncSpec == AsyncInit /\ [][AsyncNext]_avars

\* Time passes, the worker runs, tasks return or throw, a shutdown goes on.
AsyncFairness ==
  /\ WF_avars(Tick /\ UNCHANGED <<promise, caller, asked>>)
  /\ WF_avars(RunTask \/ PipeWorkerStep)
  /\ WF_avars(CloserStep /\ UNCHANGED <<promise, caller, asked>>)

AsyncFairSpec == AsyncSpec /\ AsyncFairness

-----------------------------------------------------------------------------
(* Properties.                                                             *)

\* A delayed task never starts before the requested delay has passed since the
\* call, whatever the rounding of the delay, the range of the clock and the time
\* the caller lost between computing the deadline and submitting it.
NotEarly == \A i \in Range(log) \cup Held : 2 * now >= asked[i]

\* What makes NotEarly inductive: a caller computed a deadline that is not before
\* what it asked for, a task keeps both, and a delayed task leaves
\* m_scheduled_queue when it is due.
DeadlinesHonest ==
  /\ caller \in [Callers -> [at: {"idle", "submit"}, deadline: 0 .. MaxTime, earliest: Int]]
  /\ \A c \in Callers : caller[c].earliest <= 2 * caller[c].deadline
  /\ asked \in Seq(Int) /\ Len(asked) = submitted
  /\ \A i \in 1 .. submitted :
       IF due[i] = Immediate THEN asked[i] = 0 ELSE asked[i] <= 2 * due[i]
  /\ \A i \in Range(log) \cup Held : due[i] # Immediate => due[i] <= now

\* The promises of the tasks that have run are fulfilled, those of the others
\* that were accepted are not.
PromisesAgree ==
  /\ promise \in [Items -> {"none", "pending", "value", "exception"}]
  /\ \A i \in Items : /\ promise[i] \in {"value", "exception"} <=> i \in Range(log)
                      /\ promise[i] = "none" <=> i > submitted

AsyncInv == DeadlinesHonest /\ PromisesAgree

\* A promise once fulfilled keeps its outcome: no task runs twice, and none
\* after the destructor returned.
FulfilledOnce ==
  [][\A i \in Items : promise[i] \in {"value", "exception"}
                         => promise'[i] = promise[i]]_avars

\* Every accepted task's handle or future becomes ready, also if the object is
\* destroyed meanwhile and however many immediate tasks are ahead of it.
PromiseKept == \A i \in Items : promise[i] = "pending" ~> promise[i] # "pending"

\* The pipe and the promises implement the executor the other components use.
Executor == INSTANCE SerialExecutor
  WITH clock <- now, deadline <- due, ready <- queue, delayed <- Range(sched),
       current <- hand[Worker], finished <- log

ImplementsExecutor == Executor!Spec
=============================================================================
