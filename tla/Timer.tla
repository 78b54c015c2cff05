------------------------------- MODULE Timer --------------------------------
(***************************************************************************)
(* Dmn_Timer: ticks are written to a scheduled pipe, whose worker runs the *)
(* callback without the mutex and then writes the next tick.  start(),     *)
(* stop() and resume() are called by any thread, the callback included.    *)
(* The pipe hands out what was written to it (module Pipe).                *)
(***************************************************************************)
EXTENDS Naturals

CONSTANT MaxGeneration    \* bound of the calls of start() and resume()

ASSUME TimerAssumption == MaxGeneration \in Nat \ {0}

Never == 0

VARIABLES
  generation,   \* m_generation, Never before the first start()
  active,       \* m_active
  failure,      \* m_failure: the generation whose tick failed, or Never
  queued,       \* ticks in the pipe, of each generation
  worker        \* processTick(): [at, generation]

vars == <<generation, active, failure, queued, worker>>

Generations == 1..MaxGeneration
NewTick == queued' = [queued EXCEPT ![generation + 1] = @ + 1]

\* writeAt() comes first: when it throws, nothing has changed
Start ==
  /\ generation < MaxGeneration /\ NewTick
  /\ generation' = generation + 1 /\ active' = TRUE /\ failure' = Never
  /\ UNCHANGED worker

Stop ==
  /\ active /\ active' = FALSE
  /\ UNCHANGED <<generation, failure, queued, worker>>

\* resume() of an active timer does nothing, of a failed one throws
Resume ==
  /\ ~active /\ failure = Never /\ generation \in 1..(MaxGeneration - 1) /\ NewTick
  /\ generation' = generation + 1 /\ active' = TRUE
  /\ UNCHANGED <<failure, worker>>

-----------------------------------------------------------------------------
(* processTick() *)

Current(g) == active /\ g = generation

TakeTick(g) ==
  /\ worker.at = "idle" /\ queued[g] > 0
  /\ queued' = [queued EXCEPT ![g] = @ - 1]
  /\ worker' = IF Current(g) THEN [at |-> "callback", generation |-> g] ELSE worker
  /\ UNCHANGED <<generation, active, failure>>

\* Mutant: the failure of a tick of an earlier start, too.
StoreFailureOfAny ==
  IF active THEN active' = FALSE /\ failure' = worker.generation ELSE UNCHANGED <<active, failure>>

StoreFailure ==
  IF Current(worker.generation) THEN active' = FALSE /\ failure' = worker.generation ELSE UNCHANGED <<active, failure>>

\* the callback returns, or throws a std::exception, which is ignored
CallbackReturns ==
  /\ worker.at = "callback" /\ worker' = [worker EXCEPT !.at = "reschedule"]
  /\ UNCHANGED <<generation, active, failure, queued>>

CallbackThrows ==
  /\ worker.at = "callback" /\ worker' = [worker EXCEPT !.at = "idle"] /\ StoreFailure
  /\ UNCHANGED <<generation, queued>>

Reschedule ==
  /\ worker.at = "reschedule" /\ worker' = [worker EXCEPT !.at = "idle"]
  /\ queued' = IF Current(worker.generation) THEN [queued EXCEPT ![worker.generation] = @ + 1] ELSE queued
  /\ UNCHANGED <<generation, active, failure>>

\* the deadline overflows or the pipe refuses the tick
RescheduleThrows ==
  /\ worker.at = "reschedule" /\ Current(worker.generation)
  /\ worker' = [worker EXCEPT !.at = "idle"] /\ StoreFailure
  /\ UNCHANGED <<generation, queued>>

-----------------------------------------------------------------------------
Init ==
  /\ generation = Never /\ active = FALSE /\ failure = Never
  /\ queued = [g \in Generations |-> 0] /\ worker = [at |-> "idle", generation |-> 1]

Next ==
  \/ Start \/ Stop \/ Resume
  \/ \E g \in Generations : TakeTick(g)
  \/ CallbackReturns \/ CallbackThrows \/ Reschedule \/ RescheduleThrows

Spec == Init /\ [][Next]_vars
-----------------------------------------------------------------------------
Held(g) == IF worker.at # "idle" /\ worker.generation = g THEN 1 ELSE 0

TypeOK ==
  /\ generation \in 0..MaxGeneration /\ active \in BOOLEAN /\ failure \in 0..MaxGeneration
  /\ queued \in [Generations -> Nat]
  /\ worker \in [at: {"idle", "callback", "reschedule"}, generation: Generations]

\* An active timer has exactly one tick, in the pipe or with the worker, so it
\* neither dies nor ticks twice; an earlier start has at most one left.
OneTick ==
  /\ active => generation \in Generations /\ queued[generation] + Held(generation) = 1
  /\ \A g \in Generations : queued[g] + Held(g) <= 1

\* A failure is reported for the start that failed and stops the timer: the
\* failure of a callback that began before start() was called again does not.
FailureCurrent == failure # Never => ~active /\ failure = generation

\* start(), stop(), resume() and processTick(): however a restart races with a
\* callback, one chain of ticks is alive and a failure is that of its own start.
TimerExact == OneTick /\ FailureCurrent

\* Ticks of later starts do not exist, and Start() may count them from none.
TimerInv == TypeOK /\ TimerExact /\ \A g \in Generations : g > generation => queued[g] + Held(g) = 0
=============================================================================
