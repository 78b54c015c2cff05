---------------------------- MODULE Timer_proofs ----------------------------
(***************************************************************************)
(* For any number of starts: an active timer has exactly one tick, and a   *)
(* failure is that of the present start.  The induction needs to know that *)
(* the generation a start takes has no tick yet.                           *)
(***************************************************************************)
EXTENDS Timer, TLAPS

\* Dmn_Timer(): before the first start() there is no tick.
LEMMA TimerInit == Init => TimerInv
<1> SUFFICES ASSUME Init PROVE TimerInv
  OBVIOUS
<1> USE TimerAssumption DEF Never
<1>1. TypeOK
  <2>1. generation \in 0..MaxGeneration /\ failure \in 0..MaxGeneration
    BY SMT DEF Init
  <2>4. active \in BOOLEAN
    BY Zenon DEF Init
  <2>2. queued \in [Generations -> Nat]
    BY DEF Init
  <2>3. worker \in [at: {"idle", "callback", "reschedule"}, generation: Generations]
    BY DEF Init, Generations
  <2> QED
    BY <2>1, <2>2, <2>3, <2>4 DEF TypeOK
<1>2. \A g \in Generations : queued[g] = 0 /\ Held(g) = 0
  BY DEF Init, Held
<1>3. OneTick /\ FailureCurrent
  BY <1>2 DEF Init, OneTick, FailureCurrent
<1>4. \A g \in Generations : g > generation => queued[g] + Held(g) = 0
  BY <1>2
<1> QED
  BY <1>1, <1>3, <1>4 DEF TimerInv, TimerExact

\* start() and resume(): the new generation gets its only tick.
LEMMA NewTickStep ==
  ASSUME TimerInv, generation + 1 \in Generations, NewTick,
         generation' = generation + 1, active' = TRUE, failure' = Never, UNCHANGED worker
  PROVE  TimerInv'
<1> USE TimerAssumption DEF Generations, Held, Never
<1>1. TypeOK'
  BY DEF TimerInv, TypeOK, NewTick
<1>2. \A g \in Generations : queued'[g] = IF g = generation + 1 THEN queued[g] + 1 ELSE queued[g]
  BY DEF TimerInv, TypeOK, NewTick
<1>3. \A g \in Generations : Held(g)' = Held(g)
  OBVIOUS
<1>4. queued[generation + 1] + Held(generation + 1) = 0
  BY DEF TimerInv, TypeOK
<1>5. queued[generation + 1] \in Nat /\ Held(generation + 1) \in Nat
  BY DEF TimerInv, TypeOK
<1>6. \A g \in Generations : g = generation + 1 => queued'[g] + Held(g)' = 1
  BY <1>2, <1>3, <1>4, <1>5
<1>7. \A g \in Generations : queued'[g] + Held(g)' <= 1
  BY <1>2, <1>3, <1>6 DEF TimerInv, TypeOK, TimerExact, OneTick
<1>8. \A g \in Generations : g > generation' => queued'[g] + Held(g)' = 0
  BY <1>2, <1>3 DEF TimerInv, TypeOK
<1>9. OneTick'
  <2>1. generation' \in Generations
    OBVIOUS
  <2>2. (queued[generation] + Held(generation) = 1)'
    BY <1>6, <2>1
  <2> QED
    BY <2>1, <2>2, <1>7 DEF OneTick
<1>10. FailureCurrent'
  BY DEF FailureCurrent
<1> QED
  BY <1>1, <1>8, <1>9, <1>10 DEF TimerInv, TimerExact

\* A step that moves ticks and drops those of starts that are over.
LEMMA FewerTicks ==
  ASSUME TimerInv, TypeOK', UNCHANGED <<generation, active, failure>>,
         NEW g \in Generations, ~active \/ g # generation,
         \A h \in Generations : queued'[h] + Held(h)' = IF h = g THEN 0 ELSE queued[h] + Held(h)
  PROVE  TimerInv'
<1>1. active => generation \in Generations /\ queued'[generation] + Held(generation)' = 1
  BY DEF TimerInv, TimerExact, OneTick
<1>2. (active => generation \in Generations /\ queued[generation] + Held(generation) = 1)'
  BY <1>1 DEF Held
<1>3. \A h \in Generations : queued'[h] + Held(h)' <= 1
  BY DEF TimerInv, TimerExact, OneTick
<1>4. \A h \in Generations : h > generation' => queued'[h] + Held(h)' = 0
  BY DEF TimerInv
<1>5. FailureCurrent'
  BY DEF TimerInv, TimerExact, FailureCurrent
<1> QED
  BY <1>2, <1>3, <1>4, <1>5 DEF TimerInv, TimerExact, OneTick

\* A step that only moves ticks between the pipe and the worker.
LEMMA SameTicks ==
  ASSUME TimerInv, TypeOK', UNCHANGED <<generation, active, failure>>,
         \A h \in Generations : queued'[h] + Held(h)' = queued[h] + Held(h)
  PROVE  TimerInv'
<1>1. active => generation \in Generations /\ queued'[generation] + Held(generation)' = 1
  BY DEF TimerInv, TimerExact, OneTick
<1>2. (active => generation \in Generations /\ queued[generation] + Held(generation) = 1)'
  BY <1>1 DEF Held
<1>3. \A h \in Generations : queued'[h] + Held(h)' <= 1
  BY DEF TimerInv, TimerExact, OneTick
<1>4. \A h \in Generations : h > generation' => queued'[h] + Held(h)' = 0
  BY DEF TimerInv
<1>5. FailureCurrent'
  BY DEF TimerInv, TimerExact, FailureCurrent
<1> QED
  BY <1>2, <1>3, <1>4, <1>5 DEF TimerInv, TimerExact, OneTick

\* processTick() takes a tick of the pipe: it is held instead of queued, or
\* dropped because its start is over.
LEMMA TakeTickStep ==
  ASSUME TimerInv, NEW g \in Generations, TakeTick(g)
  PROVE  TimerInv'
<1> USE TimerAssumption DEF Generations, Never
<1>1. TypeOK'
  BY DEF TimerInv, TypeOK, TakeTick, Current
<1>2. \A h \in Generations : queued'[h] = IF h = g THEN queued[h] - 1 ELSE queued[h]
  BY DEF TimerInv, TypeOK, TakeTick
<1>3. \A h \in Generations : Held(h) = 0
  BY DEF TakeTick, Held
<1>4. queued[g] = 1
  BY <1>3 DEF TimerInv, TypeOK, TimerExact, OneTick, TakeTick
<1>5. CASE Current(g)
  <2>1. \A h \in Generations : Held(h)' = IF h = g THEN 1 ELSE 0
    BY <1>5 DEF TakeTick, Held
  <2>2. \A h \in Generations : queued'[h] + Held(h)' = queued[h] + Held(h)
    BY <1>2, <1>3, <1>4, <2>1 DEF TimerInv, TypeOK
  <2> QED
    BY <1>1, <2>2, SameTicks DEF TakeTick
<1>6. CASE ~Current(g)
  <2>1. \A h \in Generations : Held(h)' = 0
    BY <1>6 DEF TakeTick, Held
  <2>2. \A h \in Generations : queued'[h] + Held(h)' = IF h = g THEN 0 ELSE queued[h] + Held(h)
    BY <1>2, <1>3, <1>4, <2>1 DEF TimerInv, TypeOK
  <2> QED
    BY <1>1, <1>6, <2>2, FewerTicks DEF TakeTick, Current
<1> QED
  BY <1>5, <1>6

\* The worker lets go of its tick: it writes the next one, or it ends, and the
\* timer is then stopped if the tick was its own.
LEMMA EndTickStep ==
  ASSUME TimerInv, CallbackThrows \/ Reschedule \/ RescheduleThrows
  PROVE  TimerInv'
<1> USE TimerAssumption DEF Generations, Never
<1> DEFINE w == worker.generation
<1>1. w \in Generations /\ Held(w) = 1 /\ \A h \in Generations \ {w} : Held(h) = 0
  BY DEF TimerInv, TypeOK, CallbackThrows, Reschedule, RescheduleThrows, Held
<1>2. \A h \in Generations : Held(h)' = 0
  BY DEF TimerInv, TypeOK, CallbackThrows, Reschedule, RescheduleThrows, Held
<1>3. queued[w] = 0
  BY <1>1 DEF TimerInv, TypeOK, TimerExact, OneTick
<1>4. CASE Reschedule /\ Current(w)
  <2>1. queued' = [queued EXCEPT ![w] = @ + 1]
    BY <1>4 DEF Reschedule
  <2>2. \A h \in Generations : queued'[h] = IF h = w THEN 1 ELSE queued[h]
    BY <2>1, <1>1, <1>3 DEF TimerInv, TypeOK
  <2>3. TypeOK'
    BY <1>4, <1>1, <2>1 DEF TimerInv, TypeOK, Reschedule
  <2> QED
    BY <1>1, <1>2, <1>4, <2>2, <2>3 DEF TimerInv, TypeOK, TimerExact, OneTick, FailureCurrent, Reschedule, Current
<1>5. CASE Reschedule /\ ~Current(w)
  <2>1. UNCHANGED <<queued, generation, active, failure>>
    BY <1>5 DEF Reschedule
  <2>2. TypeOK'
    BY <1>5, <2>1 DEF TimerInv, TypeOK, Reschedule
  <2> QED
    BY <1>1, <1>2, <1>5, <2>1, <2>2 DEF TimerInv, TypeOK, TimerExact, OneTick, FailureCurrent, Current
<1>6. CASE CallbackThrows \/ RescheduleThrows
  <2>1. UNCHANGED <<queued, generation>> /\ StoreFailure
    BY <1>6 DEF CallbackThrows, RescheduleThrows
  <2>2. TypeOK'
    BY <1>6, <1>1, <2>1 DEF TimerInv, TypeOK, CallbackThrows, RescheduleThrows, StoreFailure, Current
  <2> QED
    BY <1>1, <1>2, <2>1, <2>2, SMTT(30) DEF TimerInv, TypeOK, TimerExact, OneTick, FailureCurrent, StoreFailure, Current
<1> QED
  BY <1>4, <1>5, <1>6

\* Every step of the timer keeps the invariant.
LEMMA TimerStep == TimerInv /\ [Next]_vars => TimerInv'
<1> SUFFICES ASSUME TimerInv, [Next]_vars PROVE TimerInv'
  OBVIOUS
<1> USE TimerAssumption DEF Generations, Never
<1>1. CASE Start
  BY <1>1, NewTickStep DEF Start, TimerInv, TypeOK
<1>2. CASE Stop
  BY <1>2 DEF Stop, TimerInv, TypeOK, TimerExact, OneTick, FailureCurrent, Held
<1>3. CASE Resume
  BY <1>3, NewTickStep DEF Resume, TimerInv, TypeOK
<1>4. ASSUME NEW g \in Generations, TakeTick(g) PROVE TimerInv'
  BY <1>4, TakeTickStep
<1>5. CASE CallbackReturns
  BY <1>5 DEF CallbackReturns, TimerInv, TypeOK, TimerExact, OneTick, FailureCurrent, Held
<1>6. CASE CallbackThrows \/ Reschedule \/ RescheduleThrows
  BY <1>6, EndTickStep
<1>7. CASE UNCHANGED vars
  BY <1>7 DEF vars, TimerInv, TypeOK, TimerExact, OneTick, FailureCurrent, Held
<1> QED
  BY <1>1, <1>2, <1>3, <1>4, <1>5, <1>6, <1>7 DEF Next

\* Dmn_Timer: whatever start(), stop() and resume() race with a running
\* callback, an active timer has exactly one tick, and a failure is that of the
\* present start.
THEOREM TimerCorrect == Spec => []TimerExact
<1>1. Init => TimerInv
  BY TimerInit
<1>2. TimerInv /\ [Next]_vars => TimerInv'
  BY TimerStep
<1>3. TimerInv => TimerExact
  BY DEF TimerInv
<1> QED
  BY <1>1, <1>2, <1>3, PTL DEF Spec
=============================================================================
