------------------------------ MODULE MCThreads ------------------------------
(***************************************************************************)
(* Worker threads: each behaviour is about one of a Dmn_Async object (the  *)
(* variables of Async), a pipe with scheduled writes and an ordinary pipe  *)
(* (the variables below).  The others stay in their initial state.         *)
(***************************************************************************)
EXTENDS Async

CONSTANTS r1, w1

VARIABLES
  part,
  pNow, pQueue, pQueueShut, pPopCount, pSched, pSubmitted, pCount, pFailure, pShut,
  pPc, pHand, pDone, pAlarm, pWait, pSnapshot, pCloser, pDue, pLog

SomeDelays == {-1, 0, 1, 2, 3}

\* A reader beside the worker, or batches with a timeout; the callback throws.
P(scheduled) == INSTANCE Pipe WITH
  Scheduled <- scheduled, Readers <- IF scheduled THEN {r1} ELSE {}, Waiters <- {w1},
  BatchCount <- IF scheduled THEN 1 ELSE 2, Timed <- ~scheduled, FnThrows <- TRUE,
  MaxWrites <- IF scheduled THEN 2 ELSE 4, MaxTime <- IF scheduled THEN 2 ELSE 0,
  now <- pNow, queue <- pQueue, queueShut <- pQueueShut, popCount <- pPopCount,
  sched <- pSched, submitted <- pSubmitted, count <- pCount, failure <- pFailure,
  shut <- pShut, pc <- pPc, hand <- pHand, done <- pDone, alarm <- pAlarm, wait <- pWait,
  snapshot <- pSnapshot, closer <- pCloser, due <- pDue, log <- pLog

pvars == <<pNow, pQueue, pQueueShut, pPopCount, pSched, pSubmitted, pCount, pFailure, pShut,
           pPc, pHand, pDone, pAlarm, pWait, pSnapshot, pCloser, pDue, pLog>>
allVars == <<part, avars, pvars>>

MCInit ==
  /\ part \in {"async", "scheduled", "ordinary"}
  /\ AsyncInit /\ IF part = "ordinary" THEN P(FALSE)!Init ELSE P(TRUE)!Init

MCNext ==
  \/ part = "async" /\ AsyncNext /\ UNCHANGED <<part, pvars>>
  \/ part = "scheduled" /\ P(TRUE)!Next /\ UNCHANGED <<part, avars>>
  \/ part = "ordinary" /\ P(FALSE)!Next /\ UNCHANGED <<part, avars>>

AsyncFair ==
  /\ WF_avars(part = "async" /\ Tick /\ UNCHANGED <<promise, caller, asked>>)
  /\ WF_avars(part = "async" /\ (RunTask \/ PipeWorkerStep))
  /\ WF_avars(part = "async" /\ CloserStep /\ UNCHANGED <<promise, caller, asked>>)

ScheduledFair ==
  /\ WF_pvars(part = "scheduled" /\ P(TRUE)!Tick) /\ WF_pvars(part = "scheduled" /\ P(TRUE)!CloserStep)
  /\ \A a \in {Worker, r1} : WF_pvars(part = "scheduled" /\ P(TRUE)!AgentStep(a))
  /\ WF_pvars(part = "scheduled" /\ P(TRUE)!WaiterStep(w1))

OrdinaryFair ==
  /\ WF_pvars(part = "ordinary" /\ P(FALSE)!CloserStep) /\ WF_pvars(part = "ordinary" /\ P(FALSE)!AgentStep(Worker))
  /\ WF_pvars(part = "ordinary" /\ P(FALSE)!WaiterStep(w1))

MCSpec == MCInit /\ [][MCNext]_allVars /\ AsyncFair /\ ScheduledFair /\ OrdinaryFair
-----------------------------------------------------------------------------
\* Dmn_Pipe: m_count is the number of items processed, on every failure path;
\* an accepted item is in one place and, as long as nothing has thrown, not
\* lost; the worker never sleeps past a scheduled write that is due; after
\* shutdown() has joined the worker all have been processed; and waitForEmpty()
\* of an ordinary pipe, when it returns normally, has seen every item of its
\* snapshot processed. (It compares totals, so with scheduled writes, which
\* overtake each other, as many items but not these.)  These are parts of the
\* invariant that Async_proofs shows inductive, or follow from it; with it, that
\* of the tasks that are the items of a Dmn_Async.
PipeItemsExact ==
  /\ AsyncInv
  /\ \A scheduled \in BOOLEAN : (part = "ordinary") = ~scheduled =>
       P(scheduled)!CountExact /\ P(scheduled)!DrainedAtShutdown /\ P(scheduled)!PipeInv

\* Every accepted task's handle or future becomes ready, once, also if the object
\* is destroyed meanwhile and however many immediate tasks are ahead of it.
HandlesExact == PromiseKept /\ FulfilledOnce

\* scheduledProcessingLoop(): an item is taken when it is due, after ordinary
\* writes, in the order of deadlines and among equals of submission.
PipeDueOrder == [][part # "ordinary" => P(TRUE)!DueStep]_pvars

\* shutdown() of either pipe returns, and so does waitForEmpty() of one with
\* scheduled writes, whatever the worker slept for, ran or threw.
PipeCallsReturn == P(TRUE)!ShutdownReturns /\ (part # "ordinary" => P(TRUE)!WaitReturns)
=============================================================================
