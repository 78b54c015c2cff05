-------------------------- MODULE MCBlockingQueueMt --------------------------
(***************************************************************************)
(* Instances of BlockingQueueMt for TLC: which thread calls what.          *)
(***************************************************************************)
EXTENDS BlockingQueueMt, TLC

CONSTANTS p1, p2, c1, c2, b1, d1, s1

\* Every operation once: a producer, a single-item consumer, a batch consumer
\* with and without timeout, a drainer and a closer.
AllCalls ==
  (p1 :> {"push"}) @@ (c1 :> {"pop", "popNoWait"})
  @@ (b1 :> {"popBatch", "popTimed"}) @@ (d1 :> {"waitForEmpty"})
  @@ (s1 :> {"shutdown"})
AllThreads == {p1, c1, b1, d1, s1}

\* A consumer and a closer.
CloseCalls == (c1 :> {"pop"}) @@ (s1 :> {"shutdown"})
CloseThreads == {c1, s1}

=============================================================================
