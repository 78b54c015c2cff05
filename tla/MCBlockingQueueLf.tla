------------------------- MODULE MCBlockingQueueLf --------------------------
(***************************************************************************)
(* Instances of BlockingQueueLf for TLC: which thread calls what.          *)
(***************************************************************************)
EXTENDS BlockingQueueLf, TLC

Op(k, n) == [kind |-> k, n |-> n]
TwoConsumers == { "a" :> Op("push", 1) @@ "b" :> Op("popWait", 1) @@ "c" :> Op("pop", 1) }
OneConsumer ==
  { "a" :> Op("push", 1) @@ "b" :> Op("push", 2) @@ "c" :> Op("pop", 2),
    "a" :> Op("push", 1) @@ "b" :> Op("wait", 1) @@ "c" :> Op("pop", 1) }
WithShutdown ==
  { "a" :> Op("push", 1) @@ "b" :> Op("popWait", 1) @@ "c" :> Op("shutdown", 0),
    "a" :> Op("push", 1) @@ "b" :> Op("wait", 1) @@ "c" :> Op("shutdown", 0) }
AllWorkloads == TwoConsumers \cup OneConsumer \cup WithShutdown
=============================================================================
