------------------------------ MODULE MCQueues ------------------------------
(***************************************************************************)
(* The two queues: each behaviour is about the mutex queue, with every     *)
(* operation (the variables of BlockingQueueMt), or about the lock-free    *)
(* one.  The other stays in its initial state.                             *)
(***************************************************************************)
EXTENDS MCBlockingQueueMt, MCBlockingQueueLf

VARIABLE part

MCInit ==
  /\ part \in {"mt", "lf"} /\ Init /\ LfInit
  /\ part # "lf" => load = CHOOSE l \in Workloads : TRUE

MCNext ==
  \/ part = "mt" /\ Next /\ UNCHANGED <<part, lfVars>>
  \/ part = "lf" /\ LfNext /\ UNCHANGED <<part, vars>>

MCSpec == MCInit /\ [][MCNext]_<<part, vars, lfVars>>
=============================================================================
