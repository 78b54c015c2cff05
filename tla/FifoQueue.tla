------------------------------ MODULE FifoQueue ------------------------------
(***************************************************************************)
(* What both blocking queues of Dmn promise (the class comments of         *)
(* include/dmn-blockingqueue.hpp): items leave in the order they entered,  *)
(* each at most once, and none leaves that did not enter.  Items are       *)
(* numbered in the order they enter.                                       *)
(***************************************************************************)
EXTENDS Naturals, Sequences

VARIABLES
  items,   \* the items in the queue, oldest first
  entered, \* how many items have entered so far
  taken    \* the items removed, in the order of removal

vars == <<items, entered, taken>>

Init == items = <<>> /\ entered = 0 /\ taken = <<>>

Put ==
  /\ entered' = entered + 1
  /\ items' = Append(items, entered')
  /\ UNCHANGED taken

Take(n) ==
  /\ taken' = taken \o SubSeq(items, 1, n)
  /\ items' = SubSeq(items, n + 1, Len(items))
  /\ UNCHANGED entered

Next == Put \/ \E n \in 1..Len(items) : Take(n)

Spec == Init /\ [][Next]_vars
=============================================================================
