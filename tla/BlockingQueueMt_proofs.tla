------------------------ MODULE BlockingQueueMt_proofs ------------------------
(***************************************************************************)
(* Safety of the mutex queue for any number of threads, any assignment of  *)
(* operations to threads and any batch size.                               *)
(***************************************************************************)
EXTENDS BlockingQueueMt, FiniteSetTheorems, SequenceTheorems, TLAPS

\* Which operation can be at which point of the code.
OpAtPoint ==
  \A t \in Threads :
    /\ pc[t] \in {"gateCheck", "gateAdd", "gateRecheck", "dropTicket",
                  "notifyOne", "notifyEmpty", "leave"} => op[t] \notin Unguarded
    /\ pc[t] \in {"test", "block", "wait", "woken", "expired", "cancelled",
                  "collect"} => op[t] \notin {"push", "popNoWait", "shutdown"}
    /\ pc[t] \in {"lock", "locked"} => op[t] # "shutdown"
    /\ pc[t] = "expired" => op[t] = "popTimed"

\* The wait sets of the two condition variables.
WaitSets ==
  /\ \A t \in notEmptyWaiters : pc[t] = "wait" /\ op[t] # "waitForEmpty"
  /\ \A t \in emptyWaiters : pc[t] = "wait" /\ op[t] = "waitForEmpty"

\* Past the first step of shutdown() the flag is set.
Closing ==
  \A t \in Threads :
    pc[t] \in {"wakeEmpty", "wakeNotEmpty", "awaitInflight", "returned"}
       => closed

\* Only the owner of m_mutex is inside a critical section.
Critical(t) ==
  \/ pc[t] \in {"locked", "test", "block", "collect"}
  \/ op[t] \in LocksFirst /\ pc[t] \in {"gateCheck", "gateAdd", "gateRecheck"}

MutexHeld == \A t \in Threads : Critical(t) => mutex = t

\* The inductive invariant: the control points and the lock tie down who may
\* touch the queue and who is counted.
IInv ==
  /\ TypeOK
  /\ OpAtPoint
  /\ WaitSets
  /\ MutexHeld
  /\ Closing
  /\ InflightExact
  /\ ShutdownQuiesces
  /\ FrontDefined

-----------------------------------------------------------------------------
(* One lemma per part of the invariant, one step per action.               *)

\* The control part of the type invariant.
LEMMA ControlTyped ==
  ASSUME IInv, NEW t \in Threads, Step(t) \/ Environment(t)
  PROVE  (/\ mutex \in Threads \cup {NoThread}
          /\ notEmptyWaiters \subseteq Threads
          /\ emptyWaiters \subseteq Threads
          /\ pc \in [Threads -> Points]
          /\ op \in [Threads -> Ops])'
<1> USE ConstantsAssumption DEF IInv, TypeOK, Points, Ops, Goto, conds, data
<1>1. CASE Call(t)
  <2>1. PICK o \in Calls[t] : /\ op' = [op EXCEPT ![t] = o]
                            /\ pc' = [pc EXCEPT ![t] = EntryPoint(o)]
    BY <1>1 DEF Call
  <2>2. o \in Ops
    BY <2>1
  <2>3. \/ EntryPoint(o) = "gateCheck" /\ o \in {"push", "popBatch", "popTimed"}
        \/ EntryPoint(o) = "lock" /\ o \in {"pop", "popNoWait", "waitForEmpty"}
        \/ EntryPoint(o) = "setFlag"
    BY <2>2 DEF EntryPoint
  <2> QED  BY <1>1, <2>1, <2>2, <2>3 DEF Call
<1>2. CASE GateCheck(t)  BY <1>2 DEF GateCheck
<1>3. CASE GateAdd(t)  BY <1>3 DEF GateAdd
<1>4. CASE GateRecheck(t)  BY <1>4 DEF GateRecheck
<1>5. CASE DropTicket(t)  BY <1>5 DEF DropTicket
<1>6. CASE Throw(t)  BY <1>6 DEF Throw, Free
<1>7. CASE Leave(t)  BY <1>7 DEF Leave
<1>8. CASE Lock(t)  BY <1>8 DEF Lock
<1>9. CASE PushItem(t)  BY <1>9 DEF PushItem
<1>10. CASE PopNow(t)  BY <1>10 DEF PopNow, TakeItems
<1>11. CASE StartWait(t)  BY <1>11 DEF StartWait
<1>12. CASE TestPredicate(t)  BY <1>12 DEF TestPredicate
<1>13. CASE Block(t)  BY <1>13 DEF Block
<1>14. CASE SpuriousWake(t)  BY <1>14 DEF SpuriousWake, StopWaiting
<1>15. CASE TimeOut(t)  BY <1>15 DEF TimeOut, StopWaiting
<1>16. CASE CollectOne(t)  BY <1>16 DEF CollectOne, TakeItems
<1>17. CASE CollectBatch(t)  BY <1>17 DEF CollectBatch, TakeItems
<1>18. CASE ReturnCount(t)  BY <1>18 DEF ReturnCount
<1>19. CASE NotifyOne(t)  BY <1>19 DEF NotifyOne
<1>20. CASE NotifyEmpty(t)  BY <1>20 DEF NotifyEmpty, WakeAll
<1>21. CASE CancelLocked(t)  BY <1>21 DEF CancelLocked
<1>22. CASE CancelWaiting(t)  BY <1>22 DEF CancelWaiting, StopWaiting
<1>23. CASE SetFlag(t)  BY <1>23 DEF SetFlag
<1>24. CASE WakeEmpty(t)  BY <1>24 DEF WakeEmpty, WakeAll
<1>25. CASE WakeNotEmpty(t)  BY <1>25 DEF WakeNotEmpty, WakeAll
<1>26. CASE AwaitInflight(t)  BY <1>26 DEF AwaitInflight
<1> QED
  BY <1>1, <1>2, <1>3, <1>4, <1>5, <1>6, <1>7, <1>8, <1>9, <1>10, <1>11,
    <1>12, <1>13, <1>14, <1>15, <1>16, <1>17, <1>18, <1>19, <1>20, <1>21,
    <1>22, <1>23, <1>24, <1>25, <1>26
  DEF Step, Environment

\* Removing at most the whole queue from its front keeps the data's types.
LEMMA TakeTyped ==
  ASSUME IInv, NEW t \in Threads, NEW n \in 0 .. Len(queue), TakeItems(t, n)
  PROVE  (/\ queue \in Seq(Nat)
          /\ pushCount \in Nat
          /\ popCount \in Nat
          /\ delivered \in Seq(Nat))'
<1>1. SubSeq(queue, 1, n) \in Seq(Nat)
  BY DEF IInv, TypeOK
<1>2. SubSeq(queue, n + 1, Len(queue)) \in Seq(Nat)
  BY DEF IInv, TypeOK
<1> QED  BY <1>1, <1>2 DEF IInv, TypeOK, TakeItems

\* The data part of the type invariant; an item is taken only from a queue
\* that has one.
LEMMA DataTyped ==
  ASSUME IInv, NEW t \in Threads, Step(t) \/ Environment(t)
  PROVE  (/\ queue \in Seq(Nat)
          /\ pushCount \in Nat
          /\ popCount \in Nat
          /\ delivered \in Seq(Nat))'
<1> USE ConstantsAssumption DEF IInv, TypeOK, conds, data
<1>1. CASE Call(t)  BY <1>1 DEF Call
<1>2. CASE GateCheck(t)  BY <1>2 DEF GateCheck
<1>3. CASE GateAdd(t)  BY <1>3 DEF GateAdd
<1>4. CASE GateRecheck(t)  BY <1>4 DEF GateRecheck
<1>5. CASE DropTicket(t)  BY <1>5 DEF DropTicket
<1>6. CASE Throw(t)  BY <1>6 DEF Throw, Free
<1>7. CASE Leave(t)  BY <1>7 DEF Leave
<1>8. CASE Lock(t)  BY <1>8 DEF Lock
<1>9. CASE PushItem(t)  BY <1>9 DEF PushItem
<1>10. CASE PopNow(t)
  <2>1. TakeItems(t, IF queue # <<>> THEN 1 ELSE 0)
    BY <1>10 DEF PopNow
  <2>2. (IF queue # <<>> THEN 1 ELSE 0) \in 0 .. Len(queue)
    OBVIOUS
  <2> QED  BY <2>1, <2>2, TakeTyped
<1>11. CASE StartWait(t)  BY <1>11 DEF StartWait
<1>12. CASE TestPredicate(t)  BY <1>12 DEF TestPredicate
<1>13. CASE Block(t)  BY <1>13 DEF Block
<1>14. CASE SpuriousWake(t)  BY <1>14 DEF SpuriousWake, StopWaiting
<1>15. CASE TimeOut(t)  BY <1>15 DEF TimeOut, StopWaiting
<1>16. CASE CollectOne(t)
  <2>1. TakeItems(t, IF closed THEN 0 ELSE 1)
    BY <1>16 DEF CollectOne
  <2>2. closed \/ queue # <<>>
    BY <1>16 DEF CollectOne, FrontDefined
  <2>3. (IF closed THEN 0 ELSE 1) \in 0 .. Len(queue)
    BY <2>2
  <2> QED  BY <2>1, <2>3, TakeTyped
<1>17. CASE CollectBatch(t)
  <2>1. TakeItems(t, IF Len(queue) < BatchCount THEN Len(queue)
                     ELSE BatchCount)
    BY <1>17 DEF CollectBatch
  <2>2. (IF Len(queue) < BatchCount THEN Len(queue) ELSE BatchCount)
           \in 0 .. Len(queue)
    OBVIOUS
  <2> QED  BY <2>1, <2>2, TakeTyped
<1>18. CASE ReturnCount(t)  BY <1>18 DEF ReturnCount
<1>19. CASE NotifyOne(t)  BY <1>19 DEF NotifyOne
<1>20. CASE NotifyEmpty(t)  BY <1>20 DEF NotifyEmpty, WakeAll
<1>21. CASE CancelLocked(t)  BY <1>21 DEF CancelLocked
<1>22. CASE CancelWaiting(t)  BY <1>22 DEF CancelWaiting, StopWaiting
<1>23. CASE SetFlag(t)  BY <1>23 DEF SetFlag
<1>24. CASE WakeEmpty(t)  BY <1>24 DEF WakeEmpty, WakeAll
<1>25. CASE WakeNotEmpty(t)  BY <1>25 DEF WakeNotEmpty, WakeAll
<1>26. CASE AwaitInflight(t)  BY <1>26 DEF AwaitInflight
<1> QED
  BY <1>1, <1>2, <1>3, <1>4, <1>5, <1>6, <1>7, <1>8, <1>9, <1>10, <1>11,
    <1>12, <1>13, <1>14, <1>15, <1>16, <1>17, <1>18, <1>19, <1>20, <1>21,
    <1>22, <1>23, <1>24, <1>25, <1>26
  DEF Step, Environment

\* Operations stay at the points their code has.
LEMMA OpAtPointPreserved ==
  ASSUME IInv, NEW t \in Threads, Step(t) \/ Environment(t)
  PROVE  OpAtPoint'
<1> USE ConstantsAssumption DEF IInv, TypeOK, Points, Ops, OpAtPoint,
  LocksFirst, Unguarded, WaitSets, Goto, conds, data
<1>1. CASE Call(t)
  <2>1. PICK o \in Calls[t] : /\ op' = [op EXCEPT ![t] = o]
                            /\ pc' = [pc EXCEPT ![t] = EntryPoint(o)]
    BY <1>1 DEF Call
  <2>2. o \in Ops
    BY <2>1
  <2>3. \/ EntryPoint(o) = "gateCheck" /\ o \in {"push", "popBatch", "popTimed"}
        \/ EntryPoint(o) = "lock" /\ o \in {"pop", "popNoWait", "waitForEmpty"}
        \/ EntryPoint(o) = "setFlag"
    BY <2>2 DEF EntryPoint
  <2> QED  BY <1>1, <2>1, <2>2, <2>3 DEF Call
<1>2. CASE GateCheck(t)  BY <1>2 DEF GateCheck
<1>3. CASE GateAdd(t)  BY <1>3 DEF GateAdd
<1>4. CASE GateRecheck(t)  BY <1>4 DEF GateRecheck
<1>5. CASE DropTicket(t)  BY <1>5 DEF DropTicket
<1>6. CASE Throw(t)  BY <1>6 DEF Throw, Free
<1>7. CASE Leave(t)  BY <1>7 DEF Leave
<1>8. CASE Lock(t)  BY <1>8 DEF Lock
<1>9. CASE PushItem(t)  BY <1>9 DEF PushItem
<1>10. CASE PopNow(t)  BY <1>10 DEF PopNow, TakeItems
<1>11. CASE StartWait(t)  BY <1>11 DEF StartWait
<1>12. CASE TestPredicate(t)  BY <1>12 DEF TestPredicate
<1>13. CASE Block(t)  BY <1>13 DEF Block
<1>14. CASE SpuriousWake(t)  BY <1>14 DEF SpuriousWake, StopWaiting
<1>15. CASE TimeOut(t)  BY <1>15 DEF TimeOut, StopWaiting
<1>16. CASE CollectOne(t)  BY <1>16 DEF CollectOne, TakeItems
<1>17. CASE CollectBatch(t)  BY <1>17 DEF CollectBatch, TakeItems
<1>18. CASE ReturnCount(t)  BY <1>18 DEF ReturnCount
<1>19. CASE NotifyOne(t)
  <2>1. CASE notEmptyWaiters = {} /\ Goto(t, "leave")
    BY <1>19, <2>1 DEF NotifyOne
  <2>2. CASE \E w \in notEmptyWaiters :
               /\ notEmptyWaiters' = notEmptyWaiters \ {w}
               /\ pc' = [pc EXCEPT ![t] = "leave", ![w] = "woken"]
    BY <1>19, <2>2 DEF NotifyOne
  <2> QED  BY <1>19, <2>1, <2>2 DEF NotifyOne
<1>20. CASE NotifyEmpty(t)  BY <1>20 DEF NotifyEmpty, WakeAll
<1>21. CASE CancelLocked(t)  BY <1>21 DEF CancelLocked
<1>22. CASE CancelWaiting(t)  BY <1>22 DEF CancelWaiting, StopWaiting
<1>23. CASE SetFlag(t)  BY <1>23 DEF SetFlag
<1>24. CASE WakeEmpty(t)  BY <1>24 DEF WakeEmpty, WakeAll
<1>25. CASE WakeNotEmpty(t)  BY <1>25 DEF WakeNotEmpty, WakeAll
<1>26. CASE AwaitInflight(t)  BY <1>26 DEF AwaitInflight
<1> QED
  BY <1>1, <1>2, <1>3, <1>4, <1>5, <1>6, <1>7, <1>8, <1>9, <1>10, <1>11,
    <1>12, <1>13, <1>14, <1>15, <1>16, <1>17, <1>18, <1>19, <1>20, <1>21,
    <1>22, <1>23, <1>24, <1>25, <1>26
  DEF Step, Environment

\* The wait sets hold exactly sleeping threads of their own kind.
LEMMA WaitSetsPreserved ==
  ASSUME IInv, NEW t \in Threads, Step(t) \/ Environment(t)
  PROVE  WaitSets'
<1> USE ConstantsAssumption DEF IInv, TypeOK, Points, Ops, OpAtPoint,
  LocksFirst, Unguarded, WaitSets, Goto, conds, data
<1>1. CASE Call(t)
  <2>1. PICK o \in Calls[t] : /\ op' = [op EXCEPT ![t] = o]
                            /\ pc' = [pc EXCEPT ![t] = EntryPoint(o)]
    BY <1>1 DEF Call
  <2>2. o \in Ops
    BY <2>1
  <2>3. \/ EntryPoint(o) = "gateCheck" /\ o \in {"push", "popBatch", "popTimed"}
        \/ EntryPoint(o) = "lock" /\ o \in {"pop", "popNoWait", "waitForEmpty"}
        \/ EntryPoint(o) = "setFlag"
    BY <2>2 DEF EntryPoint
  <2> QED  BY <1>1, <2>1, <2>2, <2>3 DEF Call
<1>2. CASE GateCheck(t)  BY <1>2 DEF GateCheck
<1>3. CASE GateAdd(t)  BY <1>3 DEF GateAdd
<1>4. CASE GateRecheck(t)  BY <1>4 DEF GateRecheck
<1>5. CASE DropTicket(t)  BY <1>5 DEF DropTicket
<1>6. CASE Throw(t)  BY <1>6 DEF Throw, Free
<1>7. CASE Leave(t)  BY <1>7 DEF Leave
<1>8. CASE Lock(t)  BY <1>8 DEF Lock
<1>9. CASE PushItem(t)  BY <1>9 DEF PushItem
<1>10. CASE PopNow(t)  BY <1>10 DEF PopNow, TakeItems
<1>11. CASE StartWait(t)  BY <1>11 DEF StartWait
<1>12. CASE TestPredicate(t)  BY <1>12 DEF TestPredicate
<1>13. CASE Block(t)  BY <1>13 DEF Block
<1>14. CASE SpuriousWake(t)  BY <1>14 DEF SpuriousWake, StopWaiting
<1>15. CASE TimeOut(t)  BY <1>15 DEF TimeOut, StopWaiting
<1>16. CASE CollectOne(t)  BY <1>16 DEF CollectOne, TakeItems
<1>17. CASE CollectBatch(t)  BY <1>17 DEF CollectBatch, TakeItems
<1>18. CASE ReturnCount(t)  BY <1>18 DEF ReturnCount
<1>19. CASE NotifyOne(t)  BY <1>19 DEF NotifyOne
<1>20. CASE NotifyEmpty(t)  BY <1>20 DEF NotifyEmpty, WakeAll
<1>21. CASE CancelLocked(t)  BY <1>21 DEF CancelLocked
<1>22. CASE CancelWaiting(t)  BY <1>22 DEF CancelWaiting, StopWaiting
<1>23. CASE SetFlag(t)  BY <1>23 DEF SetFlag
<1>24. CASE WakeEmpty(t)  BY <1>24 DEF WakeEmpty, WakeAll
<1>25. CASE WakeNotEmpty(t)  BY <1>25 DEF WakeNotEmpty, WakeAll
<1>26. CASE AwaitInflight(t)  BY <1>26 DEF AwaitInflight
<1> QED
  BY <1>1, <1>2, <1>3, <1>4, <1>5, <1>6, <1>7, <1>8, <1>9, <1>10, <1>11,
    <1>12, <1>13, <1>14, <1>15, <1>16, <1>17, <1>18, <1>19, <1>20, <1>21,
    <1>22, <1>23, <1>24, <1>25, <1>26
  DEF Step, Environment

\* Mutual exclusion of the critical sections.
LEMMA MutexHeldPreserved ==
  ASSUME IInv, NEW t \in Threads, Step(t) \/ Environment(t)
  PROVE  MutexHeld'
<1> USE ConstantsAssumption DEF IInv, TypeOK, Points, Ops, OpAtPoint,
  LocksFirst, Unguarded, WaitSets, Goto, conds, data, MutexHeld, Critical
<1>1. CASE Call(t)
  <2>1. PICK o \in Calls[t] : /\ op' = [op EXCEPT ![t] = o]
                            /\ pc' = [pc EXCEPT ![t] = EntryPoint(o)]
    BY <1>1 DEF Call
  <2>2. o \in Ops
    BY <2>1
  <2>3. \/ EntryPoint(o) = "gateCheck" /\ o \in {"push", "popBatch", "popTimed"}
        \/ EntryPoint(o) = "lock" /\ o \in {"pop", "popNoWait", "waitForEmpty"}
        \/ EntryPoint(o) = "setFlag"
    BY <2>2 DEF EntryPoint
  <2> QED  BY <1>1, <2>1, <2>2, <2>3 DEF Call
<1>2. CASE GateCheck(t)  BY <1>2 DEF GateCheck
<1>3. CASE GateAdd(t)  BY <1>3 DEF GateAdd
<1>4. CASE GateRecheck(t)  BY <1>4 DEF GateRecheck
<1>5. CASE DropTicket(t)  BY <1>5 DEF DropTicket
<1>6. CASE Throw(t)  BY <1>6 DEF Throw, Free
<1>7. CASE Leave(t)  BY <1>7 DEF Leave
<1>8. CASE Lock(t)  BY <1>8 DEF Lock
<1>9. CASE PushItem(t)  BY <1>9 DEF PushItem
<1>10. CASE PopNow(t)  BY <1>10 DEF PopNow, TakeItems
<1>11. CASE StartWait(t)  BY <1>11 DEF StartWait
<1>12. CASE TestPredicate(t)  BY <1>12 DEF TestPredicate
<1>13. CASE Block(t)  BY <1>13 DEF Block
<1>14. CASE SpuriousWake(t)  BY <1>14 DEF SpuriousWake, StopWaiting
<1>15. CASE TimeOut(t)  BY <1>15 DEF TimeOut, StopWaiting
<1>16. CASE CollectOne(t)  BY <1>16 DEF CollectOne, TakeItems
<1>17. CASE CollectBatch(t)  BY <1>17 DEF CollectBatch, TakeItems
<1>18. CASE ReturnCount(t)  BY <1>18 DEF ReturnCount
<1>19. CASE NotifyOne(t)
  <2>1. CASE notEmptyWaiters = {} /\ Goto(t, "leave")
    BY <1>19, <2>1 DEF NotifyOne
  <2>2. CASE \E w \in notEmptyWaiters :
               /\ notEmptyWaiters' = notEmptyWaiters \ {w}
               /\ pc' = [pc EXCEPT ![t] = "leave", ![w] = "woken"]
    BY <1>19, <2>2 DEF NotifyOne
  <2> QED  BY <1>19, <2>1, <2>2 DEF NotifyOne
<1>20. CASE NotifyEmpty(t)  BY <1>20 DEF NotifyEmpty, WakeAll
<1>21. CASE CancelLocked(t)  BY <1>21 DEF CancelLocked
<1>22. CASE CancelWaiting(t)  BY <1>22 DEF CancelWaiting, StopWaiting
<1>23. CASE SetFlag(t)  BY <1>23 DEF SetFlag
<1>24. CASE WakeEmpty(t)  BY <1>24 DEF WakeEmpty, WakeAll
<1>25. CASE WakeNotEmpty(t)  BY <1>25 DEF WakeNotEmpty, WakeAll
<1>26. CASE AwaitInflight(t)  BY <1>26 DEF AwaitInflight
<1> QED
  BY <1>1, <1>2, <1>3, <1>4, <1>5, <1>6, <1>7, <1>8, <1>9, <1>10, <1>11,
    <1>12, <1>13, <1>14, <1>15, <1>16, <1>17, <1>18, <1>19, <1>20, <1>21,
    <1>22, <1>23, <1>24, <1>25, <1>26
  DEF Step, Environment

\* The shutdown flag is never cleared.
LEMMA ClosingPreserved ==
  ASSUME IInv, NEW t \in Threads, Step(t) \/ Environment(t)
  PROVE  Closing'
<1> USE ConstantsAssumption DEF IInv, TypeOK, Points, Ops, OpAtPoint,
  LocksFirst, Unguarded, WaitSets, Goto, conds, data, Closing
<1>1. CASE Call(t)
  <2>1. PICK o \in Calls[t] : /\ op' = [op EXCEPT ![t] = o]
                            /\ pc' = [pc EXCEPT ![t] = EntryPoint(o)]
    BY <1>1 DEF Call
  <2>2. o \in Ops
    BY <2>1
  <2>3. \/ EntryPoint(o) = "gateCheck" /\ o \in {"push", "popBatch", "popTimed"}
        \/ EntryPoint(o) = "lock" /\ o \in {"pop", "popNoWait", "waitForEmpty"}
        \/ EntryPoint(o) = "setFlag"
    BY <2>2 DEF EntryPoint
  <2> QED  BY <1>1, <2>1, <2>2, <2>3 DEF Call
<1>2. CASE GateCheck(t)  BY <1>2 DEF GateCheck
<1>3. CASE GateAdd(t)  BY <1>3 DEF GateAdd
<1>4. CASE GateRecheck(t)  BY <1>4 DEF GateRecheck
<1>5. CASE DropTicket(t)  BY <1>5 DEF DropTicket
<1>6. CASE Throw(t)  BY <1>6 DEF Throw, Free
<1>7. CASE Leave(t)  BY <1>7 DEF Leave
<1>8. CASE Lock(t)  BY <1>8 DEF Lock
<1>9. CASE PushItem(t)  BY <1>9 DEF PushItem
<1>10. CASE PopNow(t)  BY <1>10 DEF PopNow, TakeItems
<1>11. CASE StartWait(t)  BY <1>11 DEF StartWait
<1>12. CASE TestPredicate(t)  BY <1>12 DEF TestPredicate
<1>13. CASE Block(t)  BY <1>13 DEF Block
<1>14. CASE SpuriousWake(t)  BY <1>14 DEF SpuriousWake, StopWaiting
<1>15. CASE TimeOut(t)  BY <1>15 DEF TimeOut, StopWaiting
<1>16. CASE CollectOne(t)  BY <1>16 DEF CollectOne, TakeItems
<1>17. CASE CollectBatch(t)  BY <1>17 DEF CollectBatch, TakeItems
<1>18. CASE ReturnCount(t)  BY <1>18 DEF ReturnCount
<1>19. CASE NotifyOne(t)  BY <1>19 DEF NotifyOne
<1>20. CASE NotifyEmpty(t)  BY <1>20 DEF NotifyEmpty, WakeAll
<1>21. CASE CancelLocked(t)  BY <1>21 DEF CancelLocked
<1>22. CASE CancelWaiting(t)  BY <1>22 DEF CancelWaiting, StopWaiting
<1>23. CASE SetFlag(t)  BY <1>23 DEF SetFlag
<1>24. CASE WakeEmpty(t)  BY <1>24 DEF WakeEmpty, WakeAll
<1>25. CASE WakeNotEmpty(t)  BY <1>25 DEF WakeNotEmpty, WakeAll
<1>26. CASE AwaitInflight(t)  BY <1>26 DEF AwaitInflight
<1> QED
  BY <1>1, <1>2, <1>3, <1>4, <1>5, <1>6, <1>7, <1>8, <1>9, <1>10, <1>11,
    <1>12, <1>13, <1>14, <1>15, <1>16, <1>17, <1>18, <1>19, <1>20, <1>21,
    <1>22, <1>23, <1>24, <1>25, <1>26
  DEF Step, Environment

\* Nobody else removes items while a consumer holds the lock.
LEMMA FrontPreserved ==
  ASSUME IInv, NEW t \in Threads, Step(t) \/ Environment(t)
  PROVE  FrontDefined'
<1> USE ConstantsAssumption DEF IInv, TypeOK, Points, Ops, FrontDefined,
  Ready, MutexHeld, Critical,
  OpAtPoint, WaitSets, Goto, conds, data
<1>1. CASE Call(t)
  <2>1. PICK o \in Calls[t] : /\ op' = [op EXCEPT ![t] = o]
                            /\ pc' = [pc EXCEPT ![t] = EntryPoint(o)]
    BY <1>1 DEF Call
  <2>2. o \in Ops
    BY <2>1
  <2>3. \/ EntryPoint(o) = "gateCheck" /\ o \in {"push", "popBatch", "popTimed"}
        \/ EntryPoint(o) = "lock" /\ o \in {"pop", "popNoWait", "waitForEmpty"}
        \/ EntryPoint(o) = "setFlag"
    BY <2>2 DEF EntryPoint
  <2> QED  BY <1>1, <2>1, <2>2, <2>3 DEF Call
<1>2. CASE GateCheck(t)  BY <1>2 DEF GateCheck
<1>3. CASE GateAdd(t)  BY <1>3 DEF GateAdd
<1>4. CASE GateRecheck(t)  BY <1>4 DEF GateRecheck
<1>5. CASE DropTicket(t)  BY <1>5 DEF DropTicket
<1>6. CASE Throw(t)  BY <1>6 DEF Throw, Free
<1>7. CASE Leave(t)  BY <1>7 DEF Leave
<1>8. CASE Lock(t)  BY <1>8 DEF Lock
<1>9. CASE PushItem(t)  BY <1>9 DEF PushItem
<1>10. CASE PopNow(t)  BY <1>10 DEF PopNow, TakeItems
<1>11. CASE StartWait(t)  BY <1>11 DEF StartWait
<1>12. CASE TestPredicate(t)  BY <1>12 DEF TestPredicate
<1>13. CASE Block(t)  BY <1>13 DEF Block
<1>14. CASE SpuriousWake(t)  BY <1>14 DEF SpuriousWake, StopWaiting
<1>15. CASE TimeOut(t)  BY <1>15 DEF TimeOut, StopWaiting
<1>16. CASE CollectOne(t)  BY <1>16 DEF CollectOne, TakeItems
<1>17. CASE CollectBatch(t)  BY <1>17 DEF CollectBatch, TakeItems
<1>18. CASE ReturnCount(t)  BY <1>18 DEF ReturnCount
<1>19. CASE NotifyOne(t)  BY <1>19 DEF NotifyOne
<1>20. CASE NotifyEmpty(t)  BY <1>20 DEF NotifyEmpty, WakeAll
<1>21. CASE CancelLocked(t)  BY <1>21 DEF CancelLocked
<1>22. CASE CancelWaiting(t)  BY <1>22 DEF CancelWaiting, StopWaiting
<1>23. CASE SetFlag(t)  BY <1>23 DEF SetFlag
<1>24. CASE WakeEmpty(t)  BY <1>24 DEF WakeEmpty, WakeAll
<1>25. CASE WakeNotEmpty(t)  BY <1>25 DEF WakeNotEmpty, WakeAll
<1>26. CASE AwaitInflight(t)  BY <1>26 DEF AwaitInflight
<1> QED
  BY <1>1, <1>2, <1>3, <1>4, <1>5, <1>6, <1>7, <1>8, <1>9, <1>10, <1>11,
    <1>12, <1>13, <1>14, <1>15, <1>16, <1>17, <1>18, <1>19, <1>20, <1>21,
    <1>22, <1>23, <1>24, <1>25, <1>26
  DEF Step, Environment

\* No call is admitted once the flag is set.
LEMMA AdmissionClosed ==
  ASSUME IInv, NEW t \in Threads, Step(t) \/ Environment(t)
  PROVE  closed => Admitted' \subseteq Admitted
<1> USE ConstantsAssumption DEF IInv, TypeOK, Points, Ops, OpAtPoint,
  LocksFirst, Unguarded, WaitSets, Goto, conds, data, Ticketed, HasTicket,
  Admitted
<1>1. CASE Call(t)
  <2>1. PICK o \in Calls[t] : /\ op' = [op EXCEPT ![t] = o]
                            /\ pc' = [pc EXCEPT ![t] = EntryPoint(o)]
    BY <1>1 DEF Call
  <2>2. o \in Ops
    BY <2>1
  <2>3. \/ EntryPoint(o) = "gateCheck" /\ o \in {"push", "popBatch", "popTimed"}
        \/ EntryPoint(o) = "lock" /\ o \in {"pop", "popNoWait", "waitForEmpty"}
        \/ EntryPoint(o) = "setFlag"
    BY <2>2 DEF EntryPoint
  <2> QED  BY <1>1, <2>1, <2>2, <2>3 DEF Call
<1>2. CASE GateCheck(t)  BY <1>2 DEF GateCheck
<1>3. CASE GateAdd(t)  BY <1>3 DEF GateAdd
<1>4. CASE GateRecheck(t)  BY <1>4 DEF GateRecheck
<1>5. CASE DropTicket(t)  BY <1>5 DEF DropTicket
<1>6. CASE Throw(t)  BY <1>6 DEF Throw, Free
<1>7. CASE Leave(t)  BY <1>7 DEF Leave
<1>8. CASE Lock(t)  BY <1>8 DEF Lock
<1>9. CASE PushItem(t)  BY <1>9 DEF PushItem
<1>10. CASE PopNow(t)  BY <1>10 DEF PopNow, TakeItems
<1>11. CASE StartWait(t)  BY <1>11 DEF StartWait
<1>12. CASE TestPredicate(t)  BY <1>12 DEF TestPredicate
<1>13. CASE Block(t)  BY <1>13 DEF Block
<1>14. CASE SpuriousWake(t)  BY <1>14 DEF SpuriousWake, StopWaiting
<1>15. CASE TimeOut(t)  BY <1>15 DEF TimeOut, StopWaiting
<1>16. CASE CollectOne(t)  BY <1>16 DEF CollectOne, TakeItems
<1>17. CASE CollectBatch(t)  BY <1>17 DEF CollectBatch, TakeItems
<1>18. CASE ReturnCount(t)  BY <1>18 DEF ReturnCount
<1>19. CASE NotifyOne(t)  BY <1>19 DEF NotifyOne
<1>20. CASE NotifyEmpty(t)  BY <1>20 DEF NotifyEmpty, WakeAll
<1>21. CASE CancelLocked(t)  BY <1>21 DEF CancelLocked
<1>22. CASE CancelWaiting(t)  BY <1>22 DEF CancelWaiting, StopWaiting
<1>23. CASE SetFlag(t)  BY <1>23 DEF SetFlag
<1>24. CASE WakeEmpty(t)  BY <1>24 DEF WakeEmpty, WakeAll
<1>25. CASE WakeNotEmpty(t)  BY <1>25 DEF WakeNotEmpty, WakeAll
<1>26. CASE AwaitInflight(t)  BY <1>26 DEF AwaitInflight
<1> QED
  BY <1>1, <1>2, <1>3, <1>4, <1>5, <1>6, <1>7, <1>8, <1>9, <1>10, <1>11,
    <1>12, <1>13, <1>14, <1>15, <1>16, <1>17, <1>18, <1>19, <1>20, <1>21,
    <1>22, <1>23, <1>24, <1>25, <1>26
  DEF Step, Environment

\* The counter against the cardinality of the set of ticket holders.
LEMMA TicketsFinite == IsFiniteSet(Ticketed) /\ Cardinality(Ticketed) \in Nat
  BY ConstantsAssumption, FS_Subset, FS_CardinalityType DEF Ticketed

\* A step that moves no ticket keeps the count exact.
LEMMA TicketsKept ==
  ASSUME IInv, Ticketed' = Ticketed, inflight' = inflight
  PROVE  InflightExact' /\ inflight' \in Nat
  BY TicketsFinite DEF IInv, InflightExact

\* Ticket's constructor: one more holder, one more in the count.
LEMMA TicketTaken ==
  ASSUME IInv, NEW t \in Threads, t \notin Ticketed,
         Ticketed' = Ticketed \cup {t}, inflight' = inflight + 1
  PROVE  InflightExact' /\ inflight' \in Nat
  BY TicketsFinite, FS_AddElement DEF IInv, InflightExact

\* Ticket's destructor: one holder less, one less in the count.
LEMMA TicketDropped ==
  ASSUME IInv, NEW t \in Threads, t \in Ticketed,
         Ticketed' = Ticketed \ {t}, inflight' = inflight - 1
  PROVE  InflightExact' /\ inflight' \in Nat
<1>1. Cardinality(Ticketed \ {t}) = Cardinality(Ticketed) - 1
  BY TicketsFinite, FS_RemoveElement
<1>2. IsFiniteSet(Ticketed \ {t}) /\ Cardinality(Ticketed \ {t}) \in Nat
  BY TicketsFinite, FS_RemoveElement, FS_CardinalityType
<1> QED  BY <1>1, <1>2 DEF IInv, InflightExact

\* The counter follows the set of ticket holders.
LEMMA InflightPreserved ==
  ASSUME IInv, NEW t \in Threads, Step(t) \/ Environment(t)
  PROVE  InflightExact' /\ inflight' \in Nat
<1> USE ConstantsAssumption DEF IInv, TypeOK, Points, Ops, OpAtPoint,
  LocksFirst, Unguarded, WaitSets, Goto, conds, data, Ticketed, HasTicket
<1>1. CASE Call(t)
  <2>1. PICK o \in Calls[t] : /\ op' = [op EXCEPT ![t] = o]
                            /\ pc' = [pc EXCEPT ![t] = EntryPoint(o)]
    BY <1>1 DEF Call
  <2>2. o \in Ops
    BY <2>1
  <2>3. \/ EntryPoint(o) = "gateCheck" /\ o \in {"push", "popBatch", "popTimed"}
        \/ EntryPoint(o) = "lock" /\ o \in {"pop", "popNoWait", "waitForEmpty"}
        \/ EntryPoint(o) = "setFlag"
    BY <2>2 DEF EntryPoint
  <2>4. Ticketed' = Ticketed /\ inflight' = inflight
    BY <1>1, <2>1, <2>2, <2>3 DEF Call
  <2> QED  BY <2>4, TicketsKept
<1>2. CASE GateCheck(t)
  <2>1. Ticketed' = Ticketed /\ inflight' = inflight
    BY <1>2 DEF GateCheck
  <2> QED  BY <2>1, TicketsKept
<1>3. CASE GateAdd(t)
  <2>1. t \notin Ticketed /\ Ticketed' = Ticketed \cup {t}
    BY <1>3 DEF GateAdd
  <2>2. inflight' = inflight + 1
    BY <1>3 DEF GateAdd
  <2> QED  BY <2>1, <2>2, TicketTaken
<1>4. CASE GateRecheck(t)
  <2>1. Ticketed' = Ticketed /\ inflight' = inflight
    BY <1>4 DEF GateRecheck
  <2> QED  BY <2>1, TicketsKept
<1>5. CASE DropTicket(t)
  <2>1. t \in Ticketed /\ Ticketed' = Ticketed \ {t}
    BY <1>5 DEF DropTicket
  <2>2. inflight' = inflight - 1
    BY <1>5 DEF DropTicket
  <2> QED  BY <2>1, <2>2, TicketDropped
<1>6. CASE Throw(t)
  <2>1. Ticketed' = Ticketed /\ inflight' = inflight
    BY <1>6 DEF Throw, Free
  <2> QED  BY <2>1, TicketsKept
<1>7. CASE Leave(t)
  <2>1. t \in Ticketed /\ Ticketed' = Ticketed \ {t}
    BY <1>7 DEF Leave
  <2>2. inflight' = inflight - 1
    BY <1>7 DEF Leave
  <2> QED  BY <2>1, <2>2, TicketDropped
<1>8. CASE Lock(t)
  <2>1. Ticketed' = Ticketed /\ inflight' = inflight
    BY <1>8 DEF Lock
  <2> QED  BY <2>1, TicketsKept
<1>9. CASE PushItem(t)
  <2>1. Ticketed' = Ticketed /\ inflight' = inflight
    BY <1>9 DEF PushItem
  <2> QED  BY <2>1, TicketsKept
<1>10. CASE PopNow(t)
  <2>1. Ticketed' = Ticketed /\ inflight' = inflight
    BY <1>10 DEF PopNow, TakeItems
  <2> QED  BY <2>1, TicketsKept
<1>11. CASE StartWait(t)
  <2>1. Ticketed' = Ticketed /\ inflight' = inflight
    BY <1>11 DEF StartWait
  <2> QED  BY <2>1, TicketsKept
<1>12. CASE TestPredicate(t)
  <2>1. Ticketed' = Ticketed /\ inflight' = inflight
    BY <1>12 DEF TestPredicate
  <2> QED  BY <2>1, TicketsKept
<1>13. CASE Block(t)
  <2>1. Ticketed' = Ticketed /\ inflight' = inflight
    BY <1>13 DEF Block
  <2> QED  BY <2>1, TicketsKept
<1>14. CASE SpuriousWake(t)
  <2>1. Ticketed' = Ticketed /\ inflight' = inflight
    BY <1>14 DEF SpuriousWake, StopWaiting
  <2> QED  BY <2>1, TicketsKept
<1>15. CASE TimeOut(t)
  <2>1. Ticketed' = Ticketed /\ inflight' = inflight
    BY <1>15 DEF TimeOut, StopWaiting
  <2> QED  BY <2>1, TicketsKept
<1>16. CASE CollectOne(t)
  <2>1. Ticketed' = Ticketed /\ inflight' = inflight
    BY <1>16 DEF CollectOne, TakeItems
  <2> QED  BY <2>1, TicketsKept
<1>17. CASE CollectBatch(t)
  <2>1. Ticketed' = Ticketed /\ inflight' = inflight
    BY <1>17 DEF CollectBatch, TakeItems
  <2> QED  BY <2>1, TicketsKept
<1>18. CASE ReturnCount(t)
  <2>1. Ticketed' = Ticketed /\ inflight' = inflight
    BY <1>18 DEF ReturnCount
  <2> QED  BY <2>1, TicketsKept
<1>19. CASE NotifyOne(t)
  <2>1. Ticketed' = Ticketed /\ inflight' = inflight
    BY <1>19 DEF NotifyOne
  <2> QED  BY <2>1, TicketsKept
<1>20. CASE NotifyEmpty(t)
  <2>1. Ticketed' = Ticketed /\ inflight' = inflight
    BY <1>20 DEF NotifyEmpty, WakeAll
  <2> QED  BY <2>1, TicketsKept
<1>21. CASE CancelLocked(t)
  <2>1. Ticketed' = Ticketed /\ inflight' = inflight
    BY <1>21 DEF CancelLocked
  <2> QED  BY <2>1, TicketsKept
<1>22. CASE CancelWaiting(t)
  <2>1. Ticketed' = Ticketed /\ inflight' = inflight
    BY <1>22 DEF CancelWaiting, StopWaiting
  <2> QED  BY <2>1, TicketsKept
<1>23. CASE SetFlag(t)
  <2>1. Ticketed' = Ticketed /\ inflight' = inflight
    BY <1>23 DEF SetFlag
  <2> QED  BY <2>1, TicketsKept
<1>24. CASE WakeEmpty(t)
  <2>1. Ticketed' = Ticketed /\ inflight' = inflight
    BY <1>24 DEF WakeEmpty, WakeAll
  <2> QED  BY <2>1, TicketsKept
<1>25. CASE WakeNotEmpty(t)
  <2>1. Ticketed' = Ticketed /\ inflight' = inflight
    BY <1>25 DEF WakeNotEmpty, WakeAll
  <2> QED  BY <2>1, TicketsKept
<1>26. CASE AwaitInflight(t)
  <2>1. Ticketed' = Ticketed /\ inflight' = inflight
    BY <1>26 DEF AwaitInflight
  <2> QED  BY <2>1, TicketsKept
<1> QED
  BY <1>1, <1>2, <1>3, <1>4, <1>5, <1>6, <1>7, <1>8, <1>9, <1>10, <1>11,
    <1>12, <1>13, <1>14, <1>15, <1>16, <1>17, <1>18, <1>19, <1>20, <1>21,
    <1>22, <1>23, <1>24, <1>25, <1>26
  DEF Step, Environment

\* shutdown() returns only from its wait on a zero counter.
LEMMA ReturnWhenEmpty ==
  ASSUME IInv, NEW t \in Threads, Step(t) \/ Environment(t)
  PROVE  \A s \in Threads :
           pc'[s] = "returned" => pc[s] = "returned" \/ inflight = 0
<1> USE ConstantsAssumption DEF IInv, TypeOK, Points, Ops, OpAtPoint,
  WaitSets, Goto, conds, data
<1>1. CASE Call(t)
  <2>1. PICK o \in Calls[t] : /\ op' = [op EXCEPT ![t] = o]
                            /\ pc' = [pc EXCEPT ![t] = EntryPoint(o)]
    BY <1>1 DEF Call
  <2>2. o \in Ops
    BY <2>1
  <2>3. \/ EntryPoint(o) = "gateCheck" /\ o \in {"push", "popBatch", "popTimed"}
        \/ EntryPoint(o) = "lock" /\ o \in {"pop", "popNoWait", "waitForEmpty"}
        \/ EntryPoint(o) = "setFlag"
    BY <2>2 DEF EntryPoint
  <2> QED  BY <1>1, <2>1, <2>2, <2>3 DEF Call
<1>2. CASE GateCheck(t)  BY <1>2 DEF GateCheck
<1>3. CASE GateAdd(t)  BY <1>3 DEF GateAdd
<1>4. CASE GateRecheck(t)  BY <1>4 DEF GateRecheck
<1>5. CASE DropTicket(t)  BY <1>5 DEF DropTicket
<1>6. CASE Throw(t)  BY <1>6 DEF Throw, Free
<1>7. CASE Leave(t)  BY <1>7 DEF Leave
<1>8. CASE Lock(t)  BY <1>8 DEF Lock
<1>9. CASE PushItem(t)  BY <1>9 DEF PushItem
<1>10. CASE PopNow(t)  BY <1>10 DEF PopNow, TakeItems
<1>11. CASE StartWait(t)  BY <1>11 DEF StartWait
<1>12. CASE TestPredicate(t)  BY <1>12 DEF TestPredicate
<1>13. CASE Block(t)  BY <1>13 DEF Block
<1>14. CASE SpuriousWake(t)  BY <1>14 DEF SpuriousWake, StopWaiting
<1>15. CASE TimeOut(t)  BY <1>15 DEF TimeOut, StopWaiting
<1>16. CASE CollectOne(t)  BY <1>16 DEF CollectOne, TakeItems
<1>17. CASE CollectBatch(t)  BY <1>17 DEF CollectBatch, TakeItems
<1>18. CASE ReturnCount(t)  BY <1>18 DEF ReturnCount
<1>19. CASE NotifyOne(t)  BY <1>19 DEF NotifyOne
<1>20. CASE NotifyEmpty(t)  BY <1>20 DEF NotifyEmpty, WakeAll
<1>21. CASE CancelLocked(t)  BY <1>21 DEF CancelLocked
<1>22. CASE CancelWaiting(t)  BY <1>22 DEF CancelWaiting, StopWaiting
<1>23. CASE SetFlag(t)  BY <1>23 DEF SetFlag
<1>24. CASE WakeEmpty(t)  BY <1>24 DEF WakeEmpty, WakeAll
<1>25. CASE WakeNotEmpty(t)  BY <1>25 DEF WakeNotEmpty, WakeAll
<1>26. CASE AwaitInflight(t)  BY <1>26 DEF AwaitInflight
<1> QED
  BY <1>1, <1>2, <1>3, <1>4, <1>5, <1>6, <1>7, <1>8, <1>9, <1>10, <1>11,
    <1>12, <1>13, <1>14, <1>15, <1>16, <1>17, <1>18, <1>19, <1>20, <1>21,
    <1>22, <1>23, <1>24, <1>25, <1>26
  DEF Step, Environment

\* ... and only once the flag is set.
LEMMA ReturnWhenClosed ==
  ASSUME IInv, NEW t \in Threads, Step(t) \/ Environment(t)
  PROVE  \A s \in Threads : pc'[s] = "returned" => closed
<1> USE ConstantsAssumption DEF IInv, TypeOK, Points, Ops, OpAtPoint,
  WaitSets, Closing, Goto, conds,
  data
<1>1. CASE Call(t)
  <2>1. PICK o \in Calls[t] : /\ op' = [op EXCEPT ![t] = o]
                            /\ pc' = [pc EXCEPT ![t] = EntryPoint(o)]
    BY <1>1 DEF Call
  <2>2. o \in Ops
    BY <2>1
  <2>3. \/ EntryPoint(o) = "gateCheck" /\ o \in {"push", "popBatch", "popTimed"}
        \/ EntryPoint(o) = "lock" /\ o \in {"pop", "popNoWait", "waitForEmpty"}
        \/ EntryPoint(o) = "setFlag"
    BY <2>2 DEF EntryPoint
  <2> QED  BY <1>1, <2>1, <2>2, <2>3 DEF Call
<1>2. CASE GateCheck(t)  BY <1>2 DEF GateCheck
<1>3. CASE GateAdd(t)  BY <1>3 DEF GateAdd
<1>4. CASE GateRecheck(t)  BY <1>4 DEF GateRecheck
<1>5. CASE DropTicket(t)  BY <1>5 DEF DropTicket
<1>6. CASE Throw(t)  BY <1>6 DEF Throw, Free
<1>7. CASE Leave(t)  BY <1>7 DEF Leave
<1>8. CASE Lock(t)  BY <1>8 DEF Lock
<1>9. CASE PushItem(t)  BY <1>9 DEF PushItem
<1>10. CASE PopNow(t)  BY <1>10 DEF PopNow, TakeItems
<1>11. CASE StartWait(t)  BY <1>11 DEF StartWait
<1>12. CASE TestPredicate(t)  BY <1>12 DEF TestPredicate
<1>13. CASE Block(t)  BY <1>13 DEF Block
<1>14. CASE SpuriousWake(t)  BY <1>14 DEF SpuriousWake, StopWaiting
<1>15. CASE TimeOut(t)  BY <1>15 DEF TimeOut, StopWaiting
<1>16. CASE CollectOne(t)  BY <1>16 DEF CollectOne, TakeItems
<1>17. CASE CollectBatch(t)  BY <1>17 DEF CollectBatch, TakeItems
<1>18. CASE ReturnCount(t)  BY <1>18 DEF ReturnCount
<1>19. CASE NotifyOne(t)  BY <1>19 DEF NotifyOne
<1>20. CASE NotifyEmpty(t)  BY <1>20 DEF NotifyEmpty, WakeAll
<1>21. CASE CancelLocked(t)  BY <1>21 DEF CancelLocked
<1>22. CASE CancelWaiting(t)  BY <1>22 DEF CancelWaiting, StopWaiting
<1>23. CASE SetFlag(t)  BY <1>23 DEF SetFlag
<1>24. CASE WakeEmpty(t)  BY <1>24 DEF WakeEmpty, WakeAll
<1>25. CASE WakeNotEmpty(t)  BY <1>25 DEF WakeNotEmpty, WakeAll
<1>26. CASE AwaitInflight(t)  BY <1>26 DEF AwaitInflight
<1> QED
  BY <1>1, <1>2, <1>3, <1>4, <1>5, <1>6, <1>7, <1>8, <1>9, <1>10, <1>11,
    <1>12, <1>13, <1>14, <1>15, <1>16, <1>17, <1>18, <1>19, <1>20, <1>21,
    <1>22, <1>23, <1>24, <1>25, <1>26
  DEF Step, Environment

\* Quiescence: the second test of the gate closes the window between the first
\* test and the increment.
LEMMA QuiescencePreserved ==
  ASSUME IInv, NEW t \in Threads, Step(t) \/ Environment(t)
  PROVE  ShutdownQuiesces'
<1> SUFFICES ASSUME NEW s \in Threads, pc'[s] = "returned"
             PROVE  Admitted' = {}
  BY DEF ShutdownQuiesces
<1>1. CASE pc[s] = "returned"
  <2>1. closed /\ Admitted = {}
    BY <1>1 DEF IInv, Closing, ShutdownQuiesces
  <2> QED  BY <2>1, AdmissionClosed
<1>2. CASE pc[s] # "returned"
  <2>1. inflight = 0
    BY <1>2, ReturnWhenEmpty
  <2>2. Ticketed = {}
    BY <2>1, TicketsFinite, FS_EmptySet DEF IInv, InflightExact
  <2>3. Admitted = {}
    BY <2>2 DEF Admitted
  <2>4. closed
    BY <1>2, ReturnWhenClosed
  <2> QED  BY <2>3, <2>4, AdmissionClosed
<1> QED  BY <1>1, <1>2

-----------------------------------------------------------------------------
(* The theorems.                                                           *)

\* The invariant holds of a freshly constructed queue.
LEMMA InitIInv == Init => IInv
<1> SUFFICES ASSUME Init  PROVE IInv
  OBVIOUS
<1> USE DEF Init
<1>1. TypeOK
  <2>1. closed \in BOOLEAN  OBVIOUS
  <2>2. pc \in [Threads -> Points] /\ op \in [Threads -> Ops]
    BY DEF Points, Ops
  <2>3. queue \in Seq(Nat) /\ delivered \in Seq(Nat)  OBVIOUS
  <2> QED  BY <2>1, <2>2, <2>3 DEF TypeOK
<1>2. OpAtPoint /\ WaitSets /\ Closing /\ FrontDefined /\ ShutdownQuiesces
  BY DEF OpAtPoint, WaitSets, Closing, FrontDefined, ShutdownQuiesces
<1>3. MutexHeld
  BY DEF MutexHeld, Critical
<1>4. InflightExact
  <2>1. Ticketed = {}
    BY DEF Ticketed, HasTicket
  <2> QED  BY <2>1, FS_EmptySet DEF InflightExact
<1> QED  BY <1>1, <1>2, <1>3, <1>4 DEF IInv

\* Every step leaves the shutdown flag alone or sets it.
LEMMA FlagTyped ==
  ASSUME IInv, NEW t \in Threads, Step(t) \/ Environment(t)
  PROVE  closed' \in BOOLEAN
<1>1. closed' = closed \/ closed' = TRUE
  BY DEF Step, Environment, Call, GateCheck, GateAdd, GateRecheck, DropTicket,
    Throw, Leave, Lock, PushItem, PopNow, StartWait, TestPredicate, Block,
    SpuriousWake, TimeOut, StopWaiting, CollectOne, CollectBatch, TakeItems,
    ReturnCount, NotifyOne, NotifyEmpty, CancelLocked, CancelWaiting, SetFlag,
    WakeEmpty, WakeNotEmpty, AwaitInflight
<1> QED  BY <1>1 DEF IInv, TypeOK

\* Every step of every thread preserves the invariant.
LEMMA NextIInv == IInv /\ [Next]_vars => IInv'
<1> SUFFICES ASSUME IInv, [Next]_vars  PROVE IInv'
  OBVIOUS
<1>1. CASE Next
  <2>1. PICK t \in Threads : Step(t) \/ Environment(t)
    BY <1>1 DEF Next
  <2>2. TypeOK'
    <3>1. (/\ mutex \in Threads \cup {NoThread}
           /\ notEmptyWaiters \subseteq Threads
           /\ emptyWaiters \subseteq Threads
           /\ pc \in [Threads -> Points]
           /\ op \in [Threads -> Ops])'
      BY <2>1, ControlTyped
    <3>2. (/\ queue \in Seq(Nat)
           /\ pushCount \in Nat
           /\ popCount \in Nat
           /\ delivered \in Seq(Nat))'
      BY <2>1, DataTyped
    <3>3. inflight' \in Nat
      BY <2>1, InflightPreserved
    <3>4. closed' \in BOOLEAN
      BY <2>1, FlagTyped
    <3> QED  BY <3>1, <3>2, <3>3, <3>4 DEF TypeOK
  <2>3. OpAtPoint' /\ WaitSets' /\ MutexHeld' /\ Closing'
    BY <2>1, OpAtPointPreserved, WaitSetsPreserved, MutexHeldPreserved,
       ClosingPreserved
  <2>4. FrontDefined' /\ InflightExact' /\ ShutdownQuiesces'
    BY <2>1, FrontPreserved, InflightPreserved, QuiescencePreserved
  <2> QED  BY <2>2, <2>3, <2>4 DEF IInv
<1>2. CASE UNCHANGED vars
  <2> USE <1>2 DEF vars, data, conds, IInv
  <2>1. TypeOK'  BY DEF TypeOK
  <2>2. OpAtPoint' /\ WaitSets' /\ MutexHeld' /\ Closing' /\ FrontDefined'
    BY DEF OpAtPoint, WaitSets, MutexHeld, Critical, Closing, FrontDefined
  <2>3. Ticketed' = Ticketed
    BY DEF Ticketed
  <2>4. InflightExact' /\ ShutdownQuiesces'
    BY <2>3 DEF InflightExact, ShutdownQuiesces, Admitted
  <2> QED  BY <2>1, <2>2, <2>4
<1> QED  BY <1>1, <1>2

\* The inductive invariant holds in every reachable state.
LEMMA Invariance == Spec => []IInv
  BY InitIInv, NextIInv, PTL DEF Spec

\* Every variable keeps its type; in particular the in-flight counter, which
\* is only ever decremented by one, never goes below zero.
THEOREM TypeCorrect == Spec => []TypeOK
<1>1. IInv => TypeOK
  BY DEF IInv
<1> QED  BY <1>1, Invariance, PTL

\* The counter shutdown() waits on equals the number of outstanding tickets,
\* for any number of threads and any mix of operations and cancellations.
THEOREM InflightCounterExact == Spec => []InflightExact
<1>1. IInv => InflightExact
  BY DEF IInv
<1> QED  BY <1>1, Invariance, PTL

\* After shutdown() returns no admitted push or pop runs, ever.
THEOREM ShutdownQuiescence == Spec => []ShutdownQuiesces
<1>1. IInv => ShutdownQuiesces
  BY DEF IInv
<1> QED  BY <1>1, Invariance, PTL

\* popOptional() never reads the front of an empty queue.
THEOREM FrontAlwaysDefined == Spec => []FrontDefined
<1>1. IInv => FrontDefined
  BY DEF IInv
<1> QED  BY <1>1, Invariance, PTL

-----------------------------------------------------------------------------
(* Refinement of the FIFO queue.                                           *)

\* Taking n items from the front is a step of the FIFO queue, or none at all
\* when a call leaves empty-handed.
LEMMA TakeRefines ==
  ASSUME IInv, NEW t \in Threads, NEW n \in 0 .. Len(queue), TakeItems(t, n)
  PROVE  [Fifo!Next]_Fifo!vars
<1>1. CASE n = 0
  <2>1. SubSeq(queue, 1, 0) = <<>> /\ SubSeq(queue, 1, Len(queue)) = queue
    BY DEF IInv, TypeOK
  <2>2. delivered \o <<>> = delivered
    BY DEF IInv, TypeOK
  <2>3. delivered' = delivered \o SubSeq(queue, 1, 0)
    BY <1>1 DEF TakeItems
  <2>4. queue' = SubSeq(queue, 1, Len(queue)) /\ pushCount' = pushCount
    BY <1>1 DEF TakeItems
  <2>5. delivered' = delivered /\ queue' = queue
    BY <2>1, <2>2, <2>3, <2>4
  <2> QED  BY <2>4, <2>5 DEF Fifo!vars
<1>2. CASE n # 0
  <2>1. n \in 1 .. Len(queue)
    BY <1>2 DEF IInv, TypeOK
  <2>2. Fifo!Take(n)
    BY DEF TakeItems, Fifo!Take
  <2> QED  BY <2>1, <2>2 DEF Fifo!Next
<1> QED  BY <1>1, <1>2

\* Every step of a thread is a step of the FIFO queue or leaves it alone.
LEMMA StepRefines ==
  ASSUME IInv, NEW t \in Threads, Step(t) \/ Environment(t)
  PROVE  [Fifo!Next]_Fifo!vars
<1>1. CASE PushItem(t)
  BY <1>1 DEF PushItem, Fifo!Next, Fifo!Put
<1>2. CASE PopNow(t)
  <2>1. TakeItems(t, IF queue # <<>> THEN 1 ELSE 0)
    BY <1>2 DEF PopNow
  <2>2. (IF queue # <<>> THEN 1 ELSE 0) \in 0 .. Len(queue)
    BY DEF IInv, TypeOK
  <2> QED  BY <2>1, <2>2, TakeRefines
<1>3. CASE CollectOne(t)
  <2>1. TakeItems(t, IF closed THEN 0 ELSE 1)
    BY <1>3 DEF CollectOne
  <2>2. closed \/ queue # <<>>
    BY <1>3 DEF CollectOne, FrontDefined, IInv
  <2>3. (IF closed THEN 0 ELSE 1) \in 0 .. Len(queue)
    BY <2>2 DEF IInv, TypeOK
  <2> QED  BY <2>1, <2>3, TakeRefines
<1>4. CASE CollectBatch(t)
  <2>1. TakeItems(t, IF Len(queue) < BatchCount THEN Len(queue)
                     ELSE BatchCount)
    BY <1>4 DEF CollectBatch
  <2>2. (IF Len(queue) < BatchCount THEN Len(queue) ELSE BatchCount)
           \in 0 .. Len(queue)
    BY ConstantsAssumption DEF IInv, TypeOK
  <2> QED  BY <2>1, <2>2, TakeRefines
<1>5. CASE ~ (PushItem(t) \/ PopNow(t) \/ CollectOne(t) \/ CollectBatch(t))
  <2>1. UNCHANGED data
    BY <1>5 DEF Step, Environment, Call, GateCheck, GateAdd, GateRecheck,
      DropTicket, Throw, Leave, Lock, StartWait, TestPredicate, Block,
      SpuriousWake, TimeOut, StopWaiting, ReturnCount, NotifyOne, NotifyEmpty,
      CancelLocked, CancelWaiting, SetFlag, WakeEmpty, WakeNotEmpty,
      AwaitInflight
  <2> QED  BY <2>1 DEF data, Fifo!vars
<1> QED  BY <1>1, <1>2, <1>3, <1>4, <1>5

\* The mutex queue implements the FIFO queue: whatever the threads, the
\* operations and the batch size, items leave in the order they entered, each
\* once, and none is made up.
THEOREM QueueImplementsFifo == Spec => ImplementsFifo
<1>1. Init => Fifo!Init
  BY DEF Init, Fifo!Init
<1>2. IInv /\ [Next]_vars => [Fifo!Next]_Fifo!vars
  <2> SUFFICES ASSUME IInv, [Next]_vars  PROVE [Fifo!Next]_Fifo!vars
    OBVIOUS
  <2>1. CASE Next
    <3>1. PICK t \in Threads : Step(t) \/ Environment(t)
      BY <2>1 DEF Next
    <3> QED  BY <3>1, StepRefines
  <2>2. CASE UNCHANGED vars
    BY <2>2 DEF vars, data, Fifo!vars
  <2> QED  BY <2>1, <2>2
<1> QED  BY <1>1, <1>2, Invariance, PTL DEF Spec, ImplementsFifo, Fifo!Spec
=============================================================================
