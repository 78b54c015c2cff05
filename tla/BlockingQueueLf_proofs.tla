----------------------- MODULE BlockingQueueLf_proofs -----------------------
(***************************************************************************)
(* Dmn_BlockingQueue_Lf for any number of threads, each with any call, and *)
(* any epochs: as long as no call has followed a bad pointer, the list is  *)
(* a FIFO queue, its count is exact and its nodes are owned.               *)
(***************************************************************************)
EXTENDS BlockingQueueLf, SequenceFacts, FiniteSetTheorems

-----------------------------------------------------------------------------
(* Calls and their steps.                                                  *)

\* What a load is: finitely many calls, each of a kind, each push with a node.
LEMMA CallFacts ==
  ASSUME LfTypeOK
  PROVE  /\ IsFiniteSet(Callers) /\ Dummy \in Nodes /\ Nodes \subseteq Nat /\ Null \notin Nodes
         /\ \A t \in Callers :
              /\ load[t].kind \in {"push", "pop", "popWait", "wait", "shutdown"}
              /\ load[t].kind = "push" => load[t].n \in Nodes
              /\ my[t] \in Locals
<1>1. load \in Workloads /\ my \in [Callers -> Locals]
  BY DEF LfTypeOK
<1>2. /\ IsFiniteSet(DOMAIN load)
      /\ load \in [DOMAIN load -> [kind: {"push", "pop", "popWait", "wait", "shutdown"}, n: Nat]]
  BY <1>1, LfAssumption
<1> QED
  BY <1>1, <1>2 DEF Callers, Nodes, Dummy, Null

\* An epoch has a bucket.
LEMMA EpochIndex ==
  ASSUME NEW id \in Nat
  PROVE  CalcEpochIndex(id) \in 0 .. Buckets - 1
  BY LfAssumption DEF CalcEpochIndex

\* A step keeps the load, and with it all that depends on nothing else.
LEMMA SameLoad ==
  ASSUME UNCHANGED load
  PROVE  Nodes' = Nodes /\ Callers' = Callers /\ Locals' = Locals
<1>1. Callers' = Callers
  BY DEF Callers
<1>2. Nodes' = Nodes
  BY <1>1 DEF Nodes
<1> QED
  BY <1>1, <1>2 DEF Locals

\* A step that keeps the load and the type of each variable keeps the type.
LEMMA TypeKept ==
  ASSUME LfTypeOK, UNCHANGED load,
         head' \in Nodes \cup {Null}, tail' \in Nodes \cup {Null}, next' \in [Nodes -> Nodes \cup {Null}],
         outstanding' \in Int, shut' \in BOOLEAN, inflightCount' \in Int,
         total' \in Nat, epoch' \in [total: Nat, id: Nat],
         count' \in [0 .. Buckets - 1 -> Int], reclaim' \in [0 .. Buckets - 1 -> SUBSET Nodes],
         freed' \subseteq Nodes, my' \in [Callers -> Locals],
         linked' \in Seq(Nodes), taken' \in Seq(Nodes \cup {Null})
  PROVE  LfTypeOK'
  BY SameLoad DEF LfTypeOK

\* A call moves to another point.
LEMMA GoType ==
  ASSUME LfTypeOK, NEW t \in Callers, NEW p \in CallPoints, Go(t, p)
  PROVE  my' \in [Callers -> Locals]
<1>1. my \in [Callers -> Locals]
  BY DEF LfTypeOK
<1> QED
  BY <1>1, ZenonT(40) DEF Go, Locals

\* What a call writes to its locals.
LEMMA LocalsType ==
  ASSUME LfTypeOK, NEW t \in Callers, NEW p \in CallPoints, NEW n \in Nodes \cup {Null}
  PROVE  /\ [my EXCEPT ![t].pc = p, ![t].last = n] \in [Callers -> Locals]
         /\ [my EXCEPT ![t].pc = p, ![t].first = n] \in [Callers -> Locals]
         /\ [my EXCEPT ![t].next = n, ![t].pc = p] \in [Callers -> Locals]
         /\ [my EXCEPT ![t].got = Append(@, my[t].next), ![t].pc = p] \in [Callers -> Locals]
<1>1. my \in [Callers -> Locals]
  BY DEF LfTypeOK
<1>2. [my EXCEPT ![t].pc = p, ![t].last = n] \in [Callers -> Locals]
  BY <1>1, ZenonT(40) DEF Locals
<1>3. [my EXCEPT ![t].pc = p, ![t].first = n] \in [Callers -> Locals]
  BY <1>1, ZenonT(40) DEF Locals
<1>4. [my EXCEPT ![t].next = n, ![t].pc = p] \in [Callers -> Locals]
  <2>1. [my[t] EXCEPT !.next = n, !.pc = p] \in Locals
    BY <1>1 DEF Locals
  <2> QED
    BY <1>1, <2>1
<1>5. Append(my[t].got, my[t].next) \in Seq(Nodes \cup {Null})
  <2>1. my[t].got \in Seq(Nodes \cup {Null}) /\ my[t].next \in Nodes \cup {Null}
    BY <1>1 DEF Locals
  <2> QED
    BY <2>1
<1>6. ASSUME NEW g \in Seq(Nodes \cup {Null})
      PROVE  [my EXCEPT ![t].got = g, ![t].pc = p] \in [Callers -> Locals]
  <2>1. [my[t] EXCEPT !.got = g, !.pc = p] \in Locals
    BY <1>1 DEF Locals
  <2> QED
    BY <1>1, <2>1
<1>7. [my EXCEPT ![t].got = Append(@, my[t].next), ![t].pc = p] \in [Callers -> Locals]
  BY <1>5, <1>6
<1> QED
  BY <1>2, <1>3, <1>4, <1>7, Zenon

\* The points that the steps lead to.
LEMMA PointNames ==
  /\ PushPoints \subseteq CallPoints /\ PopPoints \subseteq CallPoints /\ EndPoints \subseteq CallPoints
  /\ {"waitEmpty", "help", "shutTail", "shutWait"} \subseteq CallPoints
  /\ PushPoints = {"push", "pushTail", "pushNext", "pushLink", "pushSwing"}
  /\ PopPoints = {"popTail", "popHead", "popNext", "popSpin", "popTake", "retire", "popData"}
  /\ EndPoints = {"leave", "leaveEpoch", "leaveTake", "release", "refused", "done", "lost"}
  BY DEF CallPoints, PushPoints, PopPoints, EndPoints

\* Entering the queue keeps the types.
LEMMA GuardType ==
  ASSUME LfTypeOK, CallAtPoint, NEW t \in Callers, Guard(t)
  PROVE  LfTypeOK'
<1>0. /\ my[t] \in Locals /\ my \in [Callers -> Locals]
      /\ GuardPoints \subseteq CallPoints /\ EndPoints \subseteq CallPoints
      /\ total \in Nat /\ epoch \in [total: Nat, id: Nat]
  BY DEF LfTypeOK, CallPoints
<1>9. GuardPoints = {"call", "recheck", "epoch", "advance", "sweep", "sweepTake", "register"} /\ "refused" \in EndPoints
  BY DEF GuardPoints, EndPoints
<1>1. CASE Enter(t)
  <2>1. my' \in [Callers -> Locals]
    BY <1>0, <1>1, <1>9, GoType DEF Enter
  <2> QED
    BY <1>1, <2>1, TypeKept DEF Enter, LfTypeOK
<1>2. CASE Recheck(t)
  <2>1. my' \in [Callers -> Locals]
    <3>1. CASE shut
      BY <1>0, <1>2, <1>9, <3>1, GoType DEF Recheck
    <3>2. CASE ~shut
      <4>1. my' = [my EXCEPT ![t].pc = "epoch", ![t].total = total] /\ "epoch" \in CallPoints
        BY <1>0, <1>2, <1>9, <3>2 DEF Recheck
      <4> QED
        BY <1>0, <4>1 DEF Locals
    <3> QED
      BY <3>1, <3>2
  <2> QED
    BY <1>2, <2>1, TypeKept DEF Recheck, LfTypeOK
<1>3. CASE EpochLoad(t)
  <2>1. CalcEpochIndex(epoch.id) \in 0 .. Buckets - 1 /\ epoch \in [total: Nat, id: Nat]
    BY <1>0, EpochIndex
  <2>2. my' \in [Callers -> Locals]
    BY <1>0, <1>3, <1>9, <2>1 DEF EpochLoad, Locals
  <2> QED
    BY <1>3, <2>2, TypeKept DEF EpochLoad, LfTypeOK, shared
<1>4. CASE Advance(t)
  <2>1. CalcEpochIndex(epoch.id + 1) \in 0 .. Buckets - 1 /\ epoch'\in [total: Nat, id: Nat]
    <3>1. epoch.id + 1 \in Nat /\ my[t].total \in Nat
      BY <1>0 DEF Locals
    <3> QED
      BY <1>0, <1>4, <3>1, EpochIndex DEF Advance
  <2>2. my' \in [Callers -> Locals]
    <3>1. CASE epoch = my[t].ep
      <4>1. /\ my' = [my EXCEPT ![t].pc = "sweep", ![t].idx = 0, ![t].bucket = CalcEpochIndex(epoch.id + 1)]
            /\ "sweep" \in CallPoints /\ 0 \in 0 .. Buckets
        BY <1>0, <1>4, <1>9, <3>1, LfAssumption DEF Advance
      <4> QED
        BY <1>0, <2>1, <4>1 DEF Locals
    <3>2. CASE epoch # my[t].ep
      BY <1>0, <1>4, <1>9, <3>2, GoType DEF Advance
    <3> QED
      BY <3>1, <3>2
  <2> QED
    BY <1>4, <2>1, <2>2, TypeKept DEF Advance, LfTypeOK
<1>5. CASE Sweep(t)
  <2>1. \A p \in {"register", "sweepTake"} : Go(t, p) => my' \in [Callers -> Locals]
    BY <1>0, <1>9, GoType
  <2>2. my[t].idx # Buckets => my[t].idx + 1 \in 0 .. Buckets
    BY <1>0, LfAssumption DEF Locals
  <2>4. my[t].idx # Buckets /\ my' = [my EXCEPT ![t].idx = @ + 1] => my' \in [Callers -> Locals]
    <3>1. \A i \in 0 .. Buckets : [my EXCEPT ![t].idx = i] \in [Callers -> Locals]
      BY <1>0 DEF Locals
    <3> QED
      BY <2>2, <3>1
  <2>3. my' \in [Callers -> Locals]
    BY <1>5, <2>1, <2>4 DEF Sweep
  <2> QED
    BY <1>5, <2>3, TypeKept DEF Sweep, LfTypeOK, shared
<1>6. CASE SweepTake(t)
  <2>1. my[t].idx \in 0 .. Buckets - 1 /\ my[t].idx + 1 \in 0 .. Buckets
    BY <1>0, <1>6, LfAssumption DEF SweepTake, At, CallAtPoint, AtPoint, Locals
  <2>2. my' \in [Callers -> Locals]
    BY <1>0, <1>6, <1>9, <2>1 DEF SweepTake, Locals
  <2>3. reclaim' \in [0 .. Buckets - 1 -> SUBSET Nodes] /\ freed' \subseteq Nodes
    BY <1>6, <2>1 DEF SweepTake, FreeRetired, LfTypeOK
  <2> QED
    BY <1>6, <2>2, <2>3, TypeKept DEF SweepTake, LfTypeOK
<1>7. CASE Register(t)
  <2>1. Begin(t) \in PushPoints \cup PopPoints \cup {"waitEmpty"}
    BY <1>7, CallFacts DEF Register, CallAtPoint, AtPoint, At, Begin, PushPoints, PopPoints
  <2>2. my' \in [Callers -> Locals]
    BY <1>7, <2>1, GoType DEF Register, CallPoints
  <2>3. my[t].bucket \in 0 .. Buckets - 1
    BY <1>0 DEF Locals
  <2>4. count' \in [0 .. Buckets - 1 -> Int]
    BY <1>7, <2>3 DEF Register, LfTypeOK
  <2> QED
    BY <1>7, <2>2, <2>4, TypeKept DEF Register, LfTypeOK
<1> QED
  BY <1>1, <1>2, <1>3, <1>4, <1>5, <1>6, <1>7 DEF Guard

\* Leaving the queue keeps the types.
LEMMA LeavingType ==
  ASSUME LfTypeOK, NEW t \in Callers, Leaving(t)
  PROVE  LfTypeOK'
<1>0. my[t].bucket \in 0 .. Buckets - 1
  BY DEF LfTypeOK, Locals
<1>9. \A p \in EndPoints : Go(t, p) => my' \in [Callers -> Locals]
  BY PointNames, GoType
<1>1. CASE LeaveCount(t)
  <2>1. my' \in [Callers -> Locals]
    BY <1>1, <1>9, PointNames DEF LeaveCount
  <2>2. count' \in [0 .. Buckets - 1 -> Int]
    BY <1>0, <1>1 DEF LeaveCount, LfTypeOK
  <2> QED
    BY <1>1, <2>1, <2>2, TypeKept DEF LeaveCount, LfTypeOK
<1>2. CASE LeaveEpoch(t)
  <2>1. my' \in [Callers -> Locals]
    BY <1>2, <1>9, PointNames DEF LeaveEpoch
  <2> QED
    BY <1>2, <2>1, TypeKept DEF LeaveEpoch, LfTypeOK, shared
<1>3. CASE LeaveTake(t)
  <2>1. my' \in [Callers -> Locals]
    BY <1>3, <1>9, PointNames DEF LeaveTake
  <2>2. reclaim' \in [0 .. Buckets - 1 -> SUBSET Nodes] /\ freed' \subseteq Nodes
    BY <1>0, <1>3 DEF LeaveTake, FreeRetired, LfTypeOK
  <2> QED
    BY <1>3, <2>1, <2>2, TypeKept DEF LeaveTake, LfTypeOK
<1>4. CASE Release(t)
  <2>1. my' \in [Callers -> Locals]
    BY <1>4, <1>9, PointNames DEF Release
  <2> QED
    BY <1>4, <2>1, TypeKept DEF Release, LfTypeOK
<1> QED
  BY <1>1, <1>2, <1>3, <1>4 DEF Leaving

\* pushImpl(), and the help that a pop gives, keep the types.
LEMMA ProducingType ==
  ASSUME LfTypeOK, CallAtPoint, NEW t \in Callers, Producing(t)
  PROVE  LfTypeOK'
<1>0. /\ my[t].last \in Nodes \cup {Null} /\ my[t].next \in Nodes \cup {Null}
      /\ tail \in Nodes \cup {Null} /\ next \in [Nodes -> Nodes \cup {Null}]
      /\ At(t, "pushLink") \/ At(t, "pushSwing") => load[t].n \in Nodes
  <2>1. At(t, "pushLink") \/ At(t, "pushSwing") => load[t].kind = "push"
    BY PointNames DEF At, CallAtPoint, AtPoint
  <2> QED
    BY <2>1, CallFacts DEF LfTypeOK, Locals
<1>9. \A p \in PushPoints \cup PopPoints \cup EndPoints \cup {"help"} : p \in CallPoints /\ (Go(t, p) => my' \in [Callers -> Locals])
  BY PointNames, GoType
<1>1. CASE Push(t)
  <2>1. my' \in [Callers -> Locals]
    BY <1>1, <1>9, PointNames DEF Push
  <2> QED
    BY <1>1, <2>1, TypeKept DEF Push, LfTypeOK
<1>2. CASE PushTail(t)
  <2>1. my' \in [Callers -> Locals]
    <3>1. "leave" \in CallPoints /\ "pushNext" \in CallPoints
      BY <1>9, PointNames
    <3>2. [my EXCEPT ![t].pc = "pushNext", ![t].last = tail] \in [Callers -> Locals]
      BY <1>0, <3>1, LocalsType, Zenon
    <3> QED
      BY <1>2, <3>1, <3>2, GoType, Zenon DEF PushTail
  <2> QED
    BY <1>2, <2>1, TypeKept DEF PushTail, LfTypeOK
<1>3. CASE PushNext(t)
  <2>1. my' \in [Callers -> Locals]
    <3>1. CASE Fault(my[t].last)
      BY <1>3, <1>9, <3>1, PointNames DEF PushNext, Lost
    <3>2. CASE ~Fault(my[t].last)
      <4>1. next[my[t].last] \in Nodes \cup {Null}
        BY <1>0, <3>2 DEF Fault
      <4> DEFINE p == CASE my[t].last # tail -> "pushTail"
                        [] next[my[t].last] = Null -> "pushLink"
                        [] OTHER -> "help"
      <4>2. p \in {"pushTail", "pushLink", "help"}
        OBVIOUS
      <4>3. p \in CallPoints
        BY <1>9, <4>2, PointNames
      <4>4. my' = [my EXCEPT ![t].next = next[my[t].last], ![t].pc = p]
        BY <1>3, <3>2 DEF PushNext
      <4> HIDE DEF p
      <4> QED
        BY <4>1, <4>3, <4>4, LocalsType
    <3> QED
      BY <3>1, <3>2
  <2> QED
    BY <1>3, <2>1, TypeKept DEF PushNext, LfTypeOK, shared
<1>4. CASE PushLink(t)
  <2>1. my' \in [Callers -> Locals]
    BY <1>4, <1>9, PointNames DEF PushLink, Lost
  <2>2. load[t].n \in Nodes
    BY <1>0, <1>4 DEF PushLink
  <2>3. next' \in [Nodes -> Nodes \cup {Null}] /\ linked' \in Seq(Nodes)
    <3>1. next \in [Nodes -> Nodes \cup {Null}] /\ linked \in Seq(Nodes)
      BY DEF LfTypeOK
    <3>2. next' = next \/ next' = [next EXCEPT ![my[t].last] = load[t].n]
      BY <1>4 DEF PushLink
    <3>3. linked' = linked \/ linked' = Append(linked, load[t].n)
      BY <1>4 DEF PushLink
    <3>4. next' \in [Nodes -> Nodes \cup {Null}]
      BY <2>2, <3>1, <3>2
    <3>5. linked' \in Seq(Nodes)
      BY <2>2, <3>1, <3>3
    <3> QED
      BY <3>4, <3>5
  <2> QED
    BY <1>4, <2>1, <2>3, TypeKept DEF PushLink, LfTypeOK
<1>5. CASE PushSwing(t)
  <2>1. my' \in [Callers -> Locals]
    BY <1>5, <1>9, PointNames DEF PushSwing
  <2>2. tail' \in Nodes \cup {Null}
    BY <1>0, <1>5 DEF PushSwing
  <2> QED
    BY <1>5, <2>1, <2>2, TypeKept DEF PushSwing, LfTypeOK
<1>6. CASE Help(t)
  <2>1. my' \in [Callers -> Locals]
    BY <1>6, <1>9, PointNames DEF Help
  <2>2. tail' \in Nodes \cup {Null}
    BY <1>0, <1>6 DEF Help
  <2> QED
    BY <1>6, <2>1, <2>2, TypeKept DEF Help, LfTypeOK
<1> QED
  BY <1>1, <1>2, <1>3, <1>4, <1>5, <1>6 DEF Producing

\* popOptional() and pop() keep the types.
LEMMA ConsumingType ==
  ASSUME LfTypeOK, CallAtPoint, NEW t \in Callers, Consuming(t)
  PROVE  LfTypeOK'
<1>0. /\ my[t].first \in Nodes \cup {Null} /\ my[t].next \in Nodes \cup {Null}
      /\ my[t].bucket \in 0 .. Buckets - 1
      /\ tail \in Nodes \cup {Null} /\ head \in Nodes \cup {Null} /\ next \in [Nodes -> Nodes \cup {Null}]
      /\ At(t, "retire") => my[t].first \in Nodes
  BY DEF LfTypeOK, Locals, CallAtPoint, AtPoint, At
<1>9. \A p \in PopPoints \cup EndPoints \cup {"help"} : p \in CallPoints /\ (Go(t, p) => my' \in [Callers -> Locals])
  BY PointNames, GoType
<1>1. CASE PopTail(t)
  <2>1. my' \in [Callers -> Locals]
    <3>1. "leave" \in CallPoints /\ "popHead" \in CallPoints
      BY <1>9, PointNames
    <3>2. [my EXCEPT ![t].pc = "popHead", ![t].last = tail] \in [Callers -> Locals]
      BY <1>0, <3>1, LocalsType, Zenon
    <3> QED
      BY <1>1, <3>1, <3>2, GoType, Zenon DEF PopTail
  <2> QED
    BY <1>1, <2>1, TypeKept DEF PopTail, LfTypeOK, shared
<1>2. CASE PopHead(t)
  <2>1. my' \in [Callers -> Locals]
    BY <1>0, <1>2, <1>9, PointNames, LocalsType DEF PopHead
  <2> QED
    BY <1>2, <2>1, TypeKept DEF PopHead, LfTypeOK, shared
<1>3. CASE PopNext(t)
  <2>1. my' \in [Callers -> Locals]
    <3>1. CASE \E p \in {"lost", "popTail", "popSpin", "leave"} : Go(t, p)
      BY <1>9, <3>1, PointNames
    <3>2. CASE ~\E p \in {"lost", "popTail", "popSpin", "leave"} : Go(t, p)
      <4>1. /\ my' = [my EXCEPT ![t].next = next[head], ![t].pc = IF my[t].first = my[t].last THEN "help" ELSE "popTake"]
            /\ ~Fault(my[t].first) /\ my[t].first = head
        BY <1>3, <3>2 DEF PopNext, PopEmpty, Lost
      <4>2. next[head] \in Nodes \cup {Null}
        BY <1>0, <4>1 DEF Fault
      <4>3. "help" \in CallPoints /\ "popTake" \in CallPoints
        BY <1>9, PointNames
      <4>4. \A p \in {"help", "popTake"} : [my EXCEPT ![t].next = next[head], ![t].pc = p] \in [Callers -> Locals]
        BY <4>2, <4>3, LocalsType, Zenon
      <4> QED
        BY <4>1, <4>4
    <3> QED
      BY <3>1, <3>2
  <2> QED
    BY <1>3, <2>1, TypeKept DEF PopNext, LfTypeOK, shared
<1>4. CASE PopSpin(t)
  <2>1. my' \in [Callers -> Locals]
    BY <1>4, <1>9, PointNames DEF PopSpin
  <2> QED
    BY <1>4, <2>1, TypeKept DEF PopSpin, LfTypeOK, shared
<1>5. CASE PopTake(t)
  <2>1. my' \in [Callers -> Locals]
    BY <1>5, <1>9, PointNames DEF PopTake
  <2>2. head' \in Nodes \cup {Null} /\ taken' \in Seq(Nodes \cup {Null})
    <3>1. head \in Nodes \cup {Null} /\ taken \in Seq(Nodes \cup {Null})
      BY DEF LfTypeOK
    <3>2. \/ head' = my[t].next /\ taken' = Append(taken, my[t].next)
          \/ head' = head /\ taken' = taken
      BY <1>5 DEF PopTake
    <3>3. Append(taken, my[t].next) \in Seq(Nodes \cup {Null})
      BY <1>0, <3>1
    <3> QED
      BY <1>0, <3>1, <3>2, <3>3, Zenon
  <2> QED
    BY <1>5, <2>1, <2>2, TypeKept DEF PopTake, LfTypeOK
<1>6. CASE RetireNode(t)
  <2>1. my' \in [Callers -> Locals]
    BY <1>6, <1>9, PointNames DEF RetireNode
  <2>2. reclaim' \in [0 .. Buckets - 1 -> SUBSET Nodes]
    BY <1>0, <1>6 DEF RetireNode, LfTypeOK
  <2> QED
    BY <1>6, <2>1, <2>2, TypeKept DEF RetireNode, LfTypeOK
<1>7. CASE PopData(t)
  <2>1. my' \in [Callers -> Locals]
    <3>1. {"lost", "popTail", "leave"} \subseteq CallPoints
      BY <1>9, PointNames
    <3>2. \A p \in {"popTail", "leave"} : [my EXCEPT ![t].got = Append(@, my[t].next), ![t].pc = p] \in [Callers -> Locals]
      BY <1>0, <3>1, LocalsType, Zenon
    <3>3. Go(t, "lost") => my' \in [Callers -> Locals]
      BY <3>1, GoType
    <3> QED
      BY <1>7, <3>2, <3>3 DEF PopData, Lost
  <2> QED
    BY <1>7, <2>1, TypeKept DEF PopData, LfTypeOK
<1> QED
  BY <1>1, <1>2, <1>3, <1>4, <1>5, <1>6, <1>7 DEF Consuming

\* waitForEmpty() and shutdown() keep the types.
LEMMA EndingType ==
  ASSUME LfTypeOK, NEW t \in Callers, Ending(t)
  PROVE  LfTypeOK'
<1>1. \A p \in EndPoints \cup {"shutTail", "shutWait"} : Go(t, p) => my' \in [Callers -> Locals]
  BY PointNames, GoType
<1>2. my' \in [Callers -> Locals]
  BY <1>1, PointNames DEF Ending, WaitForEmpty, Shutdown, ShutdownTail, ShutdownEnd
<1> QED
  BY <1>2, TypeKept DEF Ending, WaitForEmpty, Shutdown, ShutdownTail, ShutdownEnd, LfTypeOK, shared

\* Every step keeps the types.
LEMMA TypeStep ==
  ASSUME LfTypeOK, CallAtPoint, LfNext
  PROVE  LfTypeOK'
  BY GuardType, LeavingType, ProducingType, ConsumingType, EndingType DEF LfNext

-----------------------------------------------------------------------------
(* Where a step leads its call.                                            *)

Step(t) == Guard(t) \/ Leaving(t) \/ Producing(t) \/ Consuming(t) \/ Ending(t)

\* The locals of a call that goes to another point.
LEMMA GoFacts ==
  ASSUME LfTypeOK, NEW t \in Callers, NEW p, Go(t, p)
  PROVE  /\ my'[t].pc = p /\ my'[t].last = my[t].last /\ my'[t].first = my[t].first
         /\ my'[t].next = my[t].next /\ my'[t].idx = my[t].idx /\ my'[t].bucket = my[t].bucket
         /\ \A u \in Callers \ {t} : my'[u] = my[u]
  BY DEF LfTypeOK, Locals, Go

\* A step is one call's: the others' locals stay, and so does the load.
LEMMA OthersKept ==
  ASSUME LfTypeOK, NEW t \in Callers, Step(t)
  PROVE  UNCHANGED load /\ (shut => shut') /\ \A u \in Callers \ {t} : my'[u] = my[u]
<1>1. my \in [Callers -> Locals]
  BY DEF LfTypeOK
<1>2. CASE Guard(t)
  BY <1>1, <1>2 DEF Guard, Enter, Recheck, EpochLoad, Advance, Sweep, SweepTake, Register, Go, shared
<1>3. CASE Leaving(t)
  BY <1>1, <1>3 DEF Leaving, LeaveCount, LeaveEpoch, LeaveTake, Release, Go, shared
<1>4. CASE Producing(t)
  BY <1>1, <1>4 DEF Producing, Push, PushTail, PushNext, PushLink, PushSwing, Help, Lost, Go, shared
<1>5. CASE Consuming(t)
  BY <1>1, <1>5
     DEF Consuming, PopTail, PopHead, PopNext, PopSpin, PopTake, RetireNode, PopData, PopEmpty, Lost, Go, shared
<1>6. CASE Ending(t)
  BY <1>1, <1>6 DEF Ending, WaitForEmpty, Shutdown, ShutdownTail, ShutdownEnd, Go, shared
<1> QED
  BY <1>2, <1>3, <1>4, <1>5, <1>6 DEF Step

\* Where the steps of an entering call lead.
LEMMA GuardMoves ==
  ASSUME LfTypeOK, CallAtPoint, NEW t \in Callers, Guard(t)
  PROVE  /\ my[t].pc \in GuardPoints /\ load[t].kind # "shutdown"
         /\ my'[t].pc \in GuardPoints \cup {"refused", "push", "popTail", "waitEmpty"}
         /\ my'[t].pc = "sweepTake" => my'[t].idx # Buckets
         /\ my'[t].pc = "push" => load[t].kind = "push"
         /\ my'[t].pc = "popTail" => Pops(t)
         /\ my'[t].pc = "waitEmpty" => load[t].kind = "wait"
         /\ my'[t].pc # "call"
         /\ my[t].pc # "call" => (my'[t].pc = "refused" <=> my[t].pc = "recheck" /\ shut)
<1>1. /\ load[t].kind \in {"push", "pop", "popWait", "wait", "shutdown"} /\ my \in [Callers -> Locals]
      /\ load[t].kind = "shutdown" => my[t].pc \in {"call", "shutTail", "shutWait", "done"}
  BY CallFacts DEF CallAtPoint, AtPoint, LfTypeOK
<1>2. CASE Enter(t)
  BY <1>1, <1>2, GoFacts DEF Enter, At, GuardPoints
<1>3. CASE Recheck(t)
  <2>1. my[t].pc = "recheck" /\ my'[t].pc = IF shut THEN "refused" ELSE "epoch"
    <3>1. CASE shut
      BY <1>3, <3>1, GoFacts DEF Recheck, At
    <3>2. CASE ~shut
      BY <1>1, <1>3, <3>2 DEF Recheck, At, Locals
    <3> QED
      BY <3>1, <3>2
  <2> QED
    BY <1>1, <2>1 DEF GuardPoints
<1>4. CASE EpochLoad(t)
  BY <1>1, <1>4 DEF EpochLoad, At, GuardPoints, Locals
<1>5. CASE Advance(t)
  BY <1>1, <1>5, GoFacts DEF Advance, At, GuardPoints, Locals
<1>6. CASE Sweep(t)
  BY <1>1, <1>6, GoFacts DEF Sweep, At, GuardPoints, Locals
<1>7. CASE SweepTake(t)
  BY <1>1, <1>7 DEF SweepTake, At, GuardPoints, Locals
<1>8. CASE Register(t)
  <2>1. my'[t].pc = Begin(t) /\ my[t].pc = "register"
    BY <1>8, GoFacts DEF Register, At
  <2> QED
    BY <1>1, <2>1 DEF Begin, Pops, GuardPoints
<1> QED
  BY <1>2, <1>3, <1>4, <1>5, <1>6, <1>7, <1>8 DEF Guard

\* Where the steps of a leaving call lead.
LEMMA LeavingMoves ==
  ASSUME LfTypeOK, NEW t \in Callers, Leaving(t)
  PROVE  /\ my[t].pc \in {"leave", "leaveEpoch", "leaveTake", "release"}
         /\ my'[t].pc \in {"leaveEpoch", "leaveTake", "release", "done"}
  BY GoFacts DEF Leaving, LeaveCount, LeaveEpoch, LeaveTake, Release, At

\* Where the steps of a push lead, and what they read.
LEMMA ProducingMoves ==
  ASSUME LfTypeOK, NEW t \in Callers
  PROVE  /\ Push(t) => my[t].pc = "push" /\ my'[t].pc = "pushTail"
         /\ PushTail(t) => /\ my[t].pc = "pushTail"
                           /\ IF tail = Null THEN my'[t].pc = "leave"
                                             ELSE my'[t].pc = "pushNext" /\ my'[t].last = tail
         /\ PushNext(t) => /\ my[t].pc = "pushNext"
                           /\ IF Fault(my[t].last) THEN my'[t].pc = "lost"
                              ELSE /\ my'[t].last = my[t].last /\ my'[t].next = next[my[t].last]
                                   /\ my'[t].pc \in {"pushTail", "pushLink", "help"}
                                   /\ my'[t].pc = "help" => my'[t].next # Null
         /\ PushLink(t) => /\ my[t].pc = "pushLink" /\ my'[t].last = my[t].last
                           /\ IF Fault(my[t].last) THEN my'[t].pc = "lost"
                              ELSE my'[t].pc = IF next[my[t].last] = Null THEN "pushSwing" ELSE "pushTail"
         /\ PushSwing(t) => my[t].pc = "pushSwing" /\ my'[t].pc = "leave"
         /\ Help(t) => /\ my[t].pc = "help"
                       /\ my'[t].pc = IF load[t].kind = "push" THEN "pushTail" ELSE "popTail"
<1>1. my \in [Callers -> Locals]
  BY DEF LfTypeOK
<1>2. Push(t) => my[t].pc = "push" /\ my'[t].pc = "pushTail"
  BY GoFacts DEF Push, At
<1>3. PushTail(t) => /\ my[t].pc = "pushTail"
                    /\ IF tail = Null THEN my'[t].pc = "leave"
                                      ELSE my'[t].pc = "pushNext" /\ my'[t].last = tail
  BY <1>1, GoFacts DEF PushTail, At, Locals
<1>4. ASSUME PushNext(t)
      PROVE  /\ my[t].pc = "pushNext"
             /\ IF Fault(my[t].last) THEN my'[t].pc = "lost"
                ELSE /\ my'[t].last = my[t].last /\ my'[t].next = next[my[t].last]
                     /\ my'[t].pc \in {"pushTail", "pushLink", "help"}
                     /\ my'[t].pc = "help" => my'[t].next # Null
  <2>1. CASE Fault(my[t].last)
    BY <1>4, <2>1, GoFacts DEF PushNext, At, Lost
  <2>2. CASE ~Fault(my[t].last)
    BY <1>1, <1>4, <2>2 DEF PushNext, At, Locals
  <2> QED
    BY <2>1, <2>2
<1>5. PushLink(t) => /\ my[t].pc = "pushLink" /\ my'[t].last = my[t].last
                    /\ IF Fault(my[t].last) THEN my'[t].pc = "lost"
                       ELSE my'[t].pc = IF next[my[t].last] = Null THEN "pushSwing" ELSE "pushTail"
  BY GoFacts DEF PushLink, At, Lost
<1>6. PushSwing(t) => my[t].pc = "pushSwing" /\ my'[t].pc = "leave"
  BY GoFacts DEF PushSwing, At
<1>7. Help(t) => /\ my[t].pc = "help"
                /\ my'[t].pc = IF load[t].kind = "push" THEN "pushTail" ELSE "popTail"
  BY GoFacts DEF Help, At
<1> QED
  BY <1>2, <1>3, <1>4, <1>5, <1>6, <1>7, Zenon

\* Where the steps of a pop lead, and what they read.
LEMMA ConsumingMoves ==
  ASSUME LfTypeOK, NEW t \in Callers
  PROVE  /\ PopTail(t) => /\ my[t].pc = "popTail"
                          /\ IF tail = Null THEN my'[t].pc = "leave"
                                            ELSE my'[t].pc = "popHead" /\ my'[t].last = tail
         /\ PopHead(t) => /\ my[t].pc = "popHead" /\ my'[t].pc = "popNext"
                          /\ my'[t].last = my[t].last /\ my'[t].first = head
         /\ PopNext(t) => /\ my[t].pc = "popNext" /\ my'[t].last = my[t].last /\ my'[t].first = my[t].first
                          /\ my'[t].pc \in {"lost", "popTail", "popSpin", "leave", "help", "popTake"}
                          /\ my'[t].pc \in {"help", "popTake"} =>
                               /\ ~Fault(my[t].first) /\ my[t].first = head /\ my'[t].next = next[head]
                               /\ IF my'[t].pc = "help" THEN my[t].first = my[t].last /\ next[head] # Null
                                                        ELSE my[t].first # my[t].last
         /\ PopSpin(t) => my[t].pc = "popSpin" /\ my'[t].pc = "popTail"
         /\ PopTake(t) => /\ my[t].pc = "popTake" /\ my'[t].pc \in {"retire", "popTail"}
                          /\ my'[t].first = my[t].first
                          /\ IF my'[t].pc = "retire"
                               THEN head = my[t].first /\ head' = my[t].next /\ taken' = Append(taken, my[t].next)
                               ELSE UNCHANGED <<head, taken>>
         /\ RetireNode(t) => my[t].pc = "retire" /\ my'[t].pc = "popData"
         /\ PopData(t) => my[t].pc = "popData" /\ my'[t].pc \in {"lost", "popTail", "leave"}
<1>1. my \in [Callers -> Locals]
  BY DEF LfTypeOK
<1>2. PopTail(t) => /\ my[t].pc = "popTail"
                   /\ IF tail = Null THEN my'[t].pc = "leave"
                                     ELSE my'[t].pc = "popHead" /\ my'[t].last = tail
  BY <1>1, GoFacts DEF PopTail, At, Locals
<1>3. PopHead(t) => /\ my[t].pc = "popHead" /\ my'[t].pc = "popNext"
                   /\ my'[t].last = my[t].last /\ my'[t].first = head
  BY <1>1 DEF PopHead, At, Locals
<1>4. ASSUME PopNext(t)
      PROVE  /\ my[t].pc = "popNext" /\ my'[t].last = my[t].last /\ my'[t].first = my[t].first
             /\ my'[t].pc \in {"lost", "popTail", "popSpin", "leave", "help", "popTake"}
             /\ my'[t].pc \in {"help", "popTake"} =>
                  /\ ~Fault(my[t].first) /\ my[t].first = head /\ my'[t].next = next[head]
                  /\ IF my'[t].pc = "help" THEN my[t].first = my[t].last /\ next[head] # Null
                                           ELSE my[t].first # my[t].last
  <2>1. CASE \E p \in {"lost", "popTail", "popSpin", "leave"} : Go(t, p)
    BY <1>4, <2>1, GoFacts DEF PopNext, At
  <2>2. CASE ~\E p \in {"lost", "popTail", "popSpin", "leave"} : Go(t, p)
    <3>1. /\ my' = [my EXCEPT ![t].next = next[head], ![t].pc = IF my[t].first = my[t].last THEN "help" ELSE "popTake"]
          /\ ~Fault(my[t].first) /\ my[t].first = head /\ my[t].pc = "popNext"
          /\ my[t].first = my[t].last => next[head] # Null
      BY <1>4, <2>2 DEF PopNext, PopEmpty, Lost, At
    <3> QED
      BY <1>1, <3>1 DEF Locals
  <2> QED
    BY <2>1, <2>2
<1>5. PopSpin(t) => my[t].pc = "popSpin" /\ my'[t].pc = "popTail"
  BY GoFacts DEF PopSpin, At
<1>6. PopTake(t) => /\ my[t].pc = "popTake" /\ my'[t].pc \in {"retire", "popTail"}
                   /\ my'[t].first = my[t].first
                   /\ IF my'[t].pc = "retire"
                        THEN head = my[t].first /\ head' = my[t].next /\ taken' = Append(taken, my[t].next)
                        ELSE UNCHANGED <<head, taken>>
  BY GoFacts DEF PopTake, At
<1>7. RetireNode(t) => my[t].pc = "retire" /\ my'[t].pc = "popData"
  BY GoFacts DEF RetireNode, At
<1>8. PopData(t) => my[t].pc = "popData" /\ my'[t].pc \in {"lost", "popTail", "leave"}
  <2>1. CASE Fault(my[t].next)
    BY <2>1, GoFacts DEF PopData, At, Lost
  <2>2. CASE ~Fault(my[t].next)
    BY <1>1, <2>2 DEF PopData, At, Locals
  <2> QED
    BY <2>1, <2>2
<1> QED
  BY <1>2, <1>3, <1>4, <1>5, <1>6, <1>7, <1>8, Zenon

\* Where the steps of waitForEmpty() and shutdown() lead.
LEMMA EndingMoves ==
  ASSUME LfTypeOK, NEW t \in Callers
  PROVE  /\ WaitForEmpty(t) => my[t].pc = "waitEmpty" /\ my'[t].pc = "leave"
         /\ Shutdown(t) => my[t].pc = "call" /\ my'[t].pc = "shutTail" /\ load[t].kind = "shutdown" /\ shut'
         /\ ShutdownTail(t) => my[t].pc = "shutTail" /\ my'[t].pc = "shutWait"
         /\ ShutdownEnd(t) => my[t].pc = "shutWait" /\ my'[t].pc = "done" /\ inflightCount = 0
  BY GoFacts DEF WaitForEmpty, Shutdown, ShutdownTail, ShutdownEnd, At

\* Every call stays at points of its own kind.
LEMMA PointStep ==
  ASSUME LfTypeOK, CallAtPoint, NEW t \in Callers, Step(t)
  PROVE  CallAtPoint'
<1>1. /\ load' = load /\ (shut => shut') /\ \A u \in Callers \ {t} : my'[u] = my[u]
      /\ Callers' = Callers
  BY OthersKept, SameLoad
<1>2. AtPoint(t)
  BY DEF CallAtPoint
<1>3. ASSUME NEW u \in Callers \ {t} PROVE AtPoint(u)'
  <2>1. AtPoint(u)
    BY DEF CallAtPoint
  <2> QED
    BY <1>1, <2>1 DEF AtPoint, Pops, PushPoints, PopPoints
<1>4. AtPoint(t)'
  <2>1. CASE Guard(t)
    BY <1>1, <2>1, GuardMoves DEF AtPoint, Pops, GuardPoints, PushPoints, PopPoints
  <2>2. CASE Leaving(t)
    BY <1>1, <1>2, <2>2, LeavingMoves DEF AtPoint, Pops, PushPoints, PopPoints
  <2>3. CASE Producing(t)
    <3>1. my[t].pc \in PushPoints \/ my[t].pc = "help"
      BY <2>3, ProducingMoves DEF Producing, PushPoints
    <3>2. load[t].kind \in {"push", "pop", "popWait"} /\ (my[t].pc # "help" => load[t].kind = "push")
      BY <1>2, <3>1 DEF AtPoint, Pops
    <3>3. /\ my'[t].pc \in {"pushTail", "pushNext", "pushLink", "pushSwing", "help", "leave", "lost", "popTail"}
          /\ my'[t].pc = "popTail" => load[t].kind # "push"
          /\ my'[t].pc \notin {"popTail", "leave", "lost"} => load[t].kind = "push"
      BY <2>3, <3>2, ProducingMoves DEF Producing
    <3> QED
      BY <1>1, <3>2, <3>3 DEF AtPoint, Pops, PushPoints, PopPoints
  <2>4. CASE Consuming(t)
    <3>1. Pops(t)
      <4>1. my[t].pc \in PopPoints
        BY <2>4, ConsumingMoves DEF Consuming, PopPoints
      <4> QED
        BY <1>2, <4>1 DEF AtPoint
    <3>2. /\ my'[t].pc \in PopPoints \cup {"help", "leave", "lost"}
          /\ my'[t].pc \in {"popTake", "retire"} => my'[t].first # Null
      BY <1>2, <2>4, ConsumingMoves DEF Consuming, PopPoints, AtPoint, Fault
    <3> QED
      BY <1>1, <3>1, <3>2 DEF AtPoint, Pops, PushPoints, PopPoints
  <2>5. CASE Ending(t)
    <3>1. \/ my'[t].pc = "leave" /\ load[t].kind = "wait"
          \/ my'[t].pc \in {"shutTail", "shutWait", "done"} /\ load[t].kind = "shutdown" /\ shut'
      BY <1>1, <1>2, <2>5, EndingMoves DEF Ending, AtPoint
    <3> QED
      BY <1>1, <3>1 DEF AtPoint, Pops, PushPoints, PopPoints
  <2> QED
    BY <2>1, <2>2, <2>3, <2>4, <2>5 DEF Step
<1> QED
  BY <1>1, <1>3, <1>4 DEF CallAtPoint

-----------------------------------------------------------------------------
(* Tickets.                                                                *)

\* Two sets of calls that differ in at most one call.
LEMMA CountMove ==
  ASSUME NEW S, IsFiniteSet(S), NEW t \in S, NEW A \in SUBSET S, NEW B \in SUBSET S,
         \A u \in S \ {t} : u \in A <=> u \in B
  PROVE  /\ Cardinality(A) \in Nat /\ Cardinality(B) \in Nat
         /\ (t \in A <=> t \in B) => Cardinality(B) = Cardinality(A)
         /\ t \in A /\ t \notin B => Cardinality(B) = Cardinality(A) - 1
         /\ t \notin A /\ t \in B => Cardinality(B) = Cardinality(A) + 1
<1>1. IsFiniteSet(A) /\ IsFiniteSet(B)
  BY FS_Subset
<1>2. Cardinality(A) \in Nat /\ Cardinality(B) \in Nat
  BY <1>1, FS_CardinalityType
<1>3. (t \in A <=> t \in B) => A = B
  OBVIOUS
<1>4. ASSUME t \in A, t \notin B PROVE Cardinality(B) = Cardinality(A) - 1
  <2>1. B = A \ {t}
    BY <1>4
  <2> QED
    BY <1>1, <1>4, <2>1, FS_RemoveElement
<1>5. ASSUME t \notin A, t \in B PROVE Cardinality(B) = Cardinality(A) + 1
  <2>1. B = A \cup {t}
    BY <1>5
  <2> QED
    BY <1>1, <1>5, <2>1, FS_AddElement
<1> QED
  BY <1>2, <1>3, <1>4, <1>5

\* The ticket counter stays exact, and shutdown() returns only when no ticket is held.
LEMMA TicketStep ==
  ASSUME LfTypeOK, CallAtPoint, TicketsExact, NEW t \in Callers, Step(t)
  PROVE  TicketsExact'
<1> DEFINE Away == {"call", "refused", "done", "shutTail", "shutWait"}
<1>1. /\ load' = load /\ (shut => shut') /\ \A u \in Callers \ {t} : my'[u] = my[u]
      /\ Callers' = Callers /\ IsFiniteSet(Callers) /\ AtPoint(t)
      /\ inflightCount = Cardinality(Inside) /\ inflightCount \in Int
  BY OthersKept, SameLoad, CallFacts DEF CallAtPoint, TicketsExact, LfTypeOK
<1>2. /\ Inside \in SUBSET Callers /\ Inside' \in SUBSET Callers
      /\ \A u \in Callers \ {t} : u \in Inside <=> u \in Inside'
      /\ t \in Inside <=> my[t].pc \notin Away
      /\ t \in Inside' <=> my'[t].pc \notin Away
  BY <1>1 DEF Inside
<1>3. /\ Cardinality(Inside') \in Nat
      /\ (t \in Inside <=> t \in Inside') => Cardinality(Inside') = Cardinality(Inside)
      /\ t \in Inside /\ t \notin Inside' => Cardinality(Inside') = Cardinality(Inside) - 1
      /\ t \notin Inside /\ t \in Inside' => Cardinality(Inside') = Cardinality(Inside) + 1
  BY <1>1, <1>2, CountMove
<1>4. /\ inflightCount' = Cardinality(Inside')
      /\ t \in Inside' => t \in Inside \/ ~shut
  <2>1. CASE Guard(t)
    <3>1. CASE Enter(t)
      BY <1>1, <1>2, <1>3, <3>1, GoFacts DEF Enter, At
    <3>2. CASE Recheck(t)
      <4>1. my[t].pc = "recheck" /\ (my'[t].pc = "refused" <=> shut)
            /\ my'[t].pc \notin Away \ {"refused"}
        BY <2>1, <3>2, GuardMoves DEF Recheck, At, GuardPoints
      <4> QED
        BY <1>1, <1>2, <1>3, <3>2, <4>1 DEF Recheck
    <3>3. CASE ~Enter(t) /\ ~Recheck(t)
      <4>1. my[t].pc \in {"epoch", "advance", "sweep", "sweepTake", "register"} /\ inflightCount' = inflightCount
        BY <2>1, <3>3 DEF Guard, EpochLoad, Advance, Sweep, SweepTake, Register, At, shared
      <4>2. my'[t].pc \notin Away
        BY <2>1, <4>1, GuardMoves DEF GuardPoints
      <4> QED
        BY <1>1, <1>2, <1>3, <4>1, <4>2
    <3> QED
      BY <3>1, <3>2, <3>3
  <2>2. CASE Leaving(t)
    <3>1. CASE Release(t)
      BY <1>1, <1>2, <1>3, <3>1, GoFacts DEF Release, At
    <3>2. CASE ~Release(t)
      <4>1. my[t].pc \notin Away /\ my'[t].pc \notin Away /\ inflightCount' = inflightCount
        BY <2>2, <3>2, GoFacts DEF Leaving, LeaveCount, LeaveEpoch, LeaveTake, At, shared
      <4> QED
        BY <1>1, <1>2, <1>3, <4>1
    <3> QED
      BY <3>1, <3>2
  <2>3. CASE Producing(t)
    <3>1. my[t].pc \notin Away /\ my'[t].pc \notin Away
      BY <2>3, ProducingMoves DEF Producing
    <3>2. inflightCount' = inflightCount
      BY <2>3 DEF Producing, Push, PushTail, PushNext, PushLink, PushSwing, Help, shared
    <3> QED
      BY <1>1, <1>2, <1>3, <3>1, <3>2
  <2>4. CASE Consuming(t)
    <3>1. my[t].pc \notin Away /\ my'[t].pc \notin Away
      BY <2>4, ConsumingMoves DEF Consuming
    <3>2. inflightCount' = inflightCount
      BY <2>4 DEF Consuming, PopTail, PopHead, PopNext, PopSpin, PopTake, RetireNode, PopData, shared
    <3> QED
      BY <1>1, <1>2, <1>3, <3>1, <3>2
  <2>5. CASE Ending(t)
    <3>1. my[t].pc \in Away <=> my'[t].pc \in Away
      BY <2>5, EndingMoves DEF Ending
    <3>2. inflightCount' = inflightCount
      BY <2>5 DEF Ending, WaitForEmpty, Shutdown, ShutdownTail, ShutdownEnd, shared
    <3> QED
      BY <1>1, <1>2, <1>3, <3>1, <3>2
  <2> QED
    BY <2>1, <2>2, <2>3, <2>4, <2>5 DEF Step
<1>5. ASSUME NEW u \in Callers, load[u].kind = "shutdown", my'[u].pc = "done"
      PROVE  shut' /\ Inside' = {}
  <2>1. CASE \E v \in Callers : load[v].kind = "shutdown" /\ At(v, "done")
    <3>1. shut /\ Inside = {}
      BY <2>1 DEF TicketsExact
    <3> QED
      BY <1>1, <1>2, <1>4, <3>1
  <2>2. CASE ~\E v \in Callers : load[v].kind = "shutdown" /\ At(v, "done")
    <3>1. u = t /\ my[t].pc # "done"
      BY <1>1, <1>5, <2>2 DEF At
    <3>2. my[t].pc \in {"call", "shutTail", "shutWait"}
      BY <1>1, <1>5, <3>1 DEF AtPoint
    <3>3. ShutdownEnd(t)
      <4>1. ~Guard(t)
        BY <1>5, <3>1, GuardMoves
      <4>2. ~Leaving(t) /\ ~Producing(t) /\ ~Consuming(t)
        BY <3>2, LeavingMoves, ProducingMoves, ConsumingMoves DEF Producing, Consuming
      <4> QED
        BY <1>5, <3>1, <4>1, <4>2, EndingMoves DEF Step, Ending
    <3>4. Inside = {} /\ shut
      BY <1>1, <1>2, <3>3, EndingMoves, FS_Subset, FS_EmptySet DEF AtPoint
    <3> QED
      BY <1>1, <1>2, <1>4, <3>4
  <2> QED
    BY <2>1, <2>2
<1> QED
  BY <1>1, <1>4, <1>5 DEF TicketsExact, At

-----------------------------------------------------------------------------
(* The list.                                                               *)

\* The dummy node and what is linked behind it.
LEMMA ChainOf ==
  ASSUME NEW S, Dummy \in S, NEW s \in Seq(S)
  PROVE  LET c == <<Dummy>> \o s
         IN  /\ c \in Seq(S) /\ Len(c) = Len(s) + 1 /\ DOMAIN c = 1 .. Len(s) + 1 /\ Len(s) \in Nat
             /\ c[1] = Dummy /\ \A i \in 1 .. Len(s) : c[i + 1] = s[i]
             /\ Last(c) = c[Len(s) + 1]
             /\ Range(c) = {Dummy} \cup Range(s)
<1> DEFINE c == <<Dummy>> \o s
<1>1. /\ c \in Seq(S) /\ Len(c) = Len(s) + 1 /\ Len(s) \in Nat
      /\ c[1] = Dummy /\ \A i \in 1 .. Len(s) : c[i + 1] = s[i]
  OBVIOUS
<1> HIDE DEF c
<1>2. DOMAIN c = 1 .. Len(s) + 1 /\ DOMAIN s = 1 .. Len(s)
  BY <1>1
<1>3. Last(c) = c[Len(s) + 1]
  BY <1>1 DEF Last
<1>4. Range(c) = {Dummy} \cup Range(s)
  <2>1. ASSUME NEW i \in 1 .. Len(s) + 1 PROVE c[i] \in {Dummy} \cup Range(s)
    <3>1. CASE i = 1
      BY <1>1, <3>1
    <3>2. CASE i # 1
      <4>1. i - 1 \in 1 .. Len(s) /\ c[i] = s[i - 1]
        BY <1>1, <3>2
      <4> QED
        BY <1>2, <4>1 DEF Range
    <3> QED
      BY <3>1, <3>2
  <2>2. Dummy \in Range(c)
    <3>1. 1 \in DOMAIN c
      BY <1>1, <1>2
    <3> QED
      BY <1>1, <3>1 DEF Range
  <2>3. ASSUME NEW i \in 1 .. Len(s) PROVE s[i] \in Range(c)
    <3>1. i + 1 \in DOMAIN c /\ c[i + 1] = s[i]
      BY <1>1, <1>2
    <3> QED
      BY <3>1 DEF Range
  <2> QED
    BY <1>2, <2>1, <2>2, <2>3 DEF Range
<1> QED
  BY <1>1, <1>2, <1>3, <1>4 DEF c

\* The list as a sequence of nodes.
LEMMA ChainFacts ==
  ASSUME LfTypeOK
  PROVE  /\ Chain \in Seq(Nodes) /\ Len(Chain) = Len(linked) + 1 /\ DOMAIN Chain = 1 .. Len(linked) + 1
         /\ Len(linked) \in Nat /\ Len(taken) \in Nat
         /\ Chain[1] = Dummy /\ \A i \in 1 .. Len(linked) : Chain[i + 1] = linked[i]
         /\ Last(Chain) = Chain[Len(linked) + 1]
         /\ Range(Chain) = {Dummy} \cup Range(linked)
         /\ \A n \in Range(Chain) : n \in Nodes /\ n # Null /\ \E i \in 1 .. Len(linked) + 1 : n = Chain[i]
         /\ \A i \in 1 .. Len(linked) + 1 : Chain[i] \in Range(Chain) /\ Chain[i] \in Nodes
<1>1. Dummy \in Nodes /\ Null \notin Nodes /\ linked \in Seq(Nodes) /\ Len(taken) \in Nat
  BY CallFacts DEF LfTypeOK
<1>2. /\ Chain \in Seq(Nodes) /\ Len(Chain) = Len(linked) + 1 /\ DOMAIN Chain = 1 .. Len(linked) + 1
      /\ Len(linked) \in Nat
      /\ Chain[1] = Dummy /\ \A i \in 1 .. Len(linked) : Chain[i + 1] = linked[i]
      /\ Last(Chain) = Chain[Len(linked) + 1]
      /\ Range(Chain) = {Dummy} \cup Range(linked)
  BY <1>1, ChainOf, Zenon DEF Chain
<1>3. /\ \A i \in 1 .. Len(Chain) : Chain[i] \in Range(Chain)
      /\ \A x \in Range(Chain) : \E i \in 1 .. Len(Chain) : x = Chain[i]
      /\ \A x \in Range(Chain) : x \in Nodes
  BY <1>2, RangeOf, Zenon
<1> QED
  BY <1>1, <1>2, <1>3

\* A link leads to the next node of the list.
LEMMA LinkOf ==
  ASSUME LfTypeOK, ListExact, NEW i \in 1 .. Len(linked) + 1
  PROVE  /\ i \in Nat /\ Len(linked) \in Nat
         /\ i <= Len(linked) => next[Chain[i]] = Chain[i + 1] /\ next[Chain[i]] \in Range(Chain)
         /\ next[Chain[i]] = Null => i = Len(linked) + 1
         /\ next[Chain[i]] # Null => i <= Len(linked)
<1>1. Len(linked) \in Nat
  BY ChainFacts
<1>2. i <= Len(linked) => /\ next[Chain[i]] = Chain[i + 1] /\ Chain[i + 1] \in Range(Chain)
                          /\ Chain[i + 1] # Null
  <2>1. i <= Len(linked) => i \in 1 .. Len(linked) /\ i + 1 \in 1 .. Len(linked) + 1
    BY <1>1
  <2> QED
    BY <2>1, ChainFacts DEF ListExact
<1>3. i = Len(linked) + 1 => next[Chain[i]] = Null
  BY ChainFacts DEF ListExact
<1> QED
  BY <1>1, <1>2, <1>3

\* What a step changes of the list.
LEMMA ListEffects ==
  ASSUME LfTypeOK, NEW t \in Callers, Step(t)
  PROVE  /\ UNCHANGED <<head, taken>> \/ (PopTake(t) /\ my'[t].pc = "retire")
         /\ UNCHANGED <<next, linked>> \/ (PushLink(t) /\ my'[t].pc = "pushSwing")
         /\ UNCHANGED tail \/ PushSwing(t) \/ Help(t) \/ ShutdownTail(t)
         /\ UNCHANGED <<reclaim, freed>> \/ SweepTake(t) \/ LeaveTake(t) \/ RetireNode(t)
         /\ UNCHANGED outstanding \/ Push(t) \/ PushTail(t) \/ PopData(t)
<1>1. CASE Guard(t)
  BY <1>1 DEF Guard, Enter, Recheck, EpochLoad, Advance, Sweep, Register, SweepTake, shared
<1>2. CASE Leaving(t)
  BY <1>2 DEF Leaving, LeaveCount, LeaveEpoch, LeaveTake, Release, shared
<1>3. CASE Producing(t)
  <2>1. PushLink(t) => UNCHANGED <<next, linked>> \/ my'[t].pc = "pushSwing"
    BY GoFacts DEF PushLink
  <2> QED
    BY <1>3, <2>1 DEF Producing, Push, PushTail, PushNext, PushLink, PushSwing, Help, shared
<1>4. CASE Consuming(t)
  <2>1. PopTake(t) => UNCHANGED <<head, taken>> \/ my'[t].pc = "retire"
    BY GoFacts DEF PopTake
  <2> QED
    BY <1>4, <2>1 DEF Consuming, PopTail, PopHead, PopNext, PopSpin, PopTake, RetireNode, PopData, shared
<1>5. CASE Ending(t)
  BY <1>5 DEF Ending, WaitForEmpty, Shutdown, ShutdownTail, ShutdownEnd, shared
<1> QED
  BY <1>1, <1>2, <1>3, <1>4, <1>5 DEF Step

\* A call that is lost stays lost.
LEMMA SoundBack ==
  ASSUME LfTypeOK, CallAtPoint, NEW t \in Callers, Step(t), Sound'
  PROVE  Sound
<1>1. /\ \A u \in Callers : my'[u].pc # "lost"
      /\ \A u \in Callers \ {t} : my'[u] = my[u]
  BY OthersKept, SameLoad DEF Sound, NoneLost
<1>2. my[t].pc # "lost"
  BY GuardMoves, LeavingMoves, ProducingMoves, ConsumingMoves, EndingMoves
     DEF Step, Producing, Consuming, Ending, GuardPoints
<1>3. head # Null
  <2>1. CASE UNCHANGED <<head, taken>>
    BY <2>1 DEF Sound
  <2>2. CASE PopTake(t) /\ my'[t].pc = "retire"
    BY <2>2, ConsumingMoves DEF CallAtPoint, AtPoint
  <2> QED
    BY <2>1, <2>2, ListEffects
<1> QED
  BY <1>1, <1>2, <1>3 DEF Sound, NoneLost

\* Each push has a node of its own.
LEMMA OwnNode ==
  ASSUME LfTypeOK, NEW t \in Callers, load[t].kind = "push"
  PROVE  /\ load[t].n \in Nodes /\ load[t].n # Dummy /\ load[t].n # Null
         /\ \A u \in Callers : load[u].kind = "push" /\ load[u].n = load[t].n => u = t
<1>1. load[t].n \in Nodes /\ load[t].n # Null
  BY CallFacts
<1>2. /\ load \in [Callers -> [kind: {"push", "pop", "popWait", "wait", "shutdown"}, n: Nat]]
      /\ load[t].n # Dummy /\ \A u \in Callers : load[u] = load[t] => u = t
  BY LfAssumption DEF LfTypeOK, Callers
<1>3. \A u \in Callers : load[u].kind = load[t].kind /\ load[u].n = load[t].n => load[u] = load[t]
  BY <1>2
<1> QED
  BY <1>1, <1>2, <1>3

\* A node is linked behind the last one.
LEMMA LinkFacts ==
  ASSUME LfTypeOK, LfTypeOK', CallAtPoint, ListExact, LocalsHonest,
         NEW t \in Callers, PushLink(t), my'[t].pc = "pushSwing"
  PROVE  LET n == load[t].n
             k == Len(linked)
         IN  /\ n \in Nodes /\ n \notin Range(Chain) /\ n # Null
             /\ my[t].last = Chain[k + 1] /\ my[t].last \in Range(Chain) /\ next[my[t].last] = Null
             /\ next' = [next EXCEPT ![my[t].last] = n]
             /\ Len(linked') = k + 1 /\ linked' = Append(linked, n)
             /\ Chain'[k + 2] = n /\ \A i \in 1 .. k + 1 : Chain'[i] = Chain[i]
             /\ Range(Chain') = Range(Chain) \cup {n} /\ Range(linked') = Range(linked) \cup {n}
             /\ DOMAIN Chain' = 1 .. k + 2 /\ Len(Chain') = k + 2 /\ Last(Chain') = n
             /\ UNCHANGED <<load, head, tail, taken>>
<1> DEFINE n == load[t].n
           k == Len(linked)
<1>1. /\ my[t].pc = "pushLink" /\ ~Fault(my[t].last) /\ next[my[t].last] = Null
      /\ next' = [next EXCEPT ![my[t].last] = n] /\ linked' = Append(linked, n)
      /\ UNCHANGED <<load, head, tail, taken>>
  BY ProducingMoves, GoFacts DEF PushLink
<1>2. load[t].kind = "push"
  BY <1>1, PointNames DEF CallAtPoint, AtPoint
<1>3. n \in Nodes /\ n # Null /\ n # Dummy /\ n \notin Range(linked) /\ my[t].last \in Range(Chain)
  BY <1>1, <1>2, OwnNode DEF LocalsHonest, Honest, BeforeLink, LastHeld
<1>4. PICK i \in 1 .. k + 1 : my[t].last = Chain[i]
  BY <1>3, ChainFacts
<1>5. my[t].last = Chain[k + 1]
  BY <1>1, <1>4, LinkOf
<1>6. linked \in Seq(Nodes) /\ k \in Nat /\ Dummy \in Nodes /\ DOMAIN linked = 1 .. k
  BY CallFacts DEF LfTypeOK
<1>7. /\ linked' \in Seq(Nodes) /\ Len(linked') = k + 1 /\ linked'[k + 1] = n
      /\ \A j \in 1 .. k : linked'[j] = linked[j]
  BY <1>1, <1>3, <1>6
<1>8. Range(linked') = Range(linked) \cup {n}
  BY <1>1, <1>3, <1>6, AppendNew
<1>9. /\ Len(Chain') = Len(linked') + 1 /\ DOMAIN Chain' = 1 .. Len(linked') + 1
      /\ Chain'[1] = Dummy /\ \A j \in 1 .. Len(linked') : Chain'[j + 1] = linked'[j]
      /\ Last(Chain') = Chain'[Len(linked') + 1]
      /\ Range(Chain') = {Dummy} \cup Range(linked')
  BY <1>6, <1>7, ChainOf, Zenon DEF Chain
<1> HIDE DEF k, n
<1>10. Chain'[k + 2] = n /\ Len(Chain') = k + 2 /\ DOMAIN Chain' = 1 .. k + 2 /\ Last(Chain') = n
  <2>1. k + 1 \in 1 .. k + 1 /\ (k + 1) + 1 = k + 2
    BY <1>6 DEF k
  <2> QED
    BY <1>7, <1>9, <2>1 DEF k
<1>11. ASSUME NEW j \in 1 .. k + 1 PROVE Chain'[j] = Chain[j]
  <2>1. CASE j = 1
    BY <1>9, <2>1, ChainFacts
  <2>2. CASE j # 1
    <3>1. j - 1 \in 1 .. k /\ j - 1 \in 1 .. k + 1 /\ (j - 1) + 1 = j
      BY <1>6, <2>2 DEF k
    <3>2. Chain'[j] = linked'[j - 1]
      BY <1>7, <1>9, <3>1 DEF k
    <3>3. Chain[j] = linked[j - 1]
      BY <3>1, ChainFacts DEF k
    <3> QED
      BY <1>7, <3>1, <3>2, <3>3 DEF k
  <2> QED
    BY <2>1, <2>2
<1>12. n \notin Range(Chain) /\ Range(Chain') = Range(Chain) \cup {n}
  BY <1>3, <1>8, <1>9, ChainFacts
<1> QED
  BY <1>1, <1>3, <1>5, <1>7, <1>8, <1>10, <1>11, <1>12 DEF k, n

\* An item is taken: the head moves on by one node.
LEMMA TakeFacts ==
  ASSUME LfTypeOK, CallAtPoint, ListExact, LocalsHonest, Sound',
         NEW t \in Callers, PopTake(t), my'[t].pc = "retire"
  PROVE  LET k == Len(taken)
         IN  /\ k \in Nat /\ k < Len(linked) /\ Len(linked) \in Nat
             /\ head = Chain[k + 1] /\ my[t].first = head
             /\ my[t].next = Chain[k + 2] /\ head' = my[t].next
             /\ taken' = Append(taken, linked[k + 1]) /\ linked[k + 1] = Chain[k + 2]
             /\ UNCHANGED <<load, tail, next, linked>>
<1> DEFINE k == Len(taken)
<1>1. /\ my[t].pc = "popTake" /\ head = my[t].first /\ head' = my[t].next /\ taken' = Append(taken, my[t].next)
      /\ UNCHANGED <<load, tail, next, linked>>
  BY ConsumingMoves DEF PopTake
<1>2. my[t].next # Null
  BY <1>1 DEF Sound
<1>3. my[t].next = next[head]
  BY <1>1, <1>2 DEF LocalsHonest, Honest
<1>4. k \in Nat /\ Len(linked) \in Nat /\ k + 1 \in 1 .. Len(linked) + 1 /\ head = Chain[k + 1]
  BY ChainFacts DEF ListExact
<1>5. k + 1 <= Len(linked) /\ next[head] = Chain[(k + 1) + 1]
  BY <1>2, <1>3, <1>4, LinkOf
<1>6. (k + 1) + 1 = k + 2 /\ k + 1 \in 1 .. Len(linked) /\ k < Len(linked)
  BY <1>4, <1>5
<1>7. linked[k + 1] = Chain[k + 2]
  BY <1>6, ChainFacts
<1> QED
  BY <1>1, <1>3, <1>4, <1>5, <1>6, <1>7

\* Every step leaves a list: one that links, one that takes, one that moves the tail.
LEMMA ListStep ==
  ASSUME LfTypeOK, LfTypeOK', CallAtPoint, ListExact, LocalsHonest, Sound',
         NEW t \in Callers, Step(t)
  PROVE  ListExact'
<1>1. load' = load /\ Callers' = Callers /\ Nodes' = Nodes
  BY OthersKept, SameLoad
<1>2. CASE PushLink(t) /\ my'[t].pc = "pushSwing"
  <2> DEFINE n == load[t].n
             k == Len(linked)
  <2>1. /\ n \in Nodes /\ n \notin Range(Chain) /\ n # Null
        /\ my[t].last = Chain[k + 1] /\ my[t].last \in Range(Chain) /\ next[my[t].last] = Null
        /\ next' = [next EXCEPT ![my[t].last] = n]
        /\ Len(linked') = k + 1 /\ linked' = Append(linked, n)
        /\ Chain'[k + 2] = n /\ \A i \in 1 .. k + 1 : Chain'[i] = Chain[i]
        /\ Range(Chain') = Range(Chain) \cup {n}
        /\ DOMAIN Chain' = 1 .. k + 2 /\ Len(Chain') = k + 2 /\ Last(Chain') = n
        /\ UNCHANGED <<load, head, tail, taken>>
    BY <1>2, LinkFacts
  <2>2. /\ k \in Nat /\ linked \in Seq(Nodes) /\ Len(taken) \in Nat /\ DOMAIN Chain = 1 .. k + 1 /\ Len(Chain) = k + 1
        /\ \A i \in 1 .. k + 1 : Chain[i] \in Range(Chain)
        /\ next \in [Nodes -> Nodes \cup {Null}] /\ Last(Chain) = my[t].last
    BY <2>1, ChainFacts DEF LfTypeOK
  <2>3. \A i, j \in 1 .. k + 1 : Chain[i] = Chain[j] => i = j
    BY <2>2 DEF ListExact, IsInjective
  <2> HIDE DEF n, k
  <2>4. IsInjective(Chain')
    <3>1. \A i, j \in 1 .. k + 2 : Chain'[i] = Chain'[j] => i = j
      <4>1. \A i \in 1 .. k + 2 : i \in 1 .. k + 1 \/ i = k + 2
        BY <2>2
      <4>2. \A i \in 1 .. k + 1 : Chain'[i] = Chain[i] /\ Chain[i] # n
        BY <2>1, <2>2
      <4> QED
        BY <2>1, <2>3, <4>1, <4>2
    <3> QED
      BY <2>1, <3>1 DEF IsInjective
  <2>5. Len(taken) < Len(Chain') /\ head' = Chain'[Len(taken) + 1] /\ Len(taken) + 1 \in 1 .. k + 1
    BY <2>1, <2>2 DEF ListExact
  <2>6. \A i \in 1 .. Len(taken) : taken'[i] = linked'[i]
    <3>1. \A i \in 1 .. Len(taken) : i \in 1 .. k
      BY <2>2 DEF ListExact
    <3>2. \A i \in 1 .. k : linked'[i] = linked[i]
      BY <2>1, <2>2 DEF k
    <3> QED
      BY <2>1, <3>1, <3>2 DEF ListExact
  <2>7. ASSUME NEW i \in 1 .. k + 1 PROVE next'[Chain'[i]] = Chain'[i + 1]
    <3>1. CASE i = k + 1
      <4>1. i + 1 = k + 2 /\ Chain'[i] = my[t].last
        BY <2>1, <2>2, <3>1
      <4> QED
        BY <2>1, <2>2, <4>1, ChainFacts
    <3>2. CASE i # k + 1
      <4>1. i \in 1 .. k /\ i + 1 \in 1 .. k + 1 /\ k + 1 \in 1 .. k + 1
        BY <2>2, <3>2
      <4>2. Chain'[i] = Chain[i] /\ Chain'[i + 1] = Chain[i + 1] /\ Chain[i] # my[t].last
        BY <2>1, <2>3, <3>2, <4>1
      <4>3. next[Chain[i]] = Chain[i + 1] /\ Chain[i] \in Nodes
        BY <4>1, ChainFacts DEF ListExact, k
      <4> QED
        BY <2>1, <2>2, <4>2, <4>3
    <3> QED
      BY <3>1, <3>2
  <2>8. ASSUME NEW m \in Nodes, m = n \/ m \notin Range(Chain') PROVE next'[m] = Null
    <3>1. m \notin Range(Chain) /\ m # my[t].last
      BY <2>1, <2>8
    <3> QED
      BY <2>1, <2>2, <3>1 DEF ListExact
  <2>9. tail' \in Range(Chain') \cup {Null}
    BY <2>1 DEF ListExact
  <2> QED
    BY <1>1, <2>1, <2>4, <2>5, <2>6, <2>7, <2>8, <2>9 DEF ListExact
<1>3. CASE PopTake(t) /\ my'[t].pc = "retire"
  <2> DEFINE k == Len(taken)
  <2>1. /\ k \in Nat /\ k < Len(linked) /\ Len(linked) \in Nat
        /\ my[t].next = Chain[k + 2] /\ head' = my[t].next
        /\ taken' = Append(taken, linked[k + 1]) /\ linked[k + 1] = Chain[k + 2]
        /\ UNCHANGED <<load, tail, next, linked>>
    BY <1>3, TakeFacts
  <2>2. taken \in Seq(Nodes \cup {Null}) /\ Chain' = Chain /\ Len(Chain) = Len(linked) + 1
    BY <2>1, ChainFacts DEF LfTypeOK, Chain
  <2>3. Len(taken') = k + 1 /\ taken'[k + 1] = linked[k + 1] /\ \A i \in 1 .. k : taken'[i] = taken[i]
    <3>1. linked[k + 1] \in Nodes \cup {Null}
      <4>1. k + 2 \in 1 .. Len(linked) + 1
        BY <2>1
      <4> QED
        BY <2>1, <4>1, ChainFacts
    <3> QED
      BY <2>1, <2>2, <3>1
  <2> HIDE DEF k
  <2>4. \A i \in 1 .. Len(taken') : taken'[i] = linked[i]
    <3>1. \A i \in 1 .. k + 1 : i = k + 1 \/ i \in 1 .. k
      BY <2>1
    <3> QED
      BY <2>3, <3>1 DEF ListExact, k
  <2>5. Len(taken') < Len(Chain) /\ head' = Chain[Len(taken') + 1]
    BY <2>1, <2>2, <2>3
  <2> QED
    BY <1>1, <2>1, <2>2, <2>4, <2>5 DEF ListExact
<1>4. CASE UNCHANGED <<head, taken>> /\ UNCHANGED <<next, linked>>
  <2>1. tail' \in Range(Chain) \cup {Null}
    <3>1. CASE PushSwing(t)
      <4>1. tail' = tail \/ (tail' = load[t].n /\ my[t].last \in Range(Chain) /\ next[my[t].last] = load[t].n)
        BY <3>1 DEF PushSwing, At, LocalsHonest, Honest, LastHeld
      <4>2. load[t].n # Null
        BY <3>1, CallFacts, PointNames DEF PushSwing, At, CallAtPoint, AtPoint
      <4> QED
        BY <4>1, <4>2, ChainFacts, LinkOf DEF ListExact
    <3>2. CASE Help(t)
      <4>1. tail' = tail \/ (tail' = my[t].next /\ my[t].last \in Range(Chain) /\ next[my[t].last] = my[t].next
                             /\ my[t].next # Null)
        BY <3>2 DEF Help, At, LocalsHonest, Honest, LastHeld
      <4> QED
        BY <4>1, ChainFacts, LinkOf DEF ListExact
    <3>3. CASE ShutdownTail(t)
      BY <3>3 DEF ShutdownTail
    <3> QED
      BY <3>1, <3>2, <3>3, ListEffects DEF ListExact
  <2>2. Chain' = Chain
    BY <1>4 DEF Chain
  <2> QED
    BY <1>1, <1>4, <2>1, <2>2 DEF ListExact
<1> QED
  <2>1. PopTake(t) => ~PushLink(t) /\ UNCHANGED <<next, linked>>
    BY ProducingMoves, ConsumingMoves DEF PopTake
  <2>2. PushLink(t) => UNCHANGED <<head, taken>>
    BY DEF PushLink
  <2> QED
    BY <1>2, <1>3, <1>4, <2>1, <2>2, ListEffects

\* The list only grows, and a link that is there stays.
LEMMA ListGrows ==
  ASSUME LfTypeOK, LfTypeOK', CallAtPoint, ListExact, LocalsHonest, NEW t \in Callers, Step(t)
  PROVE  /\ Range(Chain) \subseteq Range(Chain')
         /\ \A m \in Nodes : next[m] # Null => next'[m] = next[m]
         /\ \A u \in Callers \ {t} :
              load[u].kind = "push" /\ load[u].n \notin Range(linked) => load[u].n \notin Range(linked')
         /\ my'[t].pc # "pushSwing" => UNCHANGED <<next, linked>>
         /\ \A m, n : Upto(m, n) => Upto(m, n)'
<1>1. CASE PushLink(t) /\ my'[t].pc = "pushSwing"
  <2>1. /\ next[my[t].last] = Null /\ next' = [next EXCEPT ![my[t].last] = load[t].n]
        /\ Range(Chain') = Range(Chain) \cup {load[t].n} /\ Range(linked') = Range(linked) \cup {load[t].n}
        /\ \A i \in 1 .. Len(linked) + 1 : Chain'[i] = Chain[i]
        /\ DOMAIN Chain' = 1 .. Len(linked) + 2 /\ DOMAIN Chain = 1 .. Len(linked) + 1 /\ Len(linked) \in Nat
    BY <1>1, LinkFacts, ChainFacts
  <2>2. \A m \in Nodes : next[m] # Null => next'[m] = next[m]
    BY <2>1 DEF LfTypeOK
  <2>3. load[t].kind = "push"
    BY <1>1, ProducingMoves, PointNames DEF CallAtPoint, AtPoint
  <2>4. \A u \in Callers \ {t} : load[u].kind = "push" => load[u].n # load[t].n
    BY <2>3, OwnNode
  <2>5. ASSUME NEW m, NEW n, Upto(m, n) PROVE Upto(m, n)'
    <3>1. PICK i, j \in DOMAIN Chain : i <= j /\ Chain[i] = m /\ Chain[j] = n
      BY <2>5 DEF Upto
    <3>2. i \in DOMAIN Chain' /\ j \in DOMAIN Chain' /\ Chain'[i] = m /\ Chain'[j] = n
      BY <2>1, <3>1
    <3> QED
      BY <3>1, <3>2 DEF Upto
  <2> QED
    BY <1>1, <2>1, <2>2, <2>4, <2>5
<1>2. CASE UNCHANGED <<next, linked>>
  <2>1. Chain' = Chain
    BY <1>2 DEF Chain
  <2> QED
    BY <1>2, <2>1 DEF Upto
<1> QED
  BY <1>1, <1>2, ListEffects

\* What a call holds of the list stays part of it, whatever the other calls do.
LEMMA LocalsStep ==
  ASSUME LfTypeOK, LfTypeOK', CallAtPoint, ListExact, LocalsHonest, Sound, Sound',
         NEW t \in Callers, Step(t)
  PROVE  LocalsHonest'
<1>1. /\ load' = load /\ Callers' = Callers /\ \A u \in Callers \ {t} : my'[u] = my[u]
      /\ my'[t].pc # "lost" /\ head # Null
      /\ Honest(t) /\ AtPoint(t)
  BY OthersKept, SameLoad DEF Sound, NoneLost, LocalsHonest, CallAtPoint
<1>2. /\ Range(Chain) \subseteq Range(Chain')
      /\ \A m \in Nodes : next[m] # Null => next'[m] = next[m]
      /\ \A u \in Callers \ {t} :
           load[u].kind = "push" /\ load[u].n \notin Range(linked) => load[u].n \notin Range(linked')
      /\ my'[t].pc # "pushSwing" => next' = next /\ linked' = linked
  BY ListGrows
<1>3. ASSUME NEW u \in Callers \ {t} PROVE Honest(u)'
  <2>1. Honest(u)
    BY DEF LocalsHonest
  <2>2. Range(Chain) \subseteq Nodes
    BY ChainFacts
  <2>3. load[u].kind = "push" /\ my[u].pc \in BeforeLink => load[u].n \notin Range(linked')
    BY <1>2, <2>1 DEF Honest
  <2>4. my[u].pc = "pushSwing" => next'[my[u].last] = load[u].n
    <3>1. my[u].pc = "pushSwing" => load[u].n # Null /\ my[u].last \in Nodes
      BY <2>1, <2>2, CallFacts, PointNames DEF CallAtPoint, AtPoint, Honest, LastHeld
    <3> QED
      BY <1>2, <2>1, <3>1 DEF Honest
  <2>5. my[u].pc = "help" => my[u].next # Null /\ next'[my[u].last] = my[u].next
    BY <1>2, <2>1, <2>2 DEF Honest, LastHeld
  <2>6. my[u].pc = "popTake" => my[u].first # my[u].last /\ my[u].next \in {Null, next'[my[u].first]}
    BY <1>2, <2>1, <2>2 DEF Honest
  <2>7. /\ my[u].pc \in LastHeld => my[u].last \in Range(Chain')
        /\ my[u].pc \in {"popNext", "popTake", "retire"} => my[u].first \in Range(Chain')
    BY <1>2, <2>1 DEF Honest
  <2> QED
    BY <1>1, <2>3, <2>4, <2>5, <2>6, <2>7 DEF Honest
<1>4. Honest(t)'
  <2>1. CASE Guard(t)
    <3>1. my[t].pc \in BeforeLink
      BY <2>1, GuardMoves DEF BeforeLink
    <3>2. my'[t].pc \in GuardPoints \cup {"refused", "push", "popTail", "waitEmpty"}
      BY <2>1, GuardMoves
    <3> QED
      BY <1>1, <1>2, <3>1, <3>2 DEF Honest, GuardPoints, LastHeld
  <2>2. CASE Leaving(t)
    BY <2>2, LeavingMoves DEF Honest, BeforeLink, GuardPoints, LastHeld
  <2>3. CASE Ending(t)
    BY <2>3, EndingMoves DEF Ending, Honest, BeforeLink, GuardPoints, LastHeld
  <2>4. CASE Producing(t)
    <3>1. CASE PushLink(t) /\ my'[t].pc = "pushSwing"
      <4>1. /\ my[t].last \in Range(Chain) /\ my[t].last \in Nodes /\ next \in [Nodes -> Nodes \cup {Null}]
            /\ next' = [next EXCEPT ![my[t].last] = load[t].n] /\ my'[t].last = my[t].last
        BY <3>1, LinkFacts, ProducingMoves, ChainFacts DEF LfTypeOK
      <4>2. next'[my'[t].last] = load[t].n /\ my'[t].last \in Range(Chain')
        BY <1>2, <4>1
      <4> QED
        BY <1>1, <3>1, <4>2 DEF Honest, BeforeLink, GuardPoints
    <3>2. CASE my'[t].pc # "pushSwing"
      <4>1. /\ load[t].kind = "push" => load[t].n \notin Range(linked) \/ my'[t].pc = "leave"
            /\ next' = next /\ linked' = linked
        BY <1>1, <1>2, <2>4, <3>2, ProducingMoves DEF Producing, Honest, BeforeLink
      <4>2. my'[t].pc \in LastHeld => my'[t].last \in Range(Chain)
        <5>1. CASE PushTail(t)
          BY <5>1, ProducingMoves DEF ListExact, LastHeld
        <5>2. CASE ~PushTail(t)
          BY <1>1, <2>4, <3>2, <5>2, ProducingMoves DEF Producing, Honest, LastHeld
        <5> QED
          BY <5>1, <5>2
      <4>3. my'[t].pc = "help" => my'[t].next # Null /\ next[my'[t].last] = my'[t].next
        BY <1>1, <2>4, ProducingMoves DEF Producing
      <4>4. my'[t].pc \in {"pushTail", "pushNext", "pushLink", "help", "leave", "popTail"}
        BY <1>1, <2>4, <3>2, ProducingMoves DEF Producing
      <4>5. Range(Chain') = Range(Chain)
        BY <4>1 DEF Chain
      <4> QED
        BY <1>1, <4>1, <4>2, <4>3, <4>4, <4>5 DEF Honest, BeforeLink, GuardPoints
    <3>3. my'[t].pc = "pushSwing" => PushLink(t)
      BY <2>4, ProducingMoves DEF Producing
    <3> QED
      BY <3>1, <3>2, <3>3
  <2>5. CASE Consuming(t)
    <3>1. Pops(t)
      BY <1>1, <2>5, ConsumingMoves DEF Consuming, AtPoint, PopPoints
    <3>2. my'[t].pc \in PopPoints \cup {"help", "leave"}
      BY <1>1, <2>5, ConsumingMoves DEF Consuming, PopPoints
    <3>3. next' = next /\ linked' = linked
      BY <1>2, <3>2 DEF PopPoints
    <3>4. Range(Chain') = Range(Chain)
      BY <3>3 DEF Chain
    <3>5. head \in Range(Chain)
      BY ChainFacts DEF ListExact
    <3>6. my'[t].pc \in LastHeld => my'[t].last \in Range(Chain)
      <4>1. CASE PopTail(t)
        BY <4>1, ConsumingMoves DEF ListExact, LastHeld
      <4>2. CASE ~PopTail(t)
        BY <1>1, <2>5, <4>2, ConsumingMoves DEF Consuming, Honest, LastHeld
      <4> QED
        BY <4>1, <4>2
    <3>7. my'[t].pc \in {"popNext", "popTake", "retire"} => my'[t].first \in Range(Chain)
      BY <1>1, <2>5, <3>5, ConsumingMoves DEF Consuming, Honest
    <3>8. /\ my'[t].pc = "help" => my'[t].next # Null /\ next[my'[t].last] = my'[t].next
          /\ my'[t].pc = "popTake" => my'[t].first # my'[t].last /\ my'[t].next = next[my'[t].first]
      BY <1>1, <2>5, ConsumingMoves DEF Consuming
    <3> QED
      BY <1>1, <3>1, <3>2, <3>3, <3>4, <3>6, <3>7, <3>8 DEF Honest, Pops, PopPoints
  <2> QED
    BY <2>1, <2>2, <2>3, <2>4, <2>5 DEF Step
<1> QED
  BY <1>1, <1>3, <1>4 DEF LocalsHonest

-----------------------------------------------------------------------------
(* The count.                                                              *)

\* How many items are queued.
LEMMA LiveLen ==
  ASSUME LfTypeOK, ListExact
  PROVE  /\ Len(Live) = Len(linked) - Len(taken) /\ Len(linked) \in Nat /\ Len(taken) \in Nat
         /\ \A i \in 1 .. Len(linked) - Len(taken) : Live[i] = linked[Len(taken) + i]
         /\ Live \in Seq(Nodes)
<1>1. /\ Len(linked) \in Nat /\ Len(taken) \in Nat /\ linked \in Seq(Nodes) /\ Len(taken) <= Len(linked)
  BY ChainFacts DEF ListExact, LfTypeOK
<1>2. Len(taken) + 1 \in 1 .. Len(linked) + 1
  BY <1>1
<1>3. /\ Live \in Seq(Nodes) /\ Len(Live) = Len(linked) - (Len(taken) + 1) + 1
      /\ \A i \in 1 .. Len(linked) - (Len(taken) + 1) + 1 : Live[i] = linked[(Len(taken) + 1) - 1 + i]
  BY <1>1, <1>2, RestOfSeq, Zenon DEF Live
<1>4. /\ Len(linked) - (Len(taken) + 1) + 1 = Len(linked) - Len(taken)
      /\ \A i \in 1 .. Len(linked) - Len(taken) : (Len(taken) + 1) - 1 + i = Len(taken) + i
  BY <1>1
<1> QED
  BY <1>1, <1>3, <1>4

\* The count follows each item from push to pop.
LEMMA CountStep ==
  ASSUME LfTypeOK, LfTypeOK', CallAtPoint, ListExact, ListExact', LocalsHonest, CountsItems, Sound, Sound',
         NEW t \in Callers, Step(t)
  PROVE  CountsItems'
<1> DEFINE Held == {"pushTail", "pushNext", "pushLink", "retire", "popData"}
           c == Cardinality(InHand)
           d == Cardinality(InHand')
<1>1. /\ load' = load /\ \A u \in Callers \ {t} : my'[u] = my[u]
      /\ Callers' = Callers /\ IsFiniteSet(Callers) /\ AtPoint(t) /\ my'[t].pc # "lost"
  BY OthersKept, SameLoad, CallFacts DEF CallAtPoint, Sound, NoneLost
<1>2. /\ InHand \in SUBSET Callers /\ InHand' \in SUBSET Callers
      /\ \A u \in Callers \ {t} : u \in InHand <=> u \in InHand'
      /\ t \in InHand <=> my[t].pc \in Held \/ (my[t].pc = "help" /\ load[t].kind = "push")
      /\ t \in InHand' <=> my'[t].pc \in Held \/ (my'[t].pc = "help" /\ load[t].kind = "push")
  BY <1>1 DEF InHand
<1>3. /\ c \in Nat /\ d \in Nat
      /\ (t \in InHand <=> t \in InHand') => d = c
      /\ t \in InHand /\ t \notin InHand' => d = c - 1
      /\ t \notin InHand /\ t \in InHand' => d = c + 1
  BY <1>1, <1>2, CountMove
<1>4. /\ Len(Live) = Len(linked) - Len(taken) /\ Len(Live') = Len(linked') - Len(taken')
      /\ Len(linked) \in Nat /\ Len(taken) \in Nat /\ Len(linked') \in Nat /\ Len(taken') \in Nat
      /\ outstanding = Len(Live) + c
  <2>1. Len(Live) = Len(linked) - Len(taken) /\ Len(linked) \in Nat /\ Len(taken) \in Nat
    BY LiveLen
  <2>2. (LfTypeOK /\ ListExact)' => (Len(Live) = Len(linked) - Len(taken) /\ Len(linked) \in Nat /\ Len(taken) \in Nat)'
    BY LiveLen, PTL
  <2> QED
    BY <2>1, <2>2 DEF CountsItems
<1> HIDE DEF c, d
<1>5. outstanding' = (Len(linked') - Len(taken')) + d
  <2>1. CASE PushLink(t) /\ my'[t].pc = "pushSwing"
    <3>1. Len(linked') = Len(linked) + 1 /\ taken' = taken /\ outstanding' = outstanding
      BY <2>1, LinkFacts DEF PushLink
    <3>2. t \in InHand /\ t \notin InHand'
      BY <1>2, <2>1, ProducingMoves
    <3> QED
      BY <1>3, <1>4, <3>1, <3>2
  <2>2. CASE PopTake(t) /\ my'[t].pc = "retire"
    <3>1. linked' = linked /\ Len(taken') = Len(taken) + 1 /\ outstanding' = outstanding
      <4>1. taken' = Append(taken, my[t].next) /\ taken \in Seq(Nodes \cup {Null})
        BY <2>2, ConsumingMoves DEF LfTypeOK
      <4>2. Len(taken') = Len(taken) + 1
        BY <4>1
      <4> QED
        BY <2>2, <4>2 DEF PopTake
    <3>2. t \notin InHand /\ t \in InHand'
      BY <1>2, <2>2, ConsumingMoves
    <3> QED
      BY <1>3, <1>4, <3>1, <3>2
  <2>3. CASE UNCHANGED <<head, taken>> /\ UNCHANGED <<next, linked>>
    <3>1. CASE Push(t)
      <4>1. t \notin InHand /\ t \in InHand' /\ outstanding' = outstanding + 1
        BY <1>2, <3>1, ProducingMoves DEF Push
      <4> QED
        BY <1>3, <1>4, <2>3, <4>1
    <3>2. CASE PushTail(t)
      <4>1. t \in InHand /\ IF tail = Null THEN t \notin InHand' /\ outstanding' = outstanding - 1
                                         ELSE t \in InHand' /\ outstanding' = outstanding
        BY <1>2, <3>2, ProducingMoves DEF PushTail
      <4> QED
        BY <1>3, <1>4, <2>3, <4>1
    <3>3. CASE PopData(t)
      <4>1. t \in InHand /\ t \notin InHand' /\ outstanding' = outstanding - 1
        BY <1>1, <1>2, <3>3, ConsumingMoves DEF PopData
      <4> QED
        BY <1>3, <1>4, <2>3, <4>1
    <3>4. CASE ~Push(t) /\ ~PushTail(t) /\ ~PopData(t)
      <4>1. outstanding' = outstanding
        BY <3>4, ListEffects
      <4>2. t \in InHand <=> t \in InHand'
        <5>1. CASE Guard(t)
          BY <1>2, <5>1, GuardMoves DEF GuardPoints
        <5>2. CASE Leaving(t)
          BY <1>2, <5>2, LeavingMoves
        <5>3. CASE Ending(t)
          BY <1>2, <5>3, EndingMoves DEF Ending
        <5>4. CASE Producing(t)
          <6>1. CASE PushNext(t) \/ PushLink(t)
            <7>1. load[t].kind = "push"
              BY <1>1, <6>1, ProducingMoves, PointNames DEF AtPoint
            <7>2. PushLink(t) => my'[t].pc = "pushTail"
              <8>1. PushLink(t) => linked' # linked \/ my'[t].pc \in {"pushTail", "lost"}
                <9>1. PushLink(t) /\ my'[t].pc = "pushSwing" => Len(linked') # Len(linked)
                  BY LinkFacts, ChainFacts
                <9> QED
                  BY <9>1, ProducingMoves
              <8> QED
                BY <1>1, <2>3, <8>1
            <7> QED
              BY <1>1, <1>2, <6>1, <7>1, <7>2, ProducingMoves
          <6>2. CASE PushSwing(t) \/ Help(t)
            BY <1>2, <6>2, ProducingMoves
          <6> QED
            BY <3>4, <5>4, <6>1, <6>2 DEF Producing
        <5>5. CASE Consuming(t)
          <6>1. load[t].kind # "push"
            BY <1>1, <5>5, ConsumingMoves DEF Consuming, AtPoint, PopPoints, Pops
          <6>2. PopTake(t) => my'[t].pc = "popTail"
            <7>1. taken \in Seq(Nodes \cup {Null}) /\ my[t].next \in Nodes \cup {Null}
              BY DEF LfTypeOK, Locals
            <7>2. Append(taken, my[t].next) # taken
              BY <7>1
            <7> QED
              BY <2>3, <7>2, ConsumingMoves
          <6> QED
            BY <1>1, <1>2, <3>4, <5>5, <6>1, <6>2, ConsumingMoves DEF Consuming
        <5> QED
          BY <5>1, <5>2, <5>3, <5>4, <5>5 DEF Step
      <4> QED
        BY <1>3, <1>4, <2>3, <4>1, <4>2
    <3> QED
      BY <3>1, <3>2, <3>3, <3>4
  <2>4. PopTake(t) => UNCHANGED <<next, linked>>
    BY DEF PopTake
  <2>5. PushLink(t) => UNCHANGED <<head, taken>>
    BY DEF PushLink
  <2> QED
    BY <2>1, <2>2, <2>3, <2>4, <2>5, ListEffects
<1> QED
  BY <1>4, <1>5 DEF CountsItems, d

-----------------------------------------------------------------------------
(* Retired nodes.                                                          *)

\* What was taken from grows by the node that the head leaves.
LEMMA PastStep ==
  ASSUME LfTypeOK, LfTypeOK', CallAtPoint, ListExact, LocalsHonest, Sound',
         NEW t \in Callers, Step(t)
  PROVE  /\ Past \subseteq Past' /\ head \notin Past
         /\ IF my'[t].pc = "retire" THEN head \in Past' /\ my'[t].first = head ELSE Past' = Past
<1> DEFINE k == Len(taken)
<1>1. k \in Nat /\ k + 1 \in 1 .. Len(linked) + 1 /\ head = Chain[k + 1] /\ Len(linked) \in Nat
  BY ChainFacts DEF ListExact
<1>2. head \notin Past
  <2>1. \A i \in 1 .. k : i \in 1 .. Len(linked) + 1 /\ i # k + 1
    BY <1>1
  <2>2. \A i \in 1 .. k : Chain[i] # Chain[k + 1]
    BY <1>1, <2>1, ChainFacts DEF ListExact, IsInjective
  <2> QED
    BY <1>1, <2>2 DEF Past
<1>3. ASSUME my'[t].pc = "retire" PROVE Past \subseteq Past' /\ head \in Past' /\ my'[t].first = head
  <2>1. PopTake(t)
    BY <1>3, GuardMoves, LeavingMoves, ProducingMoves, ConsumingMoves, EndingMoves
       DEF Step, Producing, Consuming, Ending, GuardPoints
  <2>2. /\ linked' = linked /\ taken' = Append(taken, my[t].next)
        /\ my'[t].first = head
    BY <1>3, <2>1, ConsumingMoves DEF PopTake
  <2>3. Len(taken') = k + 1 /\ Chain' = Chain
    BY <2>2 DEF LfTypeOK, Chain
  <2>4. 1 .. k \subseteq 1 .. k + 1 /\ k + 1 \in 1 .. k + 1
    BY <1>1
  <2> HIDE DEF k
  <2> QED
    BY <1>1, <2>2, <2>3, <2>4 DEF Past, k
<1>4. ASSUME my'[t].pc # "retire" PROVE Past' = Past
  <2>1. taken' = taken
    BY <1>4, ListEffects
  <2>2. \A i \in 1 .. k : Chain'[i] = Chain[i]
    <3>1. CASE PushLink(t) /\ my'[t].pc = "pushSwing"
      <4>1. \A i \in 1 .. Len(linked) + 1 : Chain'[i] = Chain[i]
        BY <3>1, LinkFacts
      <4> QED
        BY <1>1, <4>1
    <3>2. CASE UNCHANGED <<next, linked>>
      BY <3>2 DEF Chain
    <3> QED
      BY <3>1, <3>2, ListEffects
  <2> QED
    BY <2>1, <2>2 DEF Past
<1> QED
  BY <1>2, <1>3, <1>4

\* Nodes are freed from one bucket.
LEMMA FreeFacts ==
  ASSUME LfTypeOK, NEW b \in 0 .. Buckets - 1, FreeRetired(b),
         \A d, e \in DOMAIN reclaim : reclaim[d] \cap freed = {} /\ (d # e => reclaim[d] \cap reclaim[e] = {})
  PROVE  /\ Retired' = Retired
         /\ (\A d, e \in DOMAIN reclaim : reclaim[d] \cap freed = {} /\ (d # e => reclaim[d] \cap reclaim[e] = {}))'
<1>1. /\ DOMAIN reclaim = 0 .. Buckets - 1 /\ DOMAIN reclaim' = DOMAIN reclaim
      /\ freed' = freed \cup reclaim[b] /\ reclaim'[b] = {}
      /\ \A d \in DOMAIN reclaim \ {b} : reclaim'[d] = reclaim[d]
  BY DEF LfTypeOK, FreeRetired
<1>2. Retired' = Retired
  BY <1>1 DEF Retired
<1>3. \A d, e \in DOMAIN reclaim : reclaim'[d] \cap freed' = {} /\ (d # e => reclaim'[d] \cap reclaim'[e] = {})
  <2> TAKE d, e \in DOMAIN reclaim
  <2>1. reclaim'[d] \cap freed' = {}
    <3>1. CASE d = b
      BY <1>1, <3>1
    <3>2. CASE d # b
      BY <1>1, <3>2
    <3> QED
      BY <3>1, <3>2
  <2>2. d # e => reclaim'[d] \cap reclaim'[e] = {}
    BY <1>1
  <2> QED
    BY <2>1, <2>2
<1> QED
  BY <1>1, <1>2, <1>3

\* A node is retired once, by the call that took it, and freed once.
LEMMA RetiredStep ==
  ASSUME LfTypeOK, LfTypeOK', CallAtPoint, ListExact, LocalsHonest, RetiredExact, Sound',
         NEW t \in Callers, Step(t)
  PROVE  RetiredExact'
<1> DEFINE Apart == \A b, c \in DOMAIN reclaim : reclaim[b] \cap freed = {} /\ (b # c => reclaim[b] \cap reclaim[c] = {})
<1>1. /\ load' = load /\ Callers' = Callers /\ \A u \in Callers \ {t} : my'[u] = my[u]
      /\ Retired \subseteq Past /\ Apart
      /\ \A u \in Callers : At(u, "retire") =>
           /\ my[u].first \in Past \ Retired
           /\ \A v \in Callers : At(v, "retire") /\ my[v].first = my[u].first => v = u
  BY OthersKept, SameLoad DEF RetiredExact
<1>2. /\ Past \subseteq Past' /\ head \notin Past
      /\ IF my'[t].pc = "retire" THEN head \in Past' /\ my'[t].first = head ELSE Past' = Past
  BY PastStep
<1>3. CASE my'[t].pc = "retire"
  <2>1. PopTake(t)
    BY <1>3, GuardMoves, LeavingMoves, ProducingMoves, ConsumingMoves, EndingMoves
       DEF Step, Producing, Consuming, Ending, GuardPoints
  <2>2. reclaim' = reclaim /\ freed' = freed
    BY <2>1 DEF PopTake
  <2>3. Retired' = Retired /\ Apart'
    BY <1>1, <2>2 DEF Retired
  <2>4. ASSUME NEW u \in Callers, my'[u].pc = "retire"
        PROVE  /\ my'[u].first \in Past' \ Retired
               /\ \A v \in Callers : my'[v].pc = "retire" /\ my'[v].first = my'[u].first => v = u
    <3>1. \A v \in Callers \ {t} : my'[v].pc = "retire" => my'[v].first \in Past \ Retired /\ my'[v].first # head
      BY <1>1, <1>2 DEF At
    <3>2. CASE u = t
      BY <1>1, <1>2, <1>3, <3>1, <3>2
    <3>3. CASE u # t
      BY <1>1, <1>2, <1>3, <2>4, <3>1, <3>3 DEF At
    <3> QED
      BY <3>2, <3>3
  <2> QED
    BY <1>1, <1>2, <2>3, <2>4 DEF RetiredExact, At
<1>4. CASE my'[t].pc # "retire"
  <2>1. Past' = Past
    BY <1>2, <1>4
  <2>2. ASSUME NEW u \in Callers, my'[u].pc = "retire"
        PROVE  /\ u # t /\ my'[u] = my[u] /\ my'[u].first \in Past \ Retired
               /\ \A v \in Callers : my'[v].pc = "retire" /\ my'[v].first = my'[u].first => v = u
    BY <1>1, <1>4, <2>2 DEF At
  <2>3. CASE RetireNode(t)
    <3> DEFINE f == my[t].first
    <3>1. /\ my[t].pc = "retire" /\ freed' = freed /\ my[t].bucket \in 0 .. Buckets - 1
          /\ reclaim' = [reclaim EXCEPT ![my[t].bucket] = @ \cup {f}]
          /\ DOMAIN reclaim = 0 .. Buckets - 1
      BY <2>3, ConsumingMoves DEF RetireNode, LfTypeOK, Locals
    <3>2. f \in Past \ Retired
      BY <1>1, <3>1 DEF At
    <3>3. \A u \in Callers : my'[u].pc = "retire" => my'[u].first # f
      BY <1>1, <2>2, <3>1 DEF At
    <3> HIDE DEF f
    <3>4. Retired' = Retired \cup {f}
      BY <3>1 DEF Retired
    <3>5. DOMAIN reclaim' = DOMAIN reclaim /\ f \notin freed /\ \A b \in DOMAIN reclaim : f \notin reclaim[b]
      BY <3>1, <3>2 DEF Retired
    <3>6. \A b \in DOMAIN reclaim : reclaim'[b] = reclaim[b] \/ (b = my[t].bucket /\ reclaim'[b] = reclaim[b] \cup {f})
      BY <3>1
    <3>7. \A b, c \in DOMAIN reclaim : reclaim'[b] \cap freed' = {} /\ (b # c => reclaim'[b] \cap reclaim'[c] = {})
      BY <1>1, <3>1, <3>5, <3>6
    <3> QED
      BY <1>1, <2>1, <2>2, <3>2, <3>3, <3>4, <3>5, <3>7 DEF RetiredExact, At
  <2>4. CASE Retired' = Retired /\ Apart'
    BY <1>1, <2>1, <2>2, <2>4 DEF RetiredExact, At
  <2>5. CASE SweepTake(t)
    <3>1. my[t].idx \in 0 .. Buckets - 1
      <4>1. my[t].pc = "sweepTake" /\ my[t].idx \in 0 .. Buckets
        BY <2>5 DEF SweepTake, At, LfTypeOK, Locals
      <4>2. my[t].idx # Buckets
        BY <4>1 DEF CallAtPoint, AtPoint
      <4> QED
        BY <4>1, <4>2, LfAssumption
    <3>2. FreeRetired(my[t].idx)
      BY <2>5 DEF SweepTake
    <3>3. Retired' = Retired /\ Apart'
      BY <1>1, <3>1, <3>2, FreeFacts
    <3> QED
      BY <2>4, <3>3
  <2>6. CASE LeaveTake(t)
    <3>1. my[t].bucket \in 0 .. Buckets - 1
      BY DEF LfTypeOK, Locals
    <3>2. FreeRetired(my[t].bucket)
      BY <2>6 DEF LeaveTake
    <3>3. Retired' = Retired /\ Apart'
      BY <1>1, <3>1, <3>2, FreeFacts
    <3> QED
      BY <2>4, <3>3
  <2>7. CASE UNCHANGED <<reclaim, freed>>
    <3>1. Retired' = Retired /\ Apart'
      BY <1>1, <2>7 DEF Retired
    <3> QED
      BY <2>4, <3>1
  <2> QED
    BY <2>3, <2>5, <2>6, <2>7, ListEffects
<1> QED
  BY <1>3, <1>4

-----------------------------------------------------------------------------
(* The tail.                                                               *)

\* The order of the nodes in the list.
LEMMA UptoFacts ==
  ASSUME LfTypeOK, ListExact
  PROVE  /\ \A m \in Range(Chain) : Upto(m, m)
         /\ \A m, n, p : Upto(m, n) /\ Upto(n, p) => Upto(m, p)
         /\ \A m \in Range(Chain) : next[m] # Null => Upto(m, next[m])
         /\ \A m, n : Upto(m, n) /\ m # n /\ next[m] # Null => Upto(next[m], n)
<1>1. /\ DOMAIN Chain = 1 .. Len(linked) + 1 /\ Len(linked) \in Nat
      /\ \A i, j \in DOMAIN Chain : Chain[i] = Chain[j] => i = j
      /\ \A m \in Range(Chain) : \E i \in DOMAIN Chain : m = Chain[i]
  BY ChainFacts DEF ListExact, IsInjective
<1>2. \A m \in Range(Chain) : Upto(m, m)
  <2>1. \A i \in DOMAIN Chain : i <= i
    BY <1>1
  <2> QED
    BY <1>1, <2>1 DEF Upto
<1>3. ASSUME NEW m, NEW n, NEW p, Upto(m, n), Upto(n, p) PROVE Upto(m, p)
  <2>1. PICK i, j \in DOMAIN Chain : i <= j /\ Chain[i] = m /\ Chain[j] = n
    BY <1>3 DEF Upto
  <2>2. PICK k, l \in DOMAIN Chain : k <= l /\ Chain[k] = n /\ Chain[l] = p
    BY <1>3 DEF Upto
  <2>3. j = k
    BY <1>1, <2>1, <2>2
  <2>4. i <= l
    BY <1>1, <2>1, <2>2, <2>3
  <2> QED
    BY <2>1, <2>2, <2>4 DEF Upto
<1>4. ASSUME NEW i \in DOMAIN Chain, next[Chain[i]] # Null
      PROVE  i + 1 \in DOMAIN Chain /\ next[Chain[i]] = Chain[i + 1] /\ i <= i + 1
  BY <1>1, <1>4, LinkOf
<1>5. \A m \in Range(Chain) : next[m] # Null => Upto(m, next[m])
  BY <1>1, <1>4 DEF Upto
<1>6. ASSUME NEW m, NEW n, Upto(m, n), m # n, next[m] # Null PROVE Upto(next[m], n)
  <2>1. PICK i, j \in DOMAIN Chain : i <= j /\ Chain[i] = m /\ Chain[j] = n
    BY <1>6 DEF Upto
  <2>2. i # j
    BY <1>6, <2>1
  <2>3. i + 1 \in DOMAIN Chain /\ next[m] = Chain[i + 1]
    BY <1>4, <1>6, <2>1
  <2>4. i + 1 <= j
    BY <1>1, <2>1, <2>2
  <2> QED
    BY <2>1, <2>3, <2>4 DEF Upto
<1> QED
  BY <1>2, <1>3, <1>5, <1>6

\* The tail, once gone, stays so, and else only moves on.
LEMMA TailMoves ==
  ASSUME LfTypeOK, CallAtPoint, ListExact, LocalsHonest, NEW t \in Callers, Step(t), tail' # Null
  PROVE  tail # Null /\ Upto(tail, tail')
<1>1. Honest(t) /\ AtPoint(t) /\ (tail # Null => tail \in Range(Chain))
  BY DEF LocalsHonest, CallAtPoint, ListExact
<1>2. CASE tail' = tail
  BY <1>1, <1>2, UptoFacts
<1>3. CASE PushSwing(t) /\ tail' # tail
  <2>1. my[t].pc = "pushSwing" /\ tail = my[t].last /\ tail' = load[t].n
    BY <1>3 DEF PushSwing, At
  <2>2. my[t].last \in Range(Chain) /\ next[my[t].last] = load[t].n
    BY <1>1, <2>1 DEF Honest, LastHeld
  <2> QED
    BY <2>1, <2>2, UptoFacts, ChainFacts
<1>4. CASE Help(t) /\ tail' # tail
  <2>1. my[t].pc = "help" /\ tail = my[t].last /\ tail' = my[t].next
    BY <1>4 DEF Help, At
  <2>2. my[t].last \in Range(Chain) /\ next[my[t].last] = my[t].next
    BY <1>1, <2>1 DEF Honest, LastHeld
  <2> QED
    BY <2>1, <2>2, UptoFacts, ChainFacts
<1> QED
  BY <1>2, <1>3, <1>4, ListEffects DEF ShutdownTail

\* A call holds the tail that it has read.
LEMMA LastMoves ==
  ASSUME LfTypeOK, CallAtPoint, NEW t \in Callers, Step(t), my'[t].pc \in LastHeld
  PROVE  \/ my[t].pc \in LastHeld /\ my'[t].last = my[t].last
         \/ my'[t].last = tail /\ tail' = tail /\ tail # Null
<1>1. ~Guard(t) /\ ~Leaving(t) /\ ~Ending(t)
  BY GuardMoves, LeavingMoves, EndingMoves DEF Ending, LastHeld, GuardPoints
<1>2. CASE PushTail(t)
  <2>1. IF tail = Null THEN my'[t].pc = "leave" ELSE my'[t].last = tail
    BY <1>2, ProducingMoves
  <2> QED
    BY <1>2, <2>1 DEF PushTail, LastHeld
<1>3. CASE PopTail(t)
  <2>1. IF tail = Null THEN my'[t].pc = "leave" ELSE my'[t].last = tail
    BY <1>3, ConsumingMoves
  <2> QED
    BY <1>3, <2>1 DEF PopTail, LastHeld, shared
<1>4. CASE Producing(t) /\ ~PushTail(t)
  BY <1>4, ProducingMoves DEF Producing, LastHeld
<1>5. CASE Consuming(t) /\ ~PopTail(t)
  BY <1>5, ConsumingMoves DEF Consuming, LastHeld
<1> QED
  BY <1>1, <1>2, <1>3, <1>4, <1>5 DEF Step

\* The tail passes no call that holds it, and no head of a sole consumer.
LEMMA TailStep ==
  ASSUME LfTypeOK, LfTypeOK', CallAtPoint, ListExact, ListExact', LocalsHonest, TailAhead, Sound',
         NEW t \in Callers, Step(t)
  PROVE  TailAhead'
<1>1. /\ load' = load /\ Callers' = Callers /\ \A u \in Callers \ {t} : my'[u] = my[u]
      /\ \A u \in Callers : Pops(u)' = Pops(u)
  BY OthersKept, SameLoad DEF Pops
<1>2. /\ tail # Null => \A u \in Callers : my[u].pc \in LastHeld => Upto(my[u].last, tail)
      /\ (\A u, v \in Callers : Pops(u) /\ Pops(v) => u = v) =>
           /\ tail # Null => Upto(head, tail)
           /\ \A u \in Callers : Pops(u) /\ my[u].pc \in LastHeld => Upto(head, my[u].last)
  BY DEF TailAhead
<1>3. /\ \A m, n : Upto(m, n) => Upto(m, n)'
      /\ tail' # Null => tail # Null /\ Upto(tail, tail')
  BY ListGrows, TailMoves
<1>4. \A m, n, p : Upto(m, n) /\ Upto(n, p) => Upto(m, p)
  BY UptoFacts
<1>5. ASSUME NEW u \in Callers, my'[u].pc \in LastHeld
      PROVE  \/ my[u].pc \in LastHeld /\ my'[u].last = my[u].last
             \/ my'[u].last = tail /\ tail' = tail /\ tail # Null
  <2>1. CASE u = t
    BY <1>5, <2>1, LastMoves
  <2>2. CASE u # t
    BY <1>1, <1>5, <2>2
  <2> QED
    BY <2>1, <2>2
<1>6. ASSUME tail' # Null, NEW u \in Callers, my'[u].pc \in LastHeld
      PROVE  Upto(my'[u].last, tail')
  BY <1>2, <1>3, <1>4, <1>5, <1>6
<1>7. ASSUME \A u, v \in Callers : Pops(u) /\ Pops(v) => u = v
      PROVE  /\ tail' # Null => Upto(head', tail')
             /\ \A u \in Callers : Pops(u) /\ my'[u].pc \in LastHeld => Upto(head', my'[u].last)
  <2>1. CASE head' = head
    BY <1>2, <1>3, <1>4, <1>5, <1>7, <2>1
  <2>2. CASE PopTake(t) /\ my'[t].pc = "retire"
    <3>1. /\ my[t].pc = "popTake" /\ my[t].first = head /\ head' = my[t].next /\ tail' = tail
      BY <2>2, ConsumingMoves DEF PopTake
    <3>2. /\ head # my[t].last /\ my[t].next = next[head] /\ next[head] # Null /\ Pops(t)
      BY <3>1, PointNames DEF LocalsHonest, Honest, CallAtPoint, AtPoint, Sound
    <3>3. Upto(head, my[t].last) /\ (tail # Null => Upto(my[t].last, tail))
      BY <1>2, <1>7, <3>1, <3>2 DEF LastHeld
    <3>4. Upto(head', my[t].last)
      BY <3>1, <3>2, <3>3, UptoFacts
    <3>5. \A u \in Callers : Pops(u) => my'[u].pc \notin LastHeld
      BY <1>7, <2>2, <3>2 DEF LastHeld
    <3> QED
      BY <1>4, <3>1, <3>3, <3>4, <3>5
  <2> QED
    BY <2>1, <2>2, ListEffects
<1> DEFINE After(m, n) == \E i, j \in DOMAIN Chain' : i <= j /\ Chain'[i] = m /\ Chain'[j] = n
<1>8. \A m, n : Upto(m, n) => After(m, n)
  BY <1>3 DEF Upto
<1> HIDE DEF After
<1>9. tail' # Null => \A u \in Callers : my'[u].pc \in LastHeld => After(my'[u].last, tail')
  BY <1>6, <1>8
<1>10. (\A u, v \in Callers : Pops(u) /\ Pops(v) => u = v) =>
         /\ tail' # Null => After(head', tail')
         /\ \A u \in Callers : Pops(u) /\ my'[u].pc \in LastHeld => After(head', my'[u].last)
  BY <1>7, <1>8
<1> QED
  <2>1. (tail # Null => \A u \in Callers : my[u].pc \in LastHeld => Upto(my[u].last, tail))'
    BY <1>1, <1>9 DEF Upto, After, LastHeld
  <2>2. ((\A u, v \in Callers : Pops(u) /\ Pops(v) => u = v) =>
           /\ tail # Null => Upto(head, tail)
           /\ \A u \in Callers : Pops(u) /\ my[u].pc \in LastHeld => Upto(head, my[u].last))'
    BY <1>1, <1>10 DEF Upto, After, LastHeld
  <2> QED
    BY <2>1, <2>2 DEF TailAhead

-----------------------------------------------------------------------------
(* The invariant.                                                          *)

\* The constructor establishes the invariant.
LEMMA InitInv ==
  ASSUME LfInit
  PROVE  LfInv
<1>1. /\ load \in Workloads /\ IsFiniteSet(Callers) /\ Dummy \in Nodes /\ Nodes \subseteq Nat /\ Null \notin Nodes
      /\ \A t \in Callers : load[t].kind = "push" => load[t].n \notin {Dummy}
  <2>1. load \in Workloads
    BY DEF LfInit
  <2>2. /\ IsFiniteSet(DOMAIN load)
        /\ load \in [DOMAIN load -> [kind: {"push", "pop", "popWait", "wait", "shutdown"}, n: Nat]]
        /\ \A t \in DOMAIN load : load[t].kind = "push" => load[t].n # Dummy
    BY <2>1, LfAssumption
  <2> QED
    BY <2>1, <2>2 DEF Callers, Nodes, Dummy, Null
<1>2. Buckets \in Nat \ {0}
  BY LfAssumption
<1>3. NewCall \in Locals /\ NewCall.pc = "call"
  <2>1. "call" \in CallPoints /\ Null \in Nodes \cup {Null} /\ <<>> \in Seq(Nodes \cup {Null})
        /\ 0 \in 0 .. Buckets - 1 /\ 0 \in 0 .. Buckets
    BY <1>2 DEF CallPoints, GuardPoints
  <2> QED
    BY <2>1 DEF NewCall, Locals
<1>4. /\ head = Dummy /\ tail = Dummy /\ next = [n \in Nodes |-> Null]
      /\ outstanding = 0 /\ shut = FALSE /\ inflightCount = 0
      /\ total = 0 /\ epoch = [total |-> 0, id |-> 0]
      /\ count = [b \in 0..(Buckets - 1) |-> 0] /\ reclaim = [b \in 0..(Buckets - 1) |-> {}]
      /\ freed = {} /\ my = [t \in Callers |-> NewCall]
      /\ linked = <<>> /\ taken = <<>>
  BY DEF LfInit
<1>5. LfTypeOK
  <2>1. my \in [Callers -> Locals]
    BY <1>3, <1>4
  <2>2. /\ next \in [Nodes -> Nodes \cup {Null}] /\ count \in [0 .. Buckets - 1 -> Int]
        /\ reclaim \in [0 .. Buckets - 1 -> SUBSET Nodes]
        /\ linked \in Seq(Nodes) /\ taken \in Seq(Nodes \cup {Null}) /\ epoch \in [total: Nat, id: Nat]
    BY <1>4
  <2>3. /\ head \in Nodes \cup {Null} /\ tail \in Nodes \cup {Null} /\ freed \subseteq Nodes
        /\ outstanding \in Int /\ inflightCount \in Int /\ total \in Nat
    BY <1>1, <1>4
  <2>4. shut \in BOOLEAN
    BY <1>4
  <2> QED
    BY <1>1, <2>1, <2>2, <2>3, <2>4, Zenon DEF LfTypeOK
<1>6. \A t \in Callers : my[t].pc = "call"
  BY <1>3, <1>4
<1>7. CallAtPoint
  BY <1>6 DEF CallAtPoint, AtPoint, PushPoints, PopPoints
<1>8. TicketsExact
  <2>1. Inside = {}
    BY <1>6 DEF Inside
  <2> QED
    BY <1>4, <1>6, <2>1, FS_EmptySet DEF TicketsExact, At
<1>9. Chain = <<Dummy>> /\ Range(linked) = {}
  BY <1>4 DEF Chain, Range
<1>10. ListExact
  <2>1. IsInjective(Chain) /\ Len(Chain) = 1 /\ Chain[1] = Dummy /\ Range(Chain) = {Dummy}
    BY <1>9, OneItem
  <2> QED
    BY <1>4, <2>1 DEF ListExact
<1>11. LocalsHonest
  BY <1>6, <1>9 DEF LocalsHonest, Honest, LastHeld
<1>12. CountsItems
  <2>1. InHand = {}
    BY <1>6 DEF InHand
  <2>2. Len(Live) = 0
    BY <1>5, <1>4, <1>10, LiveLen
  <2> QED
    BY <1>4, <2>1, <2>2, FS_EmptySet DEF CountsItems
<1>13. RetiredExact
  <2>1. Retired = {}
    BY <1>4 DEF Retired
  <2>2. \A b \in DOMAIN reclaim : reclaim[b] = {}
    BY <1>4
  <2> QED
    BY <1>6, <2>1, <2>2 DEF RetiredExact, At
<1>14. TailAhead
  <2>1. Upto(head, tail)
    BY <1>4, <1>5, <1>10, UptoFacts, ChainFacts
  <2> QED
    BY <1>6, <2>1 DEF TailAhead, LastHeld
<1> QED
  BY <1>5, <1>7, <1>8, <1>10, <1>11, <1>12, <1>13, <1>14 DEF LfInv

\* Every step keeps the invariant.
LEMMA NextInv ==
  ASSUME LfInv, [LfNext]_lfVars
  PROVE  LfInv'
<1>1. CASE LfNext
  <2>1. PICK t \in Callers : Step(t)
    BY <1>1 DEF LfNext, Step
  <2>2. LfTypeOK /\ CallAtPoint /\ TicketsExact
    BY DEF LfInv
  <2>3. LfTypeOK' /\ CallAtPoint' /\ TicketsExact'
    BY <1>1, <2>1, <2>2, TypeStep, PointStep, TicketStep
  <2>4. ASSUME Sound'
        PROVE  (ListExact /\ LocalsHonest /\ CountsItems /\ RetiredExact /\ TailAhead)'
    <3>1. Sound
      BY <2>1, <2>2, <2>4, SoundBack
    <3>2. ListExact /\ LocalsHonest /\ CountsItems /\ RetiredExact /\ TailAhead
      BY <3>1 DEF LfInv
    <3>3. ListExact'
      BY <2>1, <2>2, <2>3, <2>4, <3>2, ListStep
    <3>4. LocalsHonest'
      BY <2>1, <2>2, <2>3, <2>4, <3>1, <3>2, LocalsStep
    <3>5. CountsItems'
      BY <2>1, <2>2, <2>3, <2>4, <3>1, <3>2, <3>3, CountStep
    <3>6. RetiredExact'
      BY <2>1, <2>2, <2>3, <2>4, <3>2, RetiredStep
    <3>7. TailAhead'
      BY <2>1, <2>2, <2>3, <2>4, <3>2, <3>3, TailStep
    <3> QED
      BY <3>3, <3>4, <3>5, <3>6, <3>7
  <2> QED
    BY <2>3, <2>4 DEF LfInv
<1>2. CASE UNCHANGED lfVars
  <2>1. /\ load' = load /\ head' = head /\ tail' = tail /\ next' = next /\ outstanding' = outstanding /\ shut' = shut
        /\ inflightCount' = inflightCount /\ total' = total /\ epoch' = epoch /\ count' = count
        /\ reclaim' = reclaim /\ freed' = freed /\ linked' = linked /\ taken' = taken /\ my' = my
    BY <1>2 DEF lfVars, shared
  <2>2. Nodes' = Nodes /\ Callers' = Callers /\ Locals' = Locals
    BY <2>1, SameLoad
  <2>3. Chain' = Chain /\ Live' = Live /\ Retired' = Retired /\ Sound' = Sound
    BY <2>1, <2>2 DEF Chain, Live, Retired, Sound, NoneLost
  <2>4. LfTypeOK'
    BY <2>1, <2>2 DEF LfInv, LfTypeOK
  <2>5. CallAtPoint'
    BY <2>1, <2>2 DEF LfInv, CallAtPoint, AtPoint, Pops
  <2>6. TicketsExact'
    BY <2>1, <2>2 DEF LfInv, TicketsExact, Inside, At
  <2>7. Sound => ListExact' /\ LocalsHonest'
    BY <2>1, <2>2, <2>3 DEF LfInv, ListExact, LocalsHonest, Honest
  <2>8. Sound => CountsItems'
    BY <2>1, <2>2, <2>3 DEF LfInv, CountsItems, InHand
  <2>9. Sound => RetiredExact'
    BY <2>1, <2>2, <2>3 DEF LfInv, RetiredExact, Past, At
  <2>10. Sound => TailAhead'
    BY <2>1, <2>2, <2>3 DEF LfInv, TailAhead, Upto, Pops
  <2> QED
    BY <2>3, <2>4, <2>5, <2>6, <2>7, <2>8, <2>9, <2>10 DEF LfInv
<1> QED
  BY <1>1, <1>2

\* dmn-blockingqueue-lf.hpp: whatever the threads do, with as many tickets,
\* epochs and retired nodes as there may be, the invariant of the list holds.
THEOREM LfCorrect == LfSpec => []LfInv
<1>1. LfInit => LfInv
  BY InitInv
<1>2. LfInv /\ [LfNext]_lfVars => LfInv'
  BY NextInv
<1> QED
  BY <1>1, <1>2, PTL DEF LfSpec

\* As long as no pointer has gone wrong, items leave in the order in which
\* they were linked, none twice and none skipped, and waitForEmpty() counts
\* exactly the items that are queued or in the hands of a call.
THEOREM LfFifoAlwaysExact == LfSpec => []FifoExact
<1>1. LfInv => FifoExact
  <2> SUFFICES ASSUME LfInv, Sound PROVE FifoExact
    BY DEF FifoExact
  <2>1. LfTypeOK /\ ListExact /\ CountsItems
    BY DEF LfInv
  <2>2. /\ linked \in Seq(Nodes) /\ taken \in Seq(Nodes \cup {Null})
        /\ Len(linked) \in Nat /\ Len(taken) \in 0 .. Len(linked)
        /\ \A i \in 1 .. Len(taken) : taken[i] = linked[i]
    BY <2>1, ChainFacts DEF LfTypeOK, ListExact
  <2> DEFINE front == SubSeq(linked, 1, Len(taken))
  <2>3. /\ front \in Seq(Nodes) /\ Len(front) = Len(taken)
        /\ \A i \in 1 .. Len(taken) : front[i] = linked[i]
    BY <2>2, SplitSeq
  <2> HIDE DEF front
  <2>4. taken = front
    <3>1. front \in Seq(Nodes \cup {Null})
      BY <2>3
    <3> QED
      BY <2>2, <2>3, <3>1, SeqEqual
  <2>5. head = IF taken = <<>> THEN Dummy ELSE Last(taken)
    <3>1. head = Chain[Len(taken) + 1]
      BY <2>1 DEF ListExact
    <3>2. CASE taken = <<>>
      BY <2>1, <3>1, <3>2, ChainFacts
    <3>3. CASE taken # <<>>
      <4>1. Len(taken) \in 1 .. Len(linked) /\ Len(taken) \in 1 .. Len(taken)
        BY <2>2, <3>3
      <4>2. Chain[Len(taken) + 1] = linked[Len(taken)]
        BY <2>1, <4>1, ChainFacts
      <4> QED
        BY <2>2, <3>1, <3>3, <4>1, <4>2 DEF Last
    <3> QED
      BY <3>2, <3>3
  <2> QED
    BY <2>1, <2>4, <2>5 DEF FifoExact, front
<1> QED
  BY <1>1, LfCorrect, PTL

\* As long as no pointer has gone wrong, a node that was retired is no longer
\* in the list and is freed once; the tail may still point to it unless only one
\* consumer pops. And a shutdown() that has returned has waited for every call.
THEOREM LfNodesAlwaysOwned == LfSpec => []NodesOwned
<1>1. LfInv => NodesOwned
  <2> SUFFICES ASSUME LfInv PROVE NodesOwned
    OBVIOUS
  <2>1. LfTypeOK /\ CallAtPoint /\ TicketsExact
    BY DEF LfInv
  <2>2. ASSUME Sound
        PROVE  /\ Retired \cap ({head} \cup ToSet(Live)) = {}
               /\ (\A t, u \in Callers : Pops(t) /\ Pops(u) => t = u) => tail \notin Retired
               /\ \A b \in DOMAIN reclaim :
                    reclaim[b] \cap freed = {} /\ \A c \in DOMAIN reclaim \ {b} : reclaim[b] \cap reclaim[c] = {}
    <3>1. ListExact /\ RetiredExact /\ TailAhead
      BY <2>2 DEF LfInv
    <3> DEFINE k == Len(taken)
    <3>2. /\ k \in Nat /\ k + 1 \in 1 .. Len(linked) + 1 /\ Len(linked) \in Nat /\ head = Chain[k + 1]
          /\ DOMAIN Chain = 1 .. Len(linked) + 1
          /\ \A i, j \in 1 .. Len(linked) + 1 : Chain[i] = Chain[j] => i = j
      <4>1. IsInjective(Chain) /\ k < Len(Chain) /\ head = Chain[k + 1]
        BY <3>1 DEF ListExact
      <4>2. /\ k \in Nat /\ Len(linked) \in Nat /\ Len(Chain) = Len(linked) + 1
            /\ DOMAIN Chain = 1 .. Len(linked) + 1
        BY <2>1, ChainFacts
      <4>3. \A i, j \in 1 .. Len(linked) + 1 : Chain[i] = Chain[j] => i = j
        BY <4>1, <4>2 DEF IsInjective
      <4> QED
        BY <4>1, <4>2, <4>3
    <3>3. \A n \in Retired : \E i \in 1 .. k : n = Chain[i] /\ i \in 1 .. Len(linked) + 1
      BY <3>1, <3>2 DEF RetiredExact, Past
    <3>4. \A j \in 1 .. Len(linked) + 1 : j > k => Chain[j] \notin Retired
      <4>1. \A i \in 1 .. k, j \in 1 .. Len(linked) + 1 : j > k => i # j
        BY <3>2
      <4> QED
        BY <3>2, <3>3, <4>1
    <3>5. ToSet(Live) \cap Retired = {}
      <4>1. /\ Live \in Seq(Nodes) /\ Len(Live) = Len(linked) - k
            /\ \A i \in 1 .. Len(linked) - k : Live[i] = linked[k + i]
        BY <2>1, <3>1, LiveLen
      <4>2. ASSUME NEW i \in 1 .. Len(linked) - k PROVE Live[i] \notin Retired
        <5>1. k + i \in 1 .. Len(linked) /\ (k + i) + 1 \in 1 .. Len(linked) + 1 /\ (k + i) + 1 > k
          BY <3>2
        <5>2. Live[i] = Chain[(k + i) + 1]
          BY <2>1, <4>1, <5>1, ChainFacts
        <5> QED
          BY <3>4, <5>1, <5>2
      <4>3. DOMAIN Live = 1 .. Len(linked) - k
        BY <4>1
      <4> QED
        BY <4>2, <4>3 DEF ToSet
    <3>6. head \notin Retired
      BY <3>2, <3>4
    <3>7. ASSUME \A t, u \in Callers : Pops(t) /\ Pops(u) => t = u PROVE tail \notin Retired
      <4>1. CASE tail = Null
        BY <2>1, <3>3, <4>1, ChainFacts
      <4>2. CASE tail # Null
        <5>1. PICK i, j \in DOMAIN Chain : i <= j /\ Chain[i] = head /\ Chain[j] = tail
          BY <3>1, <3>7, <4>2 DEF TailAhead, Upto
        <5>2. i = k + 1 /\ j > k
          BY <3>2, <5>1
        <5> QED
          BY <3>2, <3>4, <5>1, <5>2
      <4> QED
        BY <4>1, <4>2
    <3> QED
      BY <3>1, <3>5, <3>6, <3>7 DEF RetiredExact
  <2>3. ASSUME NEW u \in Callers, load[u].kind = "shutdown", At(u, "done"),
               NEW t \in Callers, load[t].kind # "shutdown"
        PROVE  my[t].pc \in {"call", "refused", "done"}
    <3>1. Inside = {}
      BY <2>1, <2>3 DEF TicketsExact
    <3>2. my[t].pc \in {"call", "refused", "done", "shutTail", "shutWait"}
      BY <3>1 DEF Inside
    <3> QED
      BY <2>1, <2>3, <3>2 DEF CallAtPoint, AtPoint
  <2> QED
    BY <2>2, <2>3 DEF NodesOwned
<1> QED
  BY <1>1, LfCorrect, PTL

=============================================================================
