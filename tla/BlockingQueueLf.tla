-------------------------- MODULE BlockingQueueLf ---------------------------
(***************************************************************************)
(* Dmn_BlockingQueue_Lf: a linked list with atomic head and tail, whose    *)
(* removed nodes are retired to the epoch of the call that removed them    *)
(* and freed when no call of that epoch is left.  Each thread makes one    *)
(* call; a step is one access to shared memory, or several that no other   *)
(* thread can tell apart.  Addresses are not reused.                       *)
(***************************************************************************)
EXTENDS Integers, Sequences, FiniteSets, SequencesExt

CONSTANTS
  TimeScale, IdScale, Buckets,   \* s_epochTimeScale, s_epochIdScale, s_epochDataSize
  Workloads                      \* thread -> [kind, n]: push node n, pop n items, popWait, wait, shutdown

Null == -1
Dummy == 0

\* Each push brings a node of its own.
ASSUME LfAssumption ==
  /\ {TimeScale, IdScale, Buckets} \subseteq Nat \ {0}
  /\ \A w \in Workloads :
       /\ IsFiniteSet(DOMAIN w)
       /\ w \in [DOMAIN w -> [kind: {"push", "pop", "popWait", "wait", "shutdown"}, n: Nat]]
       /\ \A t \in DOMAIN w : w[t].kind = "push" =>
            /\ w[t].n # Dummy
            /\ \A u \in DOMAIN w : w[u] = w[t] => u = t

VARIABLES
  load,
  head, tail, next,
  outstanding,     \* m_outstanding_item_count
  shut, inflightCount,  \* m_shutdown_flag, m_inflight_count
  total, epoch,    \* m_in_flight_total, m_epochData: [total, id]
  count, reclaim,  \* m_epochInFlightCount, m_epochReclaimNode
  freed,
  my,              \* the locals of each call: [pc, last, first, next, total, ep, bucket, idx, got]
  linked, taken    \* the nodes in the order they were linked, and taken

shared == <<head, tail, next, outstanding, shut, inflightCount, total, epoch, count, reclaim, freed, linked, taken>>
lfVars == <<load, shared, my>>

Callers == DOMAIN load
At(t, pc) == my[t].pc = pc
Go(t, pc) == my' = [my EXCEPT ![t].pc = pc]
\* a call that follows a pointer to no node, or to a freed one, does not go on
Fault(p) == p = Null \/ p \in freed
Lost(t) == Go(t, "lost")

-----------------------------------------------------------------------------
(* Dmn_Inflight_Guard::Ticket and enterInflightGuardFnc() *)

CalcEpochIndex(id) == (id \div IdScale) % Buckets

Enter(t) ==
  /\ At(t, "call") /\ load[t].kind # "shutdown"
  /\ IF shut THEN Go(t, "refused") /\ UNCHANGED inflightCount
             ELSE Go(t, "recheck") /\ inflightCount' = inflightCount + 1
  /\ UNCHANGED <<load, head, tail, next, outstanding, shut, total, epoch, count, reclaim, freed, linked, taken>>

Recheck(t) ==
  /\ At(t, "recheck")
  /\ IF shut THEN Go(t, "refused") /\ inflightCount' = inflightCount - 1 /\ UNCHANGED total
             ELSE /\ my' = [my EXCEPT ![t].pc = "epoch", ![t].total = total]
                  /\ total' = total + 1 /\ UNCHANGED inflightCount
  /\ UNCHANGED <<load, head, tail, next, outstanding, shut, epoch, count, reclaim, freed, linked, taken>>

EpochLoad(t) ==
  /\ At(t, "epoch")
  /\ LET old == my[t].total < epoch.total \/ my[t].total - epoch.total >= TimeScale
     IN my' = [my EXCEPT ![t].pc = IF old THEN "advance" ELSE "register",
                         ![t].ep = epoch, ![t].bucket = CalcEpochIndex(epoch.id)]
  /\ UNCHANGED <<load, shared>>

Advance(t) ==
  /\ At(t, "advance")
  /\ IF epoch = my[t].ep
       THEN /\ epoch' = [total |-> my[t].total, id |-> epoch.id + 1]
            /\ my' = [my EXCEPT ![t].pc = "sweep", ![t].idx = 0, ![t].bucket = CalcEpochIndex(epoch.id + 1)]
       ELSE Go(t, "epoch") /\ UNCHANGED epoch
  /\ UNCHANGED <<load, head, tail, next, outstanding, shut, inflightCount, total, count, reclaim, freed, linked, taken>>

\* the call that advanced the epoch looks at the others, one after the other
Sweep(t) ==
  /\ At(t, "sweep")
  /\ IF my[t].idx = Buckets THEN Go(t, "register")
     ELSE IF my[t].idx # my[t].bucket /\ count[my[t].idx] = 0 THEN Go(t, "sweepTake")
     ELSE my' = [my EXCEPT ![t].idx = @ + 1]
  /\ UNCHANGED <<load, shared>>

FreeRetired(b) == reclaim' = [reclaim EXCEPT ![b] = {}] /\ freed' = freed \cup reclaim[b]

SweepTake(t) ==
  /\ At(t, "sweepTake") /\ FreeRetired(my[t].idx)
  /\ my' = [my EXCEPT ![t].pc = "sweep", ![t].idx = @ + 1]
  /\ UNCHANGED <<load, head, tail, next, outstanding, shut, inflightCount, total, epoch, count, linked, taken>>

Begin(t) == [push |-> "push", pop |-> "popTail", popWait |-> "popTail", wait |-> "waitEmpty"][load[t].kind]

Register(t) ==
  /\ At(t, "register") /\ Go(t, Begin(t))
  /\ count' = [count EXCEPT ![my[t].bucket] = @ + 1]
  /\ UNCHANGED <<load, head, tail, next, outstanding, shut, inflightCount, total, epoch, reclaim, freed, linked, taken>>

-----------------------------------------------------------------------------
(* leaveInflightGuardFnc() and the end of the ticket *)

LeaveCount(t) ==
  /\ At(t, "leave")
  /\ count' = [count EXCEPT ![my[t].bucket] = @ - 1]
  /\ Go(t, IF count[my[t].bucket] = 1 THEN "leaveEpoch" ELSE "release")
  /\ UNCHANGED <<load, head, tail, next, outstanding, shut, inflightCount, total, epoch, reclaim, freed, linked, taken>>

LeaveEpoch(t) ==
  /\ At(t, "leaveEpoch")
  /\ Go(t, IF CalcEpochIndex(epoch.id) # my[t].bucket THEN "leaveTake" ELSE "release")
  /\ UNCHANGED <<load, shared>>

LeaveTake(t) ==
  /\ At(t, "leaveTake") /\ FreeRetired(my[t].bucket) /\ Go(t, "release")
  /\ UNCHANGED <<load, head, tail, next, outstanding, shut, inflightCount, total, epoch, count, linked, taken>>

Release(t) ==
  /\ At(t, "release") /\ Go(t, "done")
  /\ inflightCount' = inflightCount - 1
  /\ UNCHANGED <<load, head, tail, next, outstanding, shut, total, epoch, count, reclaim, freed, linked, taken>>

-----------------------------------------------------------------------------
(* pushImpl() *)

Push(t) ==
  /\ At(t, "push") /\ Go(t, "pushTail")
  /\ outstanding' = outstanding + 1
  /\ UNCHANGED <<load, head, tail, next, shut, inflightCount, total, epoch, count, reclaim, freed, linked, taken>>

\* Mutant: the count of a push that is refused is kept.
PushTailKept(t) ==
  /\ At(t, "pushTail") /\ UNCHANGED outstanding
  /\ IF tail = Null THEN Go(t, "leave") ELSE my' = [my EXCEPT ![t].pc = "pushNext", ![t].last = tail]
  /\ UNCHANGED <<load, head, tail, next, shut, inflightCount, total, epoch, count, reclaim, freed, linked, taken>>

PushTail(t) ==
  /\ At(t, "pushTail")
  /\ IF tail = Null
       THEN Go(t, "leave") /\ outstanding' = outstanding - 1
       ELSE my' = [my EXCEPT ![t].pc = "pushNext", ![t].last = tail] /\ UNCHANGED outstanding
  /\ UNCHANGED <<load, head, tail, next, shut, inflightCount, total, epoch, count, reclaim, freed, linked, taken>>

PushNext(t) ==
  /\ At(t, "pushNext")
  /\ IF Fault(my[t].last) THEN Lost(t)
     ELSE my' = [my EXCEPT ![t].next = next[my[t].last],
                           ![t].pc = CASE my[t].last # tail -> "pushTail"
                                       [] next[my[t].last] = Null -> "pushLink"
                                       [] OTHER -> "help"]
  /\ UNCHANGED <<load, shared>>

PushLink(t) ==
  /\ At(t, "pushLink")
  /\ IF Fault(my[t].last) THEN Lost(t) /\ UNCHANGED <<next, linked>>
     ELSE IF next[my[t].last] # Null THEN Go(t, "pushTail") /\ UNCHANGED <<next, linked>>
     ELSE /\ next' = [next EXCEPT ![my[t].last] = load[t].n]
          /\ linked' = Append(linked, load[t].n) /\ Go(t, "pushSwing")
  /\ UNCHANGED <<load, head, tail, outstanding, shut, inflightCount, total, epoch, count, reclaim, freed, taken>>

PushSwing(t) ==
  /\ At(t, "pushSwing") /\ Go(t, "leave")
  /\ tail' = IF tail = my[t].last THEN load[t].n ELSE tail
  /\ UNCHANGED <<load, head, next, outstanding, shut, inflightCount, total, epoch, count, reclaim, freed, linked, taken>>

\* the tail is moved forward for another call, by a push or by a pop
Help(t) ==
  /\ At(t, "help")
  /\ tail' = IF tail = my[t].last THEN my[t].next ELSE tail
  /\ Go(t, IF load[t].kind = "push" THEN "pushTail" ELSE "popTail")
  /\ UNCHANGED <<load, head, next, outstanding, shut, inflightCount, total, epoch, count, reclaim, freed, linked, taken>>

-----------------------------------------------------------------------------
(* popOptional(), pop() *)

\* pop(count) tries again, unless it is shut down or its time is over
PopEmpty(t) ==
  \/ Go(t, "leave")
  \/ load[t].kind = "pop" /\ load[t].n > 1 /\ ~shut /\ Go(t, "popTail")

PopTail(t) ==
  /\ At(t, "popTail")
  /\ IF tail = Null THEN Go(t, "leave") ELSE my' = [my EXCEPT ![t].pc = "popHead", ![t].last = tail]
  /\ UNCHANGED <<load, shared>>

PopHead(t) ==
  /\ At(t, "popHead")
  /\ my' = [my EXCEPT ![t].pc = "popNext", ![t].first = head]
  /\ UNCHANGED <<load, shared>>

\* Mutant: the head overtakes a tail that lags behind.
PopNextUnhelped(t) ==
  /\ At(t, "popNext")
  /\ IF Fault(my[t].first) THEN Lost(t)
     ELSE IF my[t].first # head THEN Go(t, "popTail")
     ELSE IF my[t].first = my[t].last /\ next[head] = Null
       THEN IF load[t].kind = "popWait" THEN Go(t, "popSpin") ELSE PopEmpty(t)
     ELSE my' = [my EXCEPT ![t].next = next[head], ![t].pc = "popTake"]
  /\ UNCHANGED <<load, shared>>

PopNext(t) ==
  /\ At(t, "popNext")
  /\ IF Fault(my[t].first) THEN Lost(t)
     ELSE IF my[t].first # head THEN Go(t, "popTail")
     ELSE IF my[t].first = my[t].last /\ next[head] = Null
       THEN IF load[t].kind = "popWait" THEN Go(t, "popSpin") ELSE PopEmpty(t)
     ELSE my' = [my EXCEPT ![t].next = next[head], ![t].pc = IF my[t].first = my[t].last THEN "help" ELSE "popTake"]
  /\ UNCHANGED <<load, shared>>

PopSpin(t) ==
  /\ At(t, "popSpin") /\ tail # my[t].last /\ Go(t, "popTail")
  /\ UNCHANGED <<load, shared>>

\* compare_exchange_weak(), which may fail for nothing
PopTake(t) ==
  /\ At(t, "popTake")
  /\ \/ head = my[t].first /\ head' = my[t].next /\ Go(t, "retire") /\ taken' = Append(taken, my[t].next)
     \/ Go(t, "popTail") /\ UNCHANGED <<head, taken>>
  /\ UNCHANGED <<load, tail, next, outstanding, shut, inflightCount, total, epoch, count, reclaim, freed, linked>>

RetireNode(t) ==
  /\ At(t, "retire") /\ Go(t, "popData")
  /\ reclaim' = [reclaim EXCEPT ![my[t].bucket] = @ \cup {my[t].first}]
  /\ UNCHANGED <<load, head, tail, next, outstanding, shut, inflightCount, total, epoch, count, freed, linked, taken>>

PopData(t) ==
  /\ At(t, "popData")
  /\ outstanding' = outstanding - 1
  /\ IF Fault(my[t].next) THEN Lost(t)
     ELSE my' = [my EXCEPT ![t].got = Append(@, my[t].next),
                           ![t].pc = IF load[t].kind = "pop" /\ ~shut /\ Len(my[t].got) + 1 < load[t].n THEN "popTail" ELSE "leave"]
  /\ UNCHANGED <<load, head, tail, next, shut, inflightCount, total, epoch, count, reclaim, freed, linked, taken>>

-----------------------------------------------------------------------------
(* waitForEmpty() and shutdown() *)

WaitForEmpty(t) ==
  /\ At(t, "waitEmpty") /\ (outstanding = 0 \/ shut) /\ Go(t, "leave")
  /\ UNCHANGED <<load, shared>>

Shutdown(t) ==
  /\ At(t, "call") /\ load[t].kind = "shutdown" /\ Go(t, "shutTail")
  /\ shut' = TRUE
  /\ UNCHANGED <<load, head, tail, next, outstanding, inflightCount, total, epoch, count, reclaim, freed, linked, taken>>

ShutdownTail(t) ==
  /\ At(t, "shutTail") /\ Go(t, "shutWait")
  /\ tail' = Null
  /\ UNCHANGED <<load, head, next, outstanding, shut, inflightCount, total, epoch, count, reclaim, freed, linked, taken>>

ShutdownEnd(t) ==
  /\ At(t, "shutWait") /\ inflightCount = 0 /\ Go(t, "done")
  /\ UNCHANGED <<load, shared>>

-----------------------------------------------------------------------------
Nodes == {Dummy} \cup {load[t].n : t \in {c \in Callers : load[c].kind = "push"}}
NewCall == [pc |-> "call", last |-> Null, first |-> Null, next |-> Null, total |-> 0,
            ep |-> [total |-> 0, id |-> 0], bucket |-> 0, idx |-> 0, got |-> <<>>]

LfInit ==
  /\ load \in Workloads
  /\ head = Dummy /\ tail = Dummy /\ next = [n \in Nodes |-> Null]
  /\ outstanding = 0 /\ shut = FALSE /\ inflightCount = 0
  /\ total = 0 /\ epoch = [total |-> 0, id |-> 0]
  /\ count = [b \in 0..(Buckets - 1) |-> 0] /\ reclaim = [b \in 0..(Buckets - 1) |-> {}]
  /\ freed = {} /\ my = [t \in Callers |-> NewCall]
  /\ linked = <<>> /\ taken = <<>>

Guard(t) == Enter(t) \/ Recheck(t) \/ EpochLoad(t) \/ Advance(t) \/ Sweep(t) \/ SweepTake(t) \/ Register(t)
Leaving(t) == LeaveCount(t) \/ LeaveEpoch(t) \/ LeaveTake(t) \/ Release(t)
Producing(t) == Push(t) \/ PushTail(t) \/ PushNext(t) \/ PushLink(t) \/ PushSwing(t) \/ Help(t)
Consuming(t) == PopTail(t) \/ PopHead(t) \/ PopNext(t) \/ PopSpin(t) \/ PopTake(t) \/ RetireNode(t) \/ PopData(t)
Ending(t) == WaitForEmpty(t) \/ Shutdown(t) \/ ShutdownTail(t) \/ ShutdownEnd(t)
LfNext == \E t \in Callers : Guard(t) \/ Leaving(t) \/ Producing(t) \/ Consuming(t) \/ Ending(t)

LfSpec == LfInit /\ [][LfNext]_lfVars
-----------------------------------------------------------------------------
\* No pointer has gone wrong so far.
NoneLost == \A t \in Callers : my[t].pc # "lost"
Sound == NoneLost /\ head # Null

\* The nodes from the head on, in order; and the calls that have an item in their
\* hands: one that is counted and not yet linked, or taken and still counted.
Live == SubSeq(linked, Len(taken) + 1, Len(linked))
InHand == {t \in Callers : my[t].pc \in {"pushTail", "pushNext", "pushLink", "retire", "popData"}
                            \/ (my[t].pc = "help" /\ load[t].kind = "push")}
CountsItems == outstanding = Len(Live) + Cardinality(InHand)

\* As long as no pointer has gone wrong, items are taken in the order they
\* were linked, none twice, and the count that waitForEmpty() reads
\* stands for exactly the items that are queued, being pushed or being taken.
FifoExact ==
  Sound => /\ taken = SubSeq(linked, 1, Len(taken))
           /\ CountsItems
           /\ head = IF taken = <<>> THEN Dummy ELSE Last(taken)

Retired == freed \cup UNION {reclaim[b] : b \in DOMAIN reclaim}
Pops(t) == load[t].kind \in {"pop", "popWait"}

\* A node is freed once and only after it has left the queue: neither the head
\* nor a node that follows has been freed or retired, and the tail has not while
\* a single consumer pops (another one's stale tail lets the head pass the tail);
\* and once shutdown() has returned, no call is left inside.
NodesOwned ==
  /\ Sound => Retired \cap ({head} \cup ToSet(Live)) = {}
  /\ (Sound /\ \A t, u \in Callers : Pops(t) /\ Pops(u) => t = u) => tail \notin Retired
  /\ Sound => \A b \in DOMAIN reclaim :
       reclaim[b] \cap freed = {} /\ \A c \in DOMAIN reclaim \ {b} : reclaim[b] \cap reclaim[c] = {}
  /\ (\E t \in Callers : load[t].kind = "shutdown" /\ At(t, "done")) =>
       \A t \in Callers : load[t].kind # "shutdown" => my[t].pc \in {"call", "refused", "done"}

\* A pop never takes the end of the list: the head stays a node.
HeadIsNode == head # Null

-----------------------------------------------------------------------------
(* What makes them inductive.                                              *)

GuardPoints == {"call", "recheck", "epoch", "advance", "sweep", "sweepTake", "register"}
PushPoints == {"push", "pushTail", "pushNext", "pushLink", "pushSwing"}
PopPoints == {"popTail", "popHead", "popNext", "popSpin", "popTake", "retire", "popData"}
EndPoints == {"leave", "leaveEpoch", "leaveTake", "release", "refused", "done", "lost"}
CallPoints == GuardPoints \cup PushPoints \cup PopPoints \cup EndPoints
            \cup {"help", "waitEmpty", "shutTail", "shutWait"}

Locals ==
  [pc: CallPoints, last: Nodes \cup {Null}, first: Nodes \cup {Null}, next: Nodes \cup {Null},
   total: Nat, ep: [total: Nat, id: Nat], bucket: 0 .. Buckets - 1, idx: 0 .. Buckets,
   got: Seq(Nodes \cup {Null})]

LfTypeOK ==
  /\ load \in Workloads
  /\ head \in Nodes \cup {Null} /\ tail \in Nodes \cup {Null} /\ next \in [Nodes -> Nodes \cup {Null}]
  /\ outstanding \in Int /\ shut \in BOOLEAN /\ inflightCount \in Int
  /\ total \in Nat /\ epoch \in [total: Nat, id: Nat]
  /\ count \in [0 .. Buckets - 1 -> Int] /\ reclaim \in [0 .. Buckets - 1 -> SUBSET Nodes]
  /\ freed \subseteq Nodes
  /\ my \in [Callers -> Locals]
  /\ linked \in Seq(Nodes) /\ taken \in Seq(Nodes \cup {Null})

\* Each call is at program points of its own, and its sweep ends in time.
AtPoint(t) ==
  /\ my[t].pc = "sweepTake" => my[t].idx # Buckets
  /\ my[t].pc \in PushPoints => load[t].kind = "push"
  /\ my[t].pc \in PopPoints => Pops(t)
  /\ my[t].pc = "help" => load[t].kind = "push" \/ Pops(t)
  /\ my[t].pc = "waitEmpty" => load[t].kind = "wait"
  /\ my[t].pc \in {"shutTail", "shutWait"} => shut /\ load[t].kind = "shutdown"
  /\ my[t].pc \in {"popTake", "retire"} => my[t].first # Null
  /\ load[t].kind = "shutdown" => my[t].pc \in {"call", "shutTail", "shutWait", "done"}
CallAtPoint == \A t \in Callers : AtPoint(t)

\* The ticket counter is exact, and none is held once a shutdown() has returned.
Inside == {t \in Callers : my[t].pc \notin {"call", "refused", "done", "shutTail", "shutWait"}}
TicketsExact ==
  /\ inflightCount = Cardinality(Inside)
  /\ (\E t \in Callers : load[t].kind = "shutdown" /\ At(t, "done")) => shut /\ Inside = {}

\* The list: the dummy node and all that were ever linked, each followed by the
\* next; a node that is not linked is followed by none.
Chain == <<Dummy>> \o linked
ListExact ==
  /\ IsInjective(Chain)
  /\ Len(taken) < Len(Chain) /\ head = Chain[Len(taken) + 1]
  /\ \A i \in 1 .. Len(taken) : taken[i] = linked[i]
  /\ \A i \in 1 .. Len(linked) : next[Chain[i]] = Chain[i + 1]
  /\ \A n \in Nodes : n = Last(Chain) \/ n \notin Range(Chain) => next[n] = Null
  /\ tail \in Range(Chain) \cup {Null}

\* What a call holds of the list is still part of it, and what it has read of the
\* links still holds. A pop has read a null link only where nobody had linked.
LastHeld == {"pushNext", "pushLink", "pushSwing", "help", "popHead", "popNext", "popSpin", "popTake"}
BeforeLink == GuardPoints \cup {"push", "pushTail", "pushNext", "pushLink", "help"}
Honest(t) ==
  /\ load[t].kind = "push" /\ my[t].pc \in BeforeLink => load[t].n \notin Range(linked)
  /\ my[t].pc \in LastHeld => my[t].last \in Range(Chain)
  /\ my[t].pc = "pushSwing" => next[my[t].last] = load[t].n
  /\ my[t].pc = "help" => my[t].next # Null /\ next[my[t].last] = my[t].next
  /\ my[t].pc \in {"popNext", "popTake", "retire"} => my[t].first \in Range(Chain)
  /\ my[t].pc = "popTake" => my[t].first # my[t].last /\ my[t].next \in {Null, next[my[t].first]}
LocalsHonest == \A t \in Callers : Honest(t)

\* Every node that was taken from is with the call that took from it, retired or
\* freed, and only one of these.
Past == {Chain[i] : i \in 1 .. Len(taken)}
RetiredExact ==
  /\ Retired \subseteq Past
  /\ \A b, c \in DOMAIN reclaim : reclaim[b] \cap freed = {} /\ (b # c => reclaim[b] \cap reclaim[c] = {})
  /\ \A t \in Callers : At(t, "retire") =>
       /\ my[t].first \in Past \ Retired
       /\ \A u \in Callers : At(u, "retire") /\ my[u].first = my[t].first => u = t

\* The order of nodes in the list. The tail passes no call that holds it.
Upto(m, n) == \E i, j \in DOMAIN Chain : i <= j /\ Chain[i] = m /\ Chain[j] = n
TailAhead ==
  /\ tail # Null => \A t \in Callers : my[t].pc \in LastHeld => Upto(my[t].last, tail)
  /\ (\A t, u \in Callers : Pops(t) /\ Pops(u) => t = u) =>
       /\ tail # Null => Upto(head, tail)
       /\ \A t \in Callers : Pops(t) /\ my[t].pc \in LastHeld => Upto(head, my[t].last)

LfInv ==
  /\ LfTypeOK /\ CallAtPoint /\ TicketsExact
  /\ Sound => ListExact /\ LocalsHonest /\ CountsItems /\ RetiredExact /\ TailAhead
=============================================================================
