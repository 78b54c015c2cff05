---------------------------- MODULE Async_proofs ----------------------------
(***************************************************************************)
(* Dmn_Pipe and Dmn_Async for any number of readers, waiters, writes and   *)
(* callers, any batch size, any delays and any range of the clock.  The    *)
(* first part is about a pipe: the invariant PipeInv is inductive, and the *)
(* properties of the pipe follow from it.  An executor is a pipe (every    *)
(* step of Async is a step of Pipe), so PipeInv holds of it; on top of it  *)
(* a task never runs early, its promise is fulfilled once, and the whole   *)
(* implements the SerialExecutor that the other components rely on.        *)
(***************************************************************************)
EXTENDS Async, SequenceFacts

-----------------------------------------------------------------------------
(* Where the items are.                                                    *)

\* EachItemOnce, agent by agent.
LEMMA OnceFacts ==
  ASSUME EachItemOnce
  PROVE  /\ IsInjective(queue) /\ IsInjective(sched) /\ IsInjective(log)
         /\ \A a \in Agents : IsInjective(hand[a]) /\ Range(hand[a]) \subseteq Held
         /\ \A x \in Held : \E a \in Agents : x \in Range(hand[a])
<1>1. \A s \in {queue, sched, log} : IsInjective(s)
  BY Zenon DEF EachItemOnce
<1>2. \A a \in Agents : IsInjective(hand[a])
  BY Zenon DEF EachItemOnce
<1> QED
  BY <1>1, <1>2 DEF Held

\* One agent's hand changes, to items that no other agent holds.
LEMMA HandChange ==
  ASSUME TypeOK, EachItemOnce, NEW a \in Agents, NEW s \in Seq(Items),
         hand' = [hand EXCEPT ![a] = s], IsInjective(s),
         \A b \in Agents : b # a => Range(s) \cap Range(hand[b]) = {}
  PROVE  /\ Held' = (Held \ Range(hand[a])) \cup Range(s)
         /\ \A b \in Agents : IsInjective(hand'[b])
         /\ \A b, c \in Agents : b # c => Range(hand'[b]) \cap Range(hand'[c]) = {}
<1>1. \A b \in Agents : hand'[b] = IF b = a THEN s ELSE hand[b]
  BY DEF TypeOK
<1>2. \A b, c \in Agents : b # c => Range(hand[b]) \cap Range(hand[c]) = {}
  BY Zenon DEF EachItemOnce
<1>3. \A b \in Agents : IsInjective(hand'[b])
  BY <1>1, OnceFacts, Zenon
<1>4. ASSUME NEW b \in Agents, NEW c \in Agents, b # c
      PROVE  Range(hand'[b]) \cap Range(hand'[c]) = {}
  BY <1>1, <1>2, <1>4
<1>5. Held' = (Held \ Range(hand[a])) \cup Range(s)
  <2>1. ASSUME NEW x \in Held' PROVE x \in (Held \ Range(hand[a])) \cup Range(s)
    <3>1. PICK b \in Agents : x \in Range(hand'[b])
      BY DEF Held
    <3> QED
      BY <1>1, <1>2, <3>1 DEF Held
  <2>2. ASSUME NEW x \in (Held \ Range(hand[a])) \cup Range(s) PROVE x \in Held'
    <3>1. PICK b \in Agents : x \in Range(hand'[b])
      BY <1>1 DEF Held
    <3> QED
      BY <3>1 DEF Held
  <2> QED
    BY <2>1, <2>2
<1> QED
  BY <1>3, <1>4, <1>5

\* EachItemOnce after a step, from its parts.
LEMMA OnceAfter ==
  ASSUME IsInjective(queue'), IsInjective(sched'), IsInjective(log'),
         \A a \in Agents : IsInjective(hand'[a]),
         \A a, b \in Agents : a # b => Range(hand'[a]) \cap Range(hand'[b]) = {},
         Range(queue') \cap Range(sched') = {}, Range(log') \cap Held' = {},
         (Range(queue') \cup Range(sched')) \cap (Range(log') \cup Held') = {},
         Range(queue') \cup Range(sched') \cup Range(log') \cup Held' \subseteq 1 .. submitted',
         ~failure' => 1 .. submitted'
                       \subseteq Range(queue') \cup Range(sched') \cup Range(log') \cup Held'
  PROVE  EachItemOnce'
  BY Zenon DEF EachItemOnce

\* The new item of write() and writeAt() is nowhere yet.
LEMMA Fresh ==
  ASSUME TypeOK, EachItemOnce
  PROVE  /\ submitted + 1 \notin Range(queue) /\ submitted + 1 \notin Range(sched)
         /\ submitted + 1 \notin Range(log) /\ submitted + 1 \notin Held
         /\ 1 .. submitted + 1 = (1 .. submitted) \cup {submitted + 1}
<1>1. submitted \in Nat
  BY DEF TypeOK
<1>2. submitted + 1 \notin 1 .. submitted /\ 1 .. submitted + 1 = (1 .. submitted) \cup {submitted + 1}
  BY <1>1
<1> QED
  BY <1>2, Zenon DEF EachItemOnce

\* The history of deadlines grows by that of the new item.
LEMMA DueGrows ==
  ASSUME TypeOK, ItemsPlaced, NEW d \in {Immediate} \cup (0 .. MaxTime), due' = Append(due, d)
  PROVE  /\ due' \in Seq({Immediate} \cup (0 .. MaxTime)) /\ Len(due') = submitted + 1
         /\ \A i \in 1 .. submitted : due'[i] = due[i]
         /\ due'[submitted + 1] = d
  BY DEF TypeOK, ItemsPlaced

\* write().
LEMMA WriteItems ==
  ASSUME PipeInv, Write
  PROVE  EachItemOnce' /\ ItemsPlaced'
<1> USE DEF PipeInv
<1>1. /\ submitted' = submitted + 1 /\ due' = Append(due, Immediate)
      /\ queue' = Append(queue, submitted + 1)
      /\ UNCHANGED <<sched, log, hand, failure>>
      /\ submitted \in Nat /\ submitted + 1 \in Items
      /\ queue \in Seq(Items)
  BY PipeAssumption DEF Write, Accept, acct, TypeOK, Items
<1>2. /\ Range(queue') = Range(queue) \cup {submitted + 1}
      /\ IsInjective(queue')
  BY <1>1, Fresh, AppendNew, OnceFacts
<1>3. Held' = Held
  BY <1>1 DEF Held
<1>4. EachItemOnce'
  <2>1. IsInjective(sched') /\ IsInjective(log') /\ \A a \in Agents : IsInjective(hand'[a])
    BY <1>1, OnceFacts, Zenon
  <2>2. \A a, b \in Agents : a # b => Range(hand'[a]) \cap Range(hand'[b]) = {}
    BY <1>1, Zenon DEF EachItemOnce
  <2>3. /\ Range(queue') \cap Range(sched') = {} /\ Range(log') \cap Held' = {}
        /\ (Range(queue') \cup Range(sched')) \cap (Range(log') \cup Held') = {}
    BY <1>1, <1>2, <1>3, Fresh DEF EachItemOnce
  <2>4. /\ Range(queue') \cup Range(sched') \cup Range(log') \cup Held' \subseteq 1 .. submitted'
        /\ ~failure' => 1 .. submitted'
                          \subseteq Range(queue') \cup Range(sched') \cup Range(log') \cup Held'
    BY <1>1, <1>2, <1>3, Fresh DEF EachItemOnce
  <2> QED
    BY <1>2, <2>1, <2>2, <2>3, <2>4, OnceAfter
<1>5. ItemsPlaced'
  <2>1. /\ Len(due') = submitted + 1
        /\ \A i \in 1 .. submitted : due'[i] = due[i]
        /\ due'[submitted + 1] = Immediate
    BY <1>1, DueGrows
  <2>2. /\ Range(queue) \cup Range(sched) \cup Held \subseteq 1 .. submitted
        /\ \A r \in Readers : Range(hand[r]) \subseteq Held
        /\ \A i \in DOMAIN sched : sched[i] \in Range(sched)
    BY OnceFacts DEF EachItemOnce, Agents, Range
  <2>3. \A i \in Range(queue') : due'[i] = Immediate
    BY <1>2, <2>1, <2>2 DEF ItemsPlaced
  <2>4. \A r \in Readers : \A i \in Range(hand'[r]) : due'[i] = Immediate
    BY <1>1, <2>1, <2>2 DEF ItemsPlaced
  <2>5. \A i \in Range(sched') : due'[i] # Immediate
    BY <1>1, <2>1, <2>2 DEF ItemsPlaced
  <2>6. \A i, j \in DOMAIN sched' : i <= j => Before(sched[i], sched[j])'
    BY <1>1, <2>1, <2>2 DEF ItemsPlaced, Before
  <2>7. \A i \in 1 .. submitted' : due'[i] # Immediate
           => i \in Range(sched') \cup Range(log') \cup Range(hand'[Worker])
    BY <1>1, <2>1, Fresh DEF ItemsPlaced
  <2> QED
    BY <1>1, <2>1, <2>3, <2>4, <2>5, <2>6, <2>7 DEF ItemsPlaced
<1> QED
  BY <1>4, <1>5

\* writeAt(): the new item comes behind those that are not due later.
LEMMA WriteAtItems ==
  ASSUME PipeInv, NEW d \in 0 .. MaxTime, Accept(d), Emplace(d), UNCHANGED queue
  PROVE  EachItemOnce' /\ ItemsPlaced'
<1> USE DEF PipeInv
<1>1. /\ submitted' = submitted + 1 /\ due' = Append(due, d)
      /\ UNCHANGED <<queue, log, hand, failure>>
      /\ submitted \in Nat /\ submitted + 1 \in Items
      /\ sched \in Seq(Items) /\ DOMAIN sched = 1 .. Len(sched) /\ Len(sched) \in Nat
      /\ d \in Nat /\ d # Immediate
  BY PipeAssumption DEF Accept, acct, TypeOK, Items
<1>2. PICK p \in InsertPosition(d) : sched' = InsertAt(sched, p, submitted + 1)
  BY DEF Emplace
<1>3. /\ p \in 1 .. Len(sched) + 1
      /\ \A i \in 1 .. Len(sched) : i < p <=> due[sched[i]] <= d
  BY <1>1 DEF InsertPosition
<1>4. /\ sched' \in Seq(Items) /\ Len(sched') = Len(sched) + 1
      /\ \A i \in 1 .. Len(sched) : i < p => sched'[i] = sched[i]
      /\ sched'[p] = submitted + 1
      /\ \A i \in 1 .. Len(sched) : ~(i < p) => sched'[i + 1] = sched[i]
      /\ Range(sched') = Range(sched) \cup {submitted + 1}
      /\ IsInjective(sched')
  <2>1. IsInjective(sched) /\ submitted + 1 \notin Range(sched)
    BY Fresh, OnceFacts
  <2>2. sched \in Seq(Items) /\ p \in 1 .. Len(sched) + 1 /\ submitted + 1 \in Items
    BY <1>1, <1>3
  <2> QED
    BY <1>2, <2>1, <2>2, InsertNew
<1>5. Held' = Held
  BY <1>1 DEF Held
<1>6. EachItemOnce'
  <2>1. IsInjective(queue') /\ IsInjective(log') /\ \A a \in Agents : IsInjective(hand'[a])
    BY <1>1, OnceFacts, Zenon
  <2>2. \A a, b \in Agents : a # b => Range(hand'[a]) \cap Range(hand'[b]) = {}
    BY <1>1, Zenon DEF EachItemOnce
  <2>3. /\ Range(queue') \cap Range(sched') = {} /\ Range(log') \cap Held' = {}
        /\ (Range(queue') \cup Range(sched')) \cap (Range(log') \cup Held') = {}
    BY <1>1, <1>4, <1>5, Fresh DEF EachItemOnce
  <2>4. /\ Range(queue') \cup Range(sched') \cup Range(log') \cup Held' \subseteq 1 .. submitted'
        /\ ~failure' => 1 .. submitted'
                          \subseteq Range(queue') \cup Range(sched') \cup Range(log') \cup Held'
    BY <1>1, <1>4, <1>5, Fresh DEF EachItemOnce
  <2> QED
    BY <1>4, <2>1, <2>2, <2>3, <2>4, OnceAfter
<1>7. ItemsPlaced'
  <2>1. /\ Len(due') = submitted + 1
        /\ \A i \in 1 .. submitted : due'[i] = due[i]
        /\ due'[submitted + 1] = d
    BY <1>1, DueGrows
  <2>2. /\ Range(queue) \cup Range(sched) \cup Held \subseteq 1 .. submitted
        /\ \A r \in Readers : Range(hand[r]) \subseteq Held
    BY OnceFacts DEF EachItemOnce, Agents
  <2>3. \A i \in Range(queue') : due'[i] = Immediate
    BY <1>1, <2>1, <2>2 DEF ItemsPlaced
  <2>4. \A r \in Readers : \A i \in Range(hand'[r]) : due'[i] = Immediate
    BY <1>1, <2>1, <2>2 DEF ItemsPlaced
  <2>5. \A i \in Range(sched') : due'[i] # Immediate
    BY <1>1, <1>4, <2>1, <2>2 DEF ItemsPlaced
  <2>6. ASSUME NEW i \in DOMAIN sched', NEW j \in DOMAIN sched', i <= j
        PROVE  Before(sched[i], sched[j])'
    <3>1. i \in 1 .. Len(sched) + 1 /\ j \in 1 .. Len(sched) + 1
      BY <1>1, <1>4
    <3>2. \A k \in 1 .. Len(sched) : /\ sched[k] \in 1 .. submitted
                                     /\ due'[sched[k]] = due[sched[k]]
                                     /\ due[sched[k]] \in Nat
      <4>1. \A k \in 1 .. Len(sched) : sched[k] \in Range(sched)
        BY <1>1 DEF Range
      <4>2. \A k \in 1 .. submitted : due[k] \in {Immediate} \cup (0 .. MaxTime)
        BY DEF TypeOK, ItemsPlaced
      <4> QED
        BY <2>1, <2>2, <4>1, <4>2, PipeAssumption DEF ItemsPlaced
    <3>3. \A k, l \in 1 .. Len(sched) : k <= l => Before(sched[k], sched[l])
      BY <1>1 DEF ItemsPlaced
    <3>4. CASE i # p /\ j # p
      <4> DEFINE k == IF i < p THEN i ELSE i - 1
                 l == IF j < p THEN j ELSE j - 1
      <4>1. k \in 1 .. Len(sched) /\ l \in 1 .. Len(sched) /\ k <= l
        BY <1>1, <1>3, <3>1, <3>4, <2>6
      <4>2. sched'[i] = sched[k] /\ sched'[j] = sched[l]
        <5>1. /\ i = IF k < p THEN k ELSE k + 1
              /\ j = IF l < p THEN l ELSE l + 1
          BY <1>1, <1>3, <3>1, <3>4
        <5> QED
          BY <1>4, <4>1, <5>1
      <4> QED
        BY <3>2, <3>3, <4>1, <4>2 DEF Before
    <3>5. CASE i # p /\ j = p
      <4>1. i < p /\ i \in 1 .. Len(sched)
        BY <1>1, <1>3, <3>1, <3>5, <2>6
      <4>2. sched'[i] = sched[i] /\ sched'[j] = submitted + 1
        BY <1>4, <3>1, <3>5, <4>1
      <4>3. due[sched[i]] <= d /\ sched[i] <= submitted + 1
        BY <1>1, <1>3, <3>2, <4>1
      <4> QED
        BY <1>1, <2>1, <3>2, <4>1, <4>2, <4>3 DEF Before
    <3>6. CASE i = p /\ j # p
      <4>1. j > p /\ j - 1 \in 1 .. Len(sched) /\ ~(j - 1 < p)
        BY <1>1, <1>3, <3>1, <3>6, <2>6
      <4>2. sched'[i] = submitted + 1 /\ sched'[j] = sched[j - 1]
        BY <1>1, <1>3, <1>4, <3>1, <3>6, <4>1
      <4>3. d < due[sched[j - 1]]
        BY <1>1, <1>3, <3>2, <4>1
      <4> QED
        BY <1>1, <2>1, <3>2, <4>1, <4>2, <4>3 DEF Before
    <3>7. CASE i = p /\ j = p
      BY <1>1, <1>4, <3>1, <3>7, <2>1 DEF Before
    <3> QED
      BY <3>4, <3>5, <3>6, <3>7
  <2>7. \A i \in 1 .. submitted' : due'[i] # Immediate
           => i \in Range(sched') \cup Range(log') \cup Range(hand'[Worker])
    BY <1>1, <1>4, <2>1, Fresh DEF ItemsPlaced
  <2> QED
    BY <1>1, <2>1, <2>3, <2>4, <2>5, <2>6, <2>7 DEF ItemsPlaced
<1> QED
  BY <1>6, <1>7

\* pop(count) of readAndProcess(): the batch moves from the queue to the hand.
LEMMA PopItems ==
  ASSUME PipeInv, NEW a \in Agents, NEW n \in 0 .. Len(queue), hand[a] = <<>>,
         hand' = [hand EXCEPT ![a] = SubSeq(queue, 1, n)],
         queue' = SubSeq(queue, n + 1, Len(queue)),
         UNCHANGED <<sched, log, submitted, due, failure>>
  PROVE  EachItemOnce' /\ ItemsPlaced'
<1> USE DEF PipeInv
<1> DEFINE batch == SubSeq(queue, 1, n)
<1>1. queue \in Seq(Items)
  BY DEF TypeOK
<1>2. /\ batch \in Seq(Items) /\ IsInjective(batch) /\ IsInjective(queue')
      /\ Range(queue) = Range(batch) \cup Range(queue')
      /\ Range(batch) \cap Range(queue') = {}
  <2>1. IsInjective(queue)
    BY OnceFacts
  <2> QED
    BY <1>1, <2>1, SplitSeq
<1> HIDE DEF batch
<1>3. \A b \in Agents : b # a => Range(batch) \cap Range(hand[b]) = {}
  BY <1>2, OnceFacts DEF EachItemOnce
<1>4. hand' = [hand EXCEPT ![a] = batch]
  BY DEF batch
<1>5. /\ Held' = (Held \ Range(hand[a])) \cup Range(batch)
      /\ \A b \in Agents : IsInjective(hand'[b])
      /\ \A b, c \in Agents : b # c => Range(hand'[b]) \cap Range(hand'[c]) = {}
  BY <1>2, <1>3, <1>4, HandChange
<1>6. Held' = Held \cup Range(batch)
  BY <1>5, NoItem
<1>7. EachItemOnce'
  <2>1. IsInjective(sched') /\ IsInjective(log')
    BY OnceFacts
  <2>2. /\ Range(queue') \cap Range(sched') = {} /\ Range(log') \cap Held' = {}
        /\ (Range(queue') \cup Range(sched')) \cap (Range(log') \cup Held') = {}
    BY <1>2, <1>6 DEF EachItemOnce
  <2>3. /\ Range(queue') \cup Range(sched') \cup Range(log') \cup Held' \subseteq 1 .. submitted'
        /\ ~failure' => 1 .. submitted'
                          \subseteq Range(queue') \cup Range(sched') \cup Range(log') \cup Held'
    BY <1>2, <1>6 DEF EachItemOnce
  <2> QED
    BY <1>2, <1>5, <2>1, <2>2, <2>3, OnceAfter
<1>8. ItemsPlaced'
  <2>1. \A b \in Agents : hand'[b] = IF b = a THEN batch ELSE hand[b]
    BY <1>4 DEF TypeOK
  <2>2. \A r \in Readers : \A i \in Range(hand'[r]) : due'[i] = Immediate
    BY <1>2, <2>1 DEF ItemsPlaced, Agents
  <2>3. Range(hand[Worker]) \subseteq Range(hand'[Worker])
    BY <2>1, NoItem DEF Agents
  <2> QED
    BY <1>2, <2>2, <2>3 DEF ItemsPlaced, Before
<1> QED
  BY <1>7, <1>8

\* The processing function returns: the item moves from the hand to the log.
LEMMA RunItems ==
  ASSUME PipeInv, NEW a \in Agents, RunItem(a)
  PROVE  EachItemOnce' /\ ItemsPlaced'
<1> USE DEF PipeInv
<1> DEFINE x == Head(hand[a])
           rest == Tail(hand[a])
<1>1. /\ hand[a] \in Seq(Items) /\ hand[a] # <<>> /\ log \in Seq(Items)
      /\ log' = Append(log, x) /\ hand' = [hand EXCEPT ![a] = rest]
      /\ UNCHANGED <<queue, sched, submitted, due, failure>>
  BY DEF RunItem, TypeOK, io
<1>2. /\ x \in Items /\ rest \in Seq(Items) /\ IsInjective(rest)
      /\ Range(hand[a]) = Range(rest) \cup {x} /\ x \notin Range(rest)
  BY <1>1, TailRest, OnceFacts
<1> HIDE DEF x, rest
<1>3. /\ \A b \in Agents : b # a => Range(rest) \cap Range(hand[b]) = {}
      /\ x \in Held /\ Range(hand[a]) \subseteq Held
  BY <1>2, OnceFacts DEF EachItemOnce
<1>4. /\ Held' = (Held \ Range(hand[a])) \cup Range(rest)
      /\ \A b \in Agents : IsInjective(hand'[b])
      /\ \A b, c \in Agents : b # c => Range(hand'[b]) \cap Range(hand'[c]) = {}
  BY <1>1, <1>2, <1>3, HandChange
<1>5. Held' = Held \ {x}
  BY <1>2, <1>3, <1>4
<1>6. Range(log) \cap Held = {}
  BY DEF EachItemOnce
<1>7. Range(log') = Range(log) \cup {x} /\ IsInjective(log')
  BY <1>1, <1>2, <1>3, <1>6, AppendNew, OnceFacts
<1>8. EachItemOnce'
  <2>1. IsInjective(queue') /\ IsInjective(sched')
    BY <1>1, OnceFacts
  <2>2. /\ Range(queue') \cap Range(sched') = {} /\ Range(log') \cap Held' = {}
        /\ (Range(queue') \cup Range(sched')) \cap (Range(log') \cup Held') = {}
    BY <1>1, <1>3, <1>5, <1>7 DEF EachItemOnce
  <2>3. /\ Range(queue') \cup Range(sched') \cup Range(log') \cup Held' \subseteq 1 .. submitted'
        /\ ~failure' => 1 .. submitted'
                          \subseteq Range(queue') \cup Range(sched') \cup Range(log') \cup Held'
    BY <1>1, <1>3, <1>5, <1>7 DEF EachItemOnce
  <2> QED
    BY <1>4, <1>7, <2>1, <2>2, <2>3, OnceAfter
<1>9. ItemsPlaced'
  <2>1. \A b \in Agents : hand'[b] = IF b = a THEN rest ELSE hand[b]
    BY <1>1 DEF TypeOK
  <2>2. \A r \in Readers : \A i \in Range(hand'[r]) : due'[i] = Immediate
    BY <1>1, <1>2, <2>1 DEF ItemsPlaced, Agents
  <2>3. Range(hand[Worker]) \subseteq Range(hand'[Worker]) \cup Range(log')
    BY <1>2, <1>7, <2>1 DEF Agents
  <2> QED
    BY <1>1, <1>7, <2>2, <2>3 DEF ItemsPlaced, Before
<1> QED
  BY <1>8, <1>9

\* A failure: a reader's exception takes its batch with it, the worker keeps its.
LEMMA FailItems ==
  ASSUME PipeInv, NEW a \in Agents, Fail(a)
  PROVE  EachItemOnce' /\ ItemsPlaced'
<1> USE DEF PipeInv
<1> DEFINE kept == IF a = Worker THEN hand[a] ELSE <<>>
<1>1. /\ hand' = [hand EXCEPT ![a] = kept] /\ failure' = TRUE
      /\ UNCHANGED <<queue, sched, log, submitted, due>>
  BY DEF Fail, io
<1>2. kept \in Seq(Items) /\ IsInjective(kept) /\ Range(kept) \subseteq Range(hand[a])
  <2>1. hand[a] \in Seq(Items) /\ IsInjective(hand[a])
    BY OnceFacts DEF TypeOK
  <2> QED
    BY <2>1, NoItem
<1>3. a = Worker => kept = hand[a]
  OBVIOUS
<1> HIDE DEF kept
<1>4. \A b \in Agents : b # a => Range(kept) \cap Range(hand[b]) = {}
  BY <1>2 DEF EachItemOnce
<1>5. /\ Held' = (Held \ Range(hand[a])) \cup Range(kept)
      /\ \A b \in Agents : IsInjective(hand'[b])
      /\ \A b, c \in Agents : b # c => Range(hand'[b]) \cap Range(hand'[c]) = {}
  BY <1>1, <1>2, <1>4, HandChange
<1>6. Held' \subseteq Held
  BY <1>2, <1>5, OnceFacts
<1>7. EachItemOnce'
  <2>1. IsInjective(queue') /\ IsInjective(sched') /\ IsInjective(log')
    BY <1>1, OnceFacts
  <2>2. /\ Range(queue') \cap Range(sched') = {} /\ Range(log') \cap Held' = {}
        /\ (Range(queue') \cup Range(sched')) \cap (Range(log') \cup Held') = {}
        /\ Range(queue') \cup Range(sched') \cup Range(log') \cup Held' \subseteq 1 .. submitted'
    BY <1>1, <1>6 DEF EachItemOnce
  <2> QED
    BY <1>1, <1>5, <2>1, <2>2, OnceAfter
<1>8. ItemsPlaced'
  <2>1. \A b \in Agents : hand'[b] = IF b = a THEN kept ELSE hand[b]
    BY <1>1 DEF TypeOK
  <2>2. \A r \in Readers : \A i \in Range(hand'[r]) : due'[i] = Immediate
    BY <1>1, <1>2, <2>1 DEF ItemsPlaced, Agents
  <2>3. hand'[Worker] = hand[Worker]
    BY <1>3, <2>1 DEF Agents
  <2> QED
    BY <1>1, <2>2, <2>3 DEF ItemsPlaced, Before
<1> QED
  BY <1>7, <1>8

\* scheduledProcessingLoop() takes one item, from either queue.
LEMMA TakeItems ==
  ASSUME PipeInv, hand[Worker] = <<>>, NEW x,
         hand' = [hand EXCEPT ![Worker] = <<x>>],
         UNCHANGED <<log, submitted, due, failure>>,
         \/ queue # <<>> /\ x = Head(queue) /\ queue' = Tail(queue) /\ UNCHANGED sched
         \/ sched # <<>> /\ x = Head(sched) /\ sched' = Tail(sched) /\ UNCHANGED queue
  PROVE  EachItemOnce' /\ ItemsPlaced'
<1> USE DEF PipeInv
<1>1. /\ x \in Items /\ x \in Range(queue) \cup Range(sched)
      /\ IsInjective(queue') /\ IsInjective(sched')
      /\ Range(queue') \subseteq Range(queue) /\ Range(sched') \subseteq Range(sched)
      /\ x \notin Range(queue') \cup Range(sched')
      /\ Range(queue) \cup Range(sched) = Range(queue') \cup Range(sched') \cup {x}
  <2>1. queue \in Seq(Items) /\ sched \in Seq(Items)
    BY DEF TypeOK
  <2>2. Range(queue) \cap Range(sched) = {} /\ IsInjective(queue) /\ IsInjective(sched)
    BY OnceFacts DEF EachItemOnce
  <2>3. CASE queue # <<>> /\ x = Head(queue) /\ queue' = Tail(queue) /\ UNCHANGED sched
    <3>1. /\ x \in Items /\ x \in Range(queue) /\ Range(queue) = Range(queue') \cup {x}
          /\ IsInjective(queue') /\ x \notin Range(queue')
      BY <2>1, <2>2, <2>3, TailRest
    <3> QED
      BY <2>2, <2>3, <3>1
  <2>4. CASE sched # <<>> /\ x = Head(sched) /\ sched' = Tail(sched) /\ UNCHANGED queue
    <3>1. /\ x \in Items /\ x \in Range(sched) /\ Range(sched) = Range(sched') \cup {x}
          /\ IsInjective(sched') /\ x \notin Range(sched')
      BY <2>1, <2>2, <2>4, TailRest
    <3> QED
      BY <2>2, <2>4, <3>1
  <2> QED
    BY <2>3, <2>4
<1>2. <<x>> \in Seq(Items) /\ IsInjective(<<x>>) /\ Range(<<x>>) = {x} /\ Worker \in Agents
  BY <1>1, OneItem DEF Agents
<1>3. x \notin Held /\ x \notin Range(log)
  BY <1>1 DEF EachItemOnce
<1>4. \A b \in Agents : b # Worker => Range(<<x>>) \cap Range(hand[b]) = {}
  BY <1>2, <1>3, OnceFacts
<1>5. /\ Held' = (Held \ Range(hand[Worker])) \cup Range(<<x>>)
      /\ \A b \in Agents : IsInjective(hand'[b])
      /\ \A b, c \in Agents : b # c => Range(hand'[b]) \cap Range(hand'[c]) = {}
  BY <1>2, <1>4, HandChange
<1>6. Held' = Held \cup {x}
  BY <1>2, <1>5, NoItem
<1>7. EachItemOnce'
  <2>1. IsInjective(log')
    BY OnceFacts
  <2>2. /\ Range(queue') \cap Range(sched') = {} /\ Range(log') \cap Held' = {}
        /\ (Range(queue') \cup Range(sched')) \cap (Range(log') \cup Held') = {}
    BY <1>1, <1>3, <1>6 DEF EachItemOnce
  <2>3. /\ Range(queue') \cup Range(sched') \cup Range(log') \cup Held' \subseteq 1 .. submitted'
        /\ ~failure' => 1 .. submitted'
                          \subseteq Range(queue') \cup Range(sched') \cup Range(log') \cup Held'
    BY <1>1, <1>6 DEF EachItemOnce
  <2> QED
    BY <1>1, <1>5, <2>1, <2>2, <2>3, OnceAfter
<1>8. ItemsPlaced'
  <2>1. \A b \in Agents : hand'[b] = IF b = Worker THEN <<x>> ELSE hand[b]
    BY DEF TypeOK
  <2>2. \A r \in Readers : \A i \in Range(hand'[r]) : due'[i] = Immediate
    BY <2>1, PipeAssumption DEF ItemsPlaced, Agents
  <2>3. Range(hand'[Worker]) = {x} /\ Range(hand[Worker]) = {}
    BY <1>2, <2>1, NoItem DEF Agents
  <2>4. \A i, j \in DOMAIN sched' : i <= j => Before(sched'[i], sched'[j])
    <3>1. CASE UNCHANGED sched
      BY <3>1 DEF ItemsPlaced
    <3>2. CASE sched # <<>> /\ sched' = Tail(sched)
      <4>1. sched \in Seq(Items) /\ DOMAIN sched = 1 .. Len(sched) /\ Len(sched) \in Nat
        BY DEF TypeOK
      <4>2. /\ DOMAIN sched' = 1 .. Len(sched) - 1
            /\ \A i \in 1 .. Len(sched) - 1 : sched'[i] = sched[i + 1] /\ i + 1 \in 1 .. Len(sched)
        BY <3>2, <4>1, TailRest
      <4>3. \A i, j \in 1 .. Len(sched) : i <= j => Before(sched[i], sched[j])
        BY <4>1, Zenon DEF ItemsPlaced
      <4>4. \A i, j \in 1 .. Len(sched) - 1 : i <= j => i + 1 <= j + 1
        BY <4>1
      <4> QED
        BY <4>2, <4>3, <4>4
    <3> QED
      BY <3>1, <3>2
  <2>5. \A i \in 1 .. submitted' : due'[i] # Immediate
           => i \in Range(sched') \cup Range(log') \cup Range(hand'[Worker])
    BY <1>1, <2>3 DEF ItemsPlaced
  <2> QED
    BY <1>1, <2>2, <2>4, <2>5 DEF ItemsPlaced, Before
<1> QED
  BY <1>7, <1>8

\* Steps that move no item.
LEMMA SameItems ==
  ASSUME PipeInv, UNCHANGED <<queue, sched, log, hand, submitted, due, failure>>
  PROVE  EachItemOnce' /\ ItemsPlaced'
<1>1. EachItemOnce'
  BY DEF PipeInv, EachItemOnce, Held
<1>2. ItemsPlaced'
  BY DEF PipeInv, ItemsPlaced, Before
<1> QED
  BY <1>1, <1>2

-----------------------------------------------------------------------------
(* One lemma for each part of the invariant, one step for each action.     *)

\* Notifications keep the places of agents and of waitForEmpty() calls.
LEMMA Notified ==
  ASSUME TypeOK
  PROVE  /\ WorkNotified \in [Agents -> Points]
         /\ \A a \in Agents : WorkNotified[a]
              = IF a = Worker /\ pc[a] = "sleep" THEN "select" ELSE pc[a]
         /\ EmptyNotified \in [Waiters -> WaitPoints]
         /\ \A w \in Waiters : EmptyNotified[w] = IF wait[w] = "asleep" THEN "test" ELSE wait[w]
         /\ Worker \in Agents
  BY DEF TypeOK, WorkNotified, EmptyNotified, Points, WaitPoints, Agents

\* Every step keeps the types.
LEMMA TypeStep ==
  ASSUME PipeInv, [Next]_vars
  PROVE  TypeOK'
<1> USE PipeAssumption DEF PipeInv
<1>1. TypeOK /\ Worker \in Agents
  BY DEF Agents
<1> DEFINE Deadlines == {Immediate} \cup (0 .. MaxTime)
<1>2. ASSUME NEW d \in Deadlines, Accept(d)
      PROVE  /\ now' \in 0 .. MaxTime /\ queueShut' \in BOOLEAN /\ popCount' \in Nat
             /\ submitted' \in Nat /\ count' \in Nat /\ failure' \in BOOLEAN /\ shut' \in BOOLEAN
             /\ pc' \in [Agents -> Points] /\ hand' \in [Agents -> Seq(Items)]
             /\ done' \in [Agents -> Nat] /\ alarm' \in 0 .. NoAlarm
             /\ wait' \in [Waiters -> WaitPoints] /\ snapshot' \in [Waiters -> Nat]
             /\ closer' \in ClosePoints /\ due' \in Seq(Deadlines) /\ log' \in Seq(Items)
             /\ submitted + 1 \in Items
  <2>1. pc' \in [Agents -> Points]
    BY <1>1, <1>2, Notified DEF Accept, TypeOK
  <2>2. due' \in Seq(Deadlines)
    BY <1>1, <1>2 DEF Accept, TypeOK
  <2>3. submitted + 1 \in Items /\ submitted' \in Nat
    BY <1>1, <1>2 DEF Accept, TypeOK, Items
  <2> QED
    BY <1>1, <1>2, <2>1, <2>2, <2>3 DEF Accept, TypeOK, acct, waiting
<1>3. CASE Tick
  BY <1>1, <1>3 DEF Tick, TypeOK, io, acct, agents, waiting
<1>4. CASE Write
  <2>1. Accept(Immediate) /\ queue' = Append(queue, submitted + 1) /\ sched' = sched
    BY <1>4 DEF Write
  <2>2. submitted + 1 \in Items
    BY <1>2, <2>1
  <2>3. queue' \in Seq(Items) /\ sched' \in Seq(Items)
    BY <1>1, <2>1, <2>2 DEF TypeOK
  <2> QED
    BY <1>2, <2>1, <2>3 DEF TypeOK
<1>5. CASE WriteAt
  <2>1. PICK d \in 0 .. MaxTime : Accept(d) /\ Emplace(d)
    BY <1>5 DEF WriteAt
  <2>2. submitted + 1 \in Items
    BY <1>2, <2>1
  <2>3. PICK p \in 1 .. Len(sched) + 1 : sched' = InsertAt(sched, p, submitted + 1)
    BY <2>1 DEF Emplace, InsertPosition
  <2>4. sched' \in Seq(Items)
    BY <1>1, <2>2, <2>3, InsertNew, SMTT(30) DEF TypeOK
  <2>5. queue' \in Seq(Items)
    BY <1>1, <1>5 DEF WriteAt, TypeOK
  <2> QED
    BY <1>2, <2>1, <2>4, <2>5 DEF TypeOK
<1>6. CASE BeginShutdown
  <2>1. pc' \in [Agents -> Points] /\ wait' \in [Waiters -> WaitPoints]
    BY <1>1, <1>6, Notified DEF BeginShutdown, TypeOK
  <2> QED
    BY <1>1, <1>6, <2>1 DEF BeginShutdown, TypeOK, io, acct, ClosePoints
<1>7. CASE SpuriousWake \/ Alarm
  BY <1>1, <1>7 DEF SpuriousWake, Alarm, Goto, TypeOK, io, acct, waiting, Points
<1>8. CASE CloserStep
  BY <1>1, <1>8 DEF CloserStep, Join, CloseQueue, AwaitInflight, TypeOK, io, acct, agents,
                    waiting, ClosePoints
<1>9. ASSUME NEW r \in Readers, ReadCall(r) PROVE TypeOK'
  BY <1>1, <1>9 DEF ReadCall, Goto, TypeOK, io, acct, waiting, Points, Agents
<1>10. ASSUME NEW w \in Waiters, WaitCall(w) \/ SpuriousTest(w) \/ WaiterStep(w) PROVE TypeOK'
  <2>1. wait' \in [Waiters -> WaitPoints] /\ snapshot' \in [Waiters -> Nat]
    BY <1>1, <1>10, ZenonT(40) DEF WaitCall, SpuriousTest, WaiterStep, QueueEmpty, WaitTest, TypeOK, WaitPoints
  <2>2. UNCHANGED <<now, io, queueShut, acct, shut, agents, closer>>
    BY <1>10 DEF WaitCall, SpuriousTest, WaiterStep, QueueEmpty, WaitTest
  <2> QED
    BY <1>1, <2>1, <2>2 DEF TypeOK, io, acct, agents
<1>11. ASSUME NEW a \in Agents, Gate(a) \/ BatchDone(a) \/ RunThrows(a) \/ Check PROVE TypeOK'
  BY <1>1, <1>11 DEF Gate, BatchDone, RunThrows, Check, Goto, TypeOK, io, acct, waiting, Points
<1>12. ASSUME NEW a \in Agents, Pop(a) PROVE TypeOK'
  <2>1. PICK n \in 0 .. Len(queue) :
           /\ hand' = [hand EXCEPT ![a] = SubSeq(queue, 1, n)]
           /\ queue' = SubSeq(queue, n + 1, Len(queue))
           /\ popCount' = popCount + n
    <3> DEFINE m == IF Len(queue) < Wanted(a) THEN Len(queue) ELSE Wanted(a)
    <3>1. m \in 0 .. Len(queue)
      BY <1>1 DEF TypeOK, Wanted
    <3> QED
      BY <1>12, <3>1 DEF Pop
  <2>2. SubSeq(queue, 1, n) \in Seq(Items) /\ queue' \in Seq(Items)
    BY <1>1, <2>1, SplitSeq DEF TypeOK
  <2>3. popCount' \in Nat /\ hand' \in [Agents -> Seq(Items)]
    BY <1>1, <2>1, <2>2 DEF TypeOK
  <2> QED
    BY <1>1, <1>12, <2>2, <2>3 DEF Pop, Goto, TypeOK, acct, waiting, Points
<1>13. ASSUME NEW a \in Agents, RunItem(a) PROVE TypeOK'
  <2>1. Head(hand[a]) \in Items /\ Tail(hand[a]) \in Seq(Items)
    BY <1>1, <1>13, TailRest DEF RunItem, TypeOK
  <2>2. log' \in Seq(Items) /\ hand' \in [Agents -> Seq(Items)] /\ done' \in [Agents -> Nat]
    BY <1>1, <1>13, <2>1, SMTT(30) DEF RunItem, TypeOK
  <2> QED
    BY <1>1, <1>13, <2>2 DEF RunItem, TypeOK, io, waiting
<1>14. ASSUME NEW a \in Agents, Account(a) PROVE TypeOK'
  <2>1. wait' \in [Waiters -> WaitPoints] /\ pc' \in [Agents -> Points]
    BY <1>1, <1>14, Notified DEF Account, Goto, TypeOK, Points
  <2>2. count' \in Nat /\ done' \in [Agents -> Nat]
    BY <1>1, <1>14 DEF Account, TypeOK
  <2> QED
    BY <1>1, <1>14, <2>1, <2>2 DEF Account, TypeOK, io
<1>15. ASSUME NEW a \in Agents, Fail(a) PROVE TypeOK'
  <2>1. wait' \in [Waiters -> WaitPoints] /\ pc' \in [Agents -> Points]
    BY <1>1, <1>15, Notified DEF Fail, TypeOK, Points
  <2>2. count' \in Nat /\ done' \in [Agents -> Nat] /\ hand' \in [Agents -> Seq(Items)]
    BY <1>1, <1>15 DEF Fail, TypeOK
  <2> QED
    BY <1>1, <1>15, <2>1, <2>2 DEF Fail, TypeOK, io
<1>16. CASE Select
  <2>1. /\ hand' \in [Agents -> Seq(Items)] /\ done' \in [Agents -> Nat]
        /\ pc' \in [Agents -> Points] /\ alarm' \in 0 .. NoAlarm
        /\ queue' \in Seq(Items) /\ sched' \in Seq(Items) /\ popCount' \in Nat
        /\ UNCHANGED <<submitted, due>>
    <3>1. CASE Quit /\ UNCHANGED io
      BY <1>1, <3>1 DEF Quit, Goto, TypeOK, io, Points
    <3>2. CASE queue # <<>> /\ Take(Head(queue)) /\ queue' = Tail(queue)
               /\ popCount' = popCount + 1 /\ UNCHANGED <<sched, submitted, due>>
      <4>1. Head(queue) \in Items /\ Tail(queue) \in Seq(Items)
        BY <1>1, <3>2, TailRest DEF TypeOK
      <4> QED
        BY <1>1, <3>2, <4>1 DEF Take, Goto, TypeOK, Points
    <3>3. CASE sched # <<>> /\ Take(Head(sched)) /\ sched' = Tail(sched)
               /\ UNCHANGED <<queue, popCount, submitted, due>>
      <4>1. Head(sched) \in Items /\ Tail(sched) \in Seq(Items)
        BY <1>1, <3>3, TailRest DEF TypeOK
      <4> QED
        BY <1>1, <3>3, <4>1 DEF Take, Goto, TypeOK, Points
    <3>4. CASE sched # <<>> /\ Sleep(due[Head(sched)]) /\ UNCHANGED io
      <4>1. Head(sched) \in Range(sched) /\ Head(sched) \in 1 .. submitted
        BY <1>1, <3>4, TailRest DEF TypeOK, EachItemOnce
      <4>2. due[Head(sched)] \in 0 .. MaxTime
        BY <1>1, <4>1, SMTT(30) DEF TypeOK, ItemsPlaced
      <4> QED
        BY <1>1, <3>4, <4>2 DEF Sleep, Goto, TypeOK, Points, NoAlarm, io
    <3>5. CASE Sleep(NoAlarm) /\ UNCHANGED io
      BY <1>1, <3>5 DEF Sleep, Goto, TypeOK, Points, NoAlarm, io
    <3> QED
      BY <1>16, <3>1, <3>2, <3>3, <3>4, <3>5 DEF Select
  <2> QED
    BY <1>1, <1>16, <2>1 DEF Select, TypeOK, acct, waiting
<1>17. CASE UNCHANGED vars
  BY <1>1, <1>17 DEF vars, TypeOK, io, acct, agents, waiting
<1> QED
  BY <1>3, <1>4, <1>5, <1>6, <1>7, <1>8, <1>9, <1>10, <1>11, <1>12, <1>13, <1>14, <1>15, <1>16,
     <1>17 DEF Next, Environment, AgentStep

\* Every step keeps each item in one place.
LEMMA ItemsStep ==
  ASSUME PipeInv, [Next]_vars
  PROVE  EachItemOnce' /\ ItemsPlaced'
<1>1. TypeOK /\ Worker \in Agents
  BY DEF PipeInv, Agents
<1>2. CASE Tick \/ BeginShutdown \/ SpuriousWake \/ Alarm \/ Check \/ CloserStep
  BY <1>2, SameItems DEF Tick, BeginShutdown, SpuriousWake, Alarm, Check, CloserStep, Join,
                         CloseQueue, AwaitInflight, io, acct, agents
<1>3. CASE Write
  BY <1>3, WriteItems
<1>4. CASE WriteAt
  BY <1>4, WriteAtItems DEF WriteAt
<1>5. ASSUME NEW r \in Readers, ReadCall(r) PROVE EachItemOnce' /\ ItemsPlaced'
  BY <1>5, SameItems DEF ReadCall, io, acct
<1>6. ASSUME NEW w \in Waiters, WaitCall(w) \/ SpuriousTest(w) \/ WaiterStep(w)
      PROVE  EachItemOnce' /\ ItemsPlaced'
  BY <1>6, SameItems DEF WaitCall, SpuriousTest, WaiterStep, QueueEmpty, WaitTest, io, acct, agents
<1>7. ASSUME NEW a \in Agents, Gate(a) \/ BatchDone(a) \/ RunThrows(a) \/ Account(a)
      PROVE  EachItemOnce' /\ ItemsPlaced'
  BY <1>7, SameItems DEF Gate, BatchDone, RunThrows, Account, io, acct
<1>8. ASSUME NEW a \in Agents, Pop(a) PROVE EachItemOnce' /\ ItemsPlaced'
  <2>1. PICK n \in 0 .. Len(queue) :
           /\ hand' = [hand EXCEPT ![a] = SubSeq(queue, 1, n)]
           /\ queue' = SubSeq(queue, n + 1, Len(queue))
    <3> DEFINE m == IF Len(queue) < Wanted(a) THEN Len(queue) ELSE Wanted(a)
    <3>1. m \in 0 .. Len(queue)
      BY <1>1, PipeAssumption DEF TypeOK, Wanted
    <3> QED
      BY <1>8, <3>1 DEF Pop
  <2>2. hand[a] = <<>>
    BY <1>8 DEF Pop, PipeInv, AgentsInLoop
  <2>3. UNCHANGED <<sched, log, submitted, due, failure>>
    BY <1>8 DEF Pop, acct
  <2> QED
    BY <2>1, <2>2, <2>3, PopItems
<1>9. ASSUME NEW a \in Agents, RunItem(a) PROVE EachItemOnce' /\ ItemsPlaced'
  BY <1>9, RunItems
<1>10. ASSUME NEW a \in Agents, Fail(a) PROVE EachItemOnce' /\ ItemsPlaced'
  BY <1>10, FailItems
<1>11. CASE Select
  <2>1. hand[Worker] = <<>> /\ UNCHANGED <<log, failure>>
    BY <1>1, <1>11 DEF Select, PipeInv, AgentsInLoop, acct
  <2>2. CASE Quit /\ UNCHANGED io
    BY <2>1, <2>2, SameItems DEF Quit, io
  <2>3. ASSUME NEW d, Sleep(d), UNCHANGED io PROVE EachItemOnce' /\ ItemsPlaced'
    BY <2>1, <2>3, SameItems DEF Sleep, io
  <2>4. CASE queue # <<>> /\ Take(Head(queue)) /\ queue' = Tail(queue)
             /\ UNCHANGED <<sched, submitted, due>>
    BY <2>1, <2>4, TakeItems DEF Take
  <2>5. CASE sched # <<>> /\ Take(Head(sched)) /\ sched' = Tail(sched)
             /\ UNCHANGED <<queue, submitted, due>>
    BY <2>1, <2>5, TakeItems DEF Take
  <2> QED
    BY <1>11, <2>2, <2>3, <2>4, <2>5 DEF Select
<1>12. CASE UNCHANGED vars
  BY <1>12, SameItems DEF vars, io, acct, agents
<1> QED
  BY <1>2, <1>3, <1>4, <1>5, <1>6, <1>7, <1>8, <1>9, <1>10, <1>11, <1>12
     DEF Next, Environment, AgentStep

\* Every step keeps the agents in their loops.
LEMMA LoopStep ==
  ASSUME PipeInv, [Next]_vars
  PROVE  AgentsInLoop'
<1> USE PipeAssumption DEF PipeInv
<1>1. TypeOK /\ AgentsInLoop /\ Worker \in Agents /\ Readers \subseteq Agents
  BY DEF Agents
<1>2. ASSUME pc' = WorkNotified \/ pc' = pc, UNCHANGED <<hand, done>>, Scheduled \/ UNCHANGED sched
      PROVE  AgentsInLoop'
  BY <1>1, <1>2, Notified DEF AgentsInLoop
<1>3. CASE Tick \/ Write \/ BeginShutdown \/ CloserStep
  BY <1>2, <1>3 DEF Tick, Write, Accept, BeginShutdown, CloserStep, Join, CloseQueue, AwaitInflight,
                    io, agents
<1>4. CASE WriteAt
  BY <1>2, <1>4 DEF WriteAt, Accept
<1>5. ASSUME NEW w \in Waiters, WaitCall(w) \/ SpuriousTest(w) \/ WaiterStep(w) PROVE AgentsInLoop'
  BY <1>2, <1>5 DEF WaitCall, SpuriousTest, WaiterStep, QueueEmpty, WaitTest, io, agents
<1>6. CASE SpuriousWake \/ Alarm \/ Check
  <2>1. \A a \in Agents : pc'[a] = IF a = Worker THEN pc'[Worker] ELSE pc[a]
    BY <1>1, <1>6 DEF SpuriousWake, Alarm, Check, Goto, TypeOK
  <2>2. UNCHANGED <<hand, done, sched>>
    BY <1>6 DEF SpuriousWake, Alarm, Check, io
  <2>3. /\ pc[Worker] \in {"sleep", "check"}
        /\ pc'[Worker] \in IF pc[Worker] = "sleep" THEN {"select"} ELSE {"exited", "gate"}
    BY <1>1, <1>6 DEF SpuriousWake, Alarm, Check, Goto, TypeOK
  <2> QED
    BY <1>1, <2>1, <2>2, <2>3 DEF AgentsInLoop
<1>7. ASSUME NEW r \in Readers, ReadCall(r) PROVE AgentsInLoop'
  <2>1. \A a \in Agents : pc'[a] = IF a = r THEN "gate" ELSE pc[a]
    BY <1>1, <1>7 DEF ReadCall, Goto, TypeOK
  <2> QED
    BY <1>1, <1>7, <2>1 DEF ReadCall, io, AgentsInLoop
<1>8. ASSUME NEW a \in Agents, Gate(a) \/ BatchDone(a) \/ RunThrows(a) PROVE AgentsInLoop'
  <2>1. \A b \in Agents : pc'[b] = IF b = a THEN pc'[a] ELSE pc[b]
    BY <1>1, <1>8 DEF Gate, BatchDone, RunThrows, Goto, TypeOK
  <2>2. UNCHANGED <<hand, done, sched>>
    BY <1>8 DEF Gate, BatchDone, RunThrows, io
  <2>3. \/ /\ pc[a] = "gate"
           /\ pc'[a] \in {"pop"} \cup IF a = Worker THEN {"fail"} ELSE {"idle"}
        \/ pc[a] = "run" /\ hand[a] = <<>> /\ pc'[a] = "account"
        \/ pc[a] = "run" /\ pc'[a] = "fail"
    BY <1>1, <1>8 DEF Gate, BatchDone, RunThrows, Goto, TypeOK
  <2> QED
    BY <1>1, <2>1, <2>2, <2>3 DEF AgentsInLoop, Agents
<1>9. ASSUME NEW a \in Agents, Pop(a) PROVE AgentsInLoop'
  <2>1. \A b \in Agents : pc'[b] = IF b = a THEN "run" ELSE pc[b]
    BY <1>1, <1>9 DEF Pop, Goto, TypeOK
  <2>2. \A b \in Agents : b # a => hand'[b] = hand[b] /\ done'[b] = done[b]
    BY <1>1, <1>9 DEF Pop, TypeOK
  <2>3. pc[a] = "pop" /\ UNCHANGED sched
    BY <1>9 DEF Pop
  <2>4. Scheduled => a # Worker
    BY <1>1, <2>3 DEF AgentsInLoop
  <2> QED
    BY <1>1, <2>1, <2>2, <2>3, <2>4 DEF AgentsInLoop
<1>10. ASSUME NEW a \in Agents, RunItem(a) PROVE AgentsInLoop'
  <2>1. UNCHANGED <<pc, sched>> /\ pc[a] = "run"
    BY <1>10 DEF RunItem, io
  <2>2. \A b \in Agents : b # a => hand'[b] = hand[b] /\ done'[b] = done[b]
    BY <1>1, <1>10 DEF RunItem, TypeOK
  <2>3. Scheduled /\ a = Worker => Len(hand'[a]) <= 1
    <3>1. hand[a] \in Seq(Items) /\ hand[a] # <<>> /\ hand'[a] = Tail(hand[a])
      BY <1>1, <1>10 DEF RunItem, TypeOK
    <3>2. Len(hand'[a]) = Len(hand[a]) - 1 /\ Len(hand[a]) \in Nat
      BY <3>1
    <3> QED
      BY <1>1, <3>2 DEF AgentsInLoop
  <2> QED
    BY <1>1, <2>1, <2>2, <2>3 DEF AgentsInLoop
<1>11. ASSUME NEW a \in Agents, Account(a) PROVE AgentsInLoop'
  <2>1. /\ \A b \in Agents : pc'[b] = IF b = a THEN pc'[a] ELSE pc[b]
        /\ pc'[a] = IF a # Worker THEN "idle" ELSE IF Scheduled THEN "select" ELSE "check"
    BY <1>1, <1>11 DEF Account, Goto, TypeOK
  <2>2. \A b \in Agents : done'[b] = IF b = a THEN 0 ELSE done[b]
    BY <1>1, <1>11 DEF Account, TypeOK
  <2>3. pc[a] = "account" /\ UNCHANGED <<hand, sched>>
    BY <1>11 DEF Account, io
  <2> QED
    BY <1>1, <2>1, <2>2, <2>3 DEF AgentsInLoop
<1>12. ASSUME NEW a \in Agents, Fail(a) PROVE AgentsInLoop'
  <2>1. \A b \in Agents : pc'[b] = IF b = a THEN IF a = Worker THEN "exited" ELSE "idle"
                                   ELSE IF b = Worker /\ pc[b] = "sleep" THEN "select" ELSE pc[b]
    BY <1>1, <1>12, Notified DEF Fail, TypeOK
  <2>2. \A b \in Agents : done'[b] = IF b = a THEN 0 ELSE done[b]
    BY <1>1, <1>12 DEF Fail, TypeOK
  <2>3. \A b \in Agents : hand'[b] = IF b = a /\ a # Worker THEN <<>> ELSE hand[b]
    BY <1>1, <1>12 DEF Fail, TypeOK
  <2>4. UNCHANGED sched
    BY <1>12 DEF Fail, io
  <2> QED
    BY <1>1, <2>1, <2>2, <2>3, <2>4 DEF AgentsInLoop
<1>13. CASE Select
  <2>1. pc[Worker] = "select" /\ Scheduled /\ hand[Worker] = <<>> /\ done[Worker] = 0
    BY <1>1, <1>13 DEF Select, AgentsInLoop
  <2>2. /\ \A b \in Agents : b # Worker => pc'[b] = pc[b] /\ hand'[b] = hand[b] /\ done'[b] = done[b]
        /\ done'[Worker] = 0
        /\ \/ pc'[Worker] = "run" /\ \E x : hand'[Worker] = <<x>>
           \/ pc'[Worker] \in {"exited", "sleep"} /\ hand'[Worker] = <<>>
    BY <1>1, <1>13, <2>1 DEF Select, Take, Quit, Sleep, Goto, TypeOK
  <2>3. Len(hand'[Worker]) <= 1
    <3>1. \A x : Len(<<x>>) <= 1 /\ Len(<<>>) <= 1
      OBVIOUS
    <3> QED
      BY <2>2, <3>1, Zenon
  <2>4. /\ pc'[Worker] \in {"run", "exited", "sleep"} /\ done'[Worker] = 0
        /\ pc'[Worker] # "run" => hand'[Worker] = <<>>
    BY <2>2
  <2>5. \A a \in Agents : /\ pc'[a] \notin {"run", "fail", "exited"} => hand'[a] = <<>>
                          /\ pc'[a] \notin {"run", "account", "fail"} => done'[a] = 0
    BY <1>1, <2>2, <2>4 DEF AgentsInLoop
  <2>6. \A r \in Readers : pc'[r] = pc[r]
    BY <1>1, <2>2
  <2> QED
    BY <1>1, <2>1, <2>3, <2>4, <2>5, <2>6 DEF AgentsInLoop
<1>14. CASE UNCHANGED vars
  BY <1>2, <1>14 DEF vars, io, agents
<1> QED
  BY <1>3, <1>4, <1>5, <1>6, <1>7, <1>8, <1>9, <1>10, <1>11, <1>12, <1>13, <1>14
     DEF Next, Environment, AgentStep

\* Every step keeps the order of the shutdown and the worker's end.
LEMMA EndsStep ==
  ASSUME PipeInv, [Next]_vars
  PROVE  WorkerEndsLast'
<1> USE DEF PipeInv
<1>1. TypeOK /\ AgentsInLoop /\ WorkerEndsLast /\ Worker \in Agents
  BY DEF Agents
\* The worker stays where it is, or is woken.
<1>2. ASSUME pc'[Worker] = pc[Worker] \/ (pc[Worker] = "sleep" /\ pc'[Worker] = "select"),
             UNCHANGED <<shut, closer, failure>>, hand'[Worker] = hand[Worker],
             queue = <<>> => queue' = <<>>, sched = <<>> => sched' = <<>>
      PROVE  WorkerEndsLast'
  BY <1>1, <1>2 DEF WorkerEndsLast
<1>3. ASSUME NEW d, Accept(d) PROVE WorkerEndsLast'
  <2>1. CASE Scheduled
    <3>1. pc'[Worker] = IF pc[Worker] = "sleep" THEN "select" ELSE pc[Worker]
      BY <1>1, <1>3, <2>1, Notified DEF Accept
    <3>2. ~shut /\ UNCHANGED <<shut, closer, failure, hand>>
      BY <1>3, <2>1 DEF Accept, Accepting, acct
    <3> QED
      BY <1>1, <3>1, <3>2 DEF WorkerEndsLast
  <2>2. CASE ~Scheduled
    BY <1>1, <1>3, <2>2 DEF Accept, WorkerEndsLast
  <2> QED
    BY <2>1, <2>2
<1>4. CASE Write \/ WriteAt
  BY <1>3, <1>4 DEF Write, WriteAt
<1>5. CASE Tick
  BY <1>2, <1>5 DEF Tick, io, acct, agents
<1>6. CASE SpuriousWake \/ Alarm
  BY <1>1, <1>2, <1>6 DEF SpuriousWake, Alarm, Goto, TypeOK, io, acct
<1>7. ASSUME NEW w \in Waiters, WaitCall(w) \/ SpuriousTest(w) \/ WaiterStep(w) PROVE WorkerEndsLast'
  BY <1>2, <1>7 DEF WaitCall, SpuriousTest, WaiterStep, QueueEmpty, WaitTest, io, acct, agents
<1>8. ASSUME NEW r \in Readers, ReadCall(r) PROVE WorkerEndsLast'
  BY <1>1, <1>2, <1>8, PipeAssumption DEF ReadCall, Goto, TypeOK, io, acct, Agents
<1>9. CASE BeginShutdown
  <2>1. pc'[Worker] = pc[Worker] \/ (pc[Worker] = "sleep" /\ pc'[Worker] = "select")
    BY <1>1, <1>9, Notified DEF BeginShutdown
  <2>2. closer' \in {"join", "closeQueue"} /\ (Scheduled => closer' = "join") /\ shut'
    BY <1>9 DEF BeginShutdown
  <2> QED
    BY <1>1, <1>9, <2>1, <2>2 DEF BeginShutdown, io, acct, WorkerEndsLast
<1>10. CASE CloserStep
  <2>1. UNCHANGED <<queue, sched, hand, failure, shut, pc>>
    BY <1>10 DEF CloserStep, Join, CloseQueue, AwaitInflight, io, acct, agents
  <2>2. /\ closer # "idle" /\ closer' # "idle"
        /\ Scheduled /\ closer' \in {"closeQueue", "awaitInflight", "returned"} =>
             \/ pc[Worker] = "exited"
             \/ closer \in {"closeQueue", "awaitInflight", "returned"}
    BY <1>10 DEF CloserStep, Join, CloseQueue, AwaitInflight
  <2> QED
    BY <1>1, <2>1, <2>2 DEF WorkerEndsLast
\* A step of an agent: the worker is not beyond its end.
<1>11. ASSUME NEW a \in Agents, \A b \in Agents : b # a => pc'[b] = pc[b] /\ hand'[b] = hand[b],
              pc[a] # "exited", a = Worker /\ Scheduled => pc'[a] # "exited",
              UNCHANGED <<shut, closer, failure>>,
              queue = <<>> => queue' = <<>>, sched = <<>> => sched' = <<>>
       PROVE  WorkerEndsLast'
  BY <1>1, <1>11 DEF WorkerEndsLast
<1>12. ASSUME NEW a \in Agents,
              Gate(a) \/ BatchDone(a) \/ RunThrows(a) \/ Account(a) \/ RunItem(a)
       PROVE  WorkerEndsLast'
  <2>1. /\ \A b \in Agents : b # a => pc'[b] = pc[b] /\ hand'[b] = hand[b]
        /\ pc[a] # "exited" /\ (a = Worker => pc'[a] # "exited")
    BY <1>1, <1>12 DEF Gate, BatchDone, RunThrows, Account, RunItem, Goto, TypeOK
  <2>2. UNCHANGED <<shut, closer, failure, queue, sched>>
    BY <1>12 DEF Gate, BatchDone, RunThrows, Account, RunItem, io, acct
  <2> QED
    BY <1>11, <2>1, <2>2
<1>13. ASSUME NEW a \in Agents, Pop(a) PROVE WorkerEndsLast'
  <2>1. /\ \A b \in Agents : b # a => pc'[b] = pc[b] /\ hand'[b] = hand[b]
        /\ pc[a] # "exited" /\ pc'[a] = "run"
    BY <1>1, <1>13 DEF Pop, Goto, TypeOK
  <2>2. UNCHANGED <<shut, closer, failure, sched>>
    BY <1>13 DEF Pop, acct
  <2>3. ASSUME queue = <<>> PROVE queue' = <<>>
    <3>1. PICK n \in 0 .. Len(queue) : queue' = SubSeq(queue, n + 1, Len(queue))
      <4> DEFINE m == IF Len(queue) < Wanted(a) THEN Len(queue) ELSE Wanted(a)
      <4>1. m \in 0 .. Len(queue)
        BY <1>1, PipeAssumption DEF TypeOK, Wanted
      <4> QED
        BY <1>13, <4>1 DEF Pop
    <3>2. queue' = SubSeq(queue, 1, 0)
      BY <2>3, <3>1
    <3> QED
      BY <3>2, SubSeqEmpty
  <2> QED
    BY <1>11, <2>1, <2>2, <2>3
<1>14. CASE Check
  BY <1>1, <1>11, <1>14 DEF Check, Goto, TypeOK, io, acct, AgentsInLoop
<1>15. ASSUME NEW a \in Agents, Fail(a) PROVE WorkerEndsLast'
  <2>1. pc[Worker] = "exited" => pc'[Worker] = "exited"
    BY <1>1, <1>15, Notified DEF Fail
  <2>2. failure' /\ UNCHANGED <<shut, closer>>
    BY <1>15 DEF Fail
  <2> QED
    BY <1>1, <2>1, <2>2 DEF WorkerEndsLast
<1>16. CASE Select
  <2>1. pc[Worker] = "select" /\ UNCHANGED <<shut, closer, failure>> /\ hand[Worker] = <<>>
    BY <1>1, <1>16 DEF Select, AgentsInLoop, acct
  <2>2. Scheduled => closer \notin {"closeQueue", "awaitInflight", "returned"}
    BY <1>1, <2>1 DEF WorkerEndsLast
  <2>3. CASE Quit /\ UNCHANGED io /\ (failure \/ (queue = <<>> /\ sched = <<>> /\ shut))
    BY <1>1, <2>1, <2>2, <2>3 DEF Quit, io, WorkerEndsLast
  <2>4. ASSUME NEW x, Take(x) \/ Sleep(x) PROVE WorkerEndsLast'
    <3>1. pc'[Worker] # "exited"
      BY <1>1, <2>4 DEF Take, Sleep, Goto, TypeOK
    <3> QED
      BY <1>1, <2>1, <2>2, <3>1 DEF WorkerEndsLast
  <2> QED
    BY <1>16, <2>3, <2>4 DEF Select
<1>17. CASE UNCHANGED vars
  BY <1>2, <1>17 DEF vars, io, acct, agents
<1> QED
  BY <1>4, <1>5, <1>6, <1>7, <1>8, <1>9, <1>10, <1>12, <1>13, <1>14, <1>15, <1>16, <1>17
     DEF Next, Environment, AgentStep

\* A worker that goes to sleep has nothing to do, and whoever gives it something
\* wakes it.
LEMMA SleepStep ==
  ASSUME PipeInv, [Next]_vars
  PROVE  SleepsSoundly'
<1> USE DEF PipeInv
<1>1. TypeOK /\ SleepsSoundly /\ Worker \in Agents
  BY DEF Agents
<1>2. SUFFICES ASSUME pc'[Worker] = "sleep" PROVE SleepsSoundly'
  BY DEF SleepsSoundly
<1>3. ASSUME pc[Worker] = "sleep", UNCHANGED <<sched, due, alarm, failure, shut>>,
             queue = <<>> => queue' = <<>>
      PROVE  SleepsSoundly'
  BY <1>1, <1>3 DEF SleepsSoundly
<1>4. CASE Write \/ WriteAt
  <2>1. PICK d : Accept(d)
    BY <1>4 DEF Write, WriteAt
  <2>2. FALSE
    <3>1. CASE Scheduled
      BY <1>1, <1>2, <2>1, <3>1, Notified DEF Accept
    <3>2. CASE ~Scheduled
      BY <1>2, <2>1, <3>2 DEF Accept, AgentsInLoop
    <3> QED
      BY <3>1, <3>2
  <2> QED
    BY <2>2
<1>5. CASE BeginShutdown
  <2>1. FALSE
    <3>1. CASE Scheduled
      BY <1>1, <1>2, <1>5, <3>1, Notified DEF BeginShutdown
    <3>2. CASE ~Scheduled
      BY <1>2, <1>5, <3>2 DEF BeginShutdown, AgentsInLoop
    <3> QED
      BY <3>1, <3>2
  <2> QED
    BY <2>1
<1>6. CASE Tick \/ CloserStep
  BY <1>2, <1>3, <1>6 DEF Tick, CloserStep, Join, CloseQueue, AwaitInflight, io, acct, agents
<1>7. ASSUME NEW w \in Waiters, WaitCall(w) \/ SpuriousTest(w) \/ WaiterStep(w) PROVE SleepsSoundly'
  BY <1>2, <1>3, <1>7 DEF WaitCall, SpuriousTest, WaiterStep, QueueEmpty, WaitTest, io, acct, agents
<1>8. CASE SpuriousWake \/ Alarm \/ Check
  BY <1>1, <1>2, <1>8 DEF SpuriousWake, Alarm, Check, Goto, TypeOK
<1>9. ASSUME NEW r \in Readers, ReadCall(r) PROVE SleepsSoundly'
  BY <1>1, <1>2, <1>3, <1>9, PipeAssumption DEF ReadCall, Goto, TypeOK, io, acct, Agents
<1>10. ASSUME NEW a \in Agents,
              Gate(a) \/ BatchDone(a) \/ RunThrows(a) \/ Account(a) \/ RunItem(a)
       PROVE  SleepsSoundly'
  <2>1. pc[Worker] = "sleep"
    BY <1>1, <1>2, <1>10 DEF Gate, BatchDone, RunThrows, Account, RunItem, Goto, TypeOK
  <2>2. UNCHANGED <<queue, sched, due, alarm, failure, shut>>
    BY <1>10 DEF Gate, BatchDone, RunThrows, Account, RunItem, io, acct
  <2> QED
    BY <1>3, <2>1, <2>2
<1>11. ASSUME NEW a \in Agents, Pop(a) PROVE SleepsSoundly'
  <2>1. pc[Worker] = "sleep"
    BY <1>1, <1>2, <1>11 DEF Pop, Goto, TypeOK
  <2>2. UNCHANGED <<sched, due, alarm, failure, shut>>
    BY <1>11 DEF Pop, acct
  <2>3. ASSUME queue = <<>> PROVE queue' = <<>>
    <3>1. PICK n \in 0 .. Len(queue) : queue' = SubSeq(queue, n + 1, Len(queue))
      <4> DEFINE m == IF Len(queue) < Wanted(a) THEN Len(queue) ELSE Wanted(a)
      <4>1. m \in 0 .. Len(queue)
        BY <1>1, PipeAssumption DEF TypeOK, Wanted
      <4> QED
        BY <1>11, <4>1 DEF Pop
    <3>2. queue' = SubSeq(queue, 1, 0)
      BY <2>3, <3>1
    <3> QED
      BY <3>2, SubSeqEmpty
  <2> QED
    BY <1>3, <2>1, <2>2, <2>3
<1>12. ASSUME NEW a \in Agents, Fail(a) PROVE SleepsSoundly'
  BY <1>1, <1>2, <1>12, Notified DEF Fail
<1>13. CASE Select
  <2>1. CASE ~failure /\ queue = <<>> /\ sched # <<>> /\ Sleep(due[Head(sched)]) /\ UNCHANGED io
    <3>1. sched \in Seq(Items) /\ DOMAIN sched = 1 .. Len(sched) /\ Len(sched) \in Nat \ {0}
          /\ Head(sched) = sched[1]
      BY <1>1, <2>1 DEF TypeOK
    <3>2. \A i \in 1 .. Len(sched) : sched[i] \in 1 .. submitted /\ due[sched[i]] \in Nat
      <4>1. \A i \in 1 .. Len(sched) : sched[i] \in Range(sched)
        BY <3>1 DEF Range
      <4>2. \A i \in Range(sched) : i \in 1 .. submitted /\ due[i] # Immediate
        BY DEF EachItemOnce, ItemsPlaced
      <4>3. \A i \in 1 .. submitted : due[i] \in {Immediate} \cup (0 .. MaxTime)
        BY <1>1 DEF TypeOK, ItemsPlaced
      <4> QED
        BY <4>1, <4>2, <4>3, PipeAssumption
    <3>3. \A i \in 1 .. Len(sched) : due[sched[1]] <= due[sched[i]]
      <4>1. \A i \in 1 .. Len(sched) : Before(sched[1], sched[i])
        BY <3>1 DEF ItemsPlaced
      <4> QED
        BY <3>1, <3>2, <4>1 DEF Before
    <3>4. \A i \in Range(sched) : due[Head(sched)] <= due[i]
      BY <3>1, <3>3 DEF Range
    <3> QED
      BY <1>13, <2>1, <3>4 DEF Select, Sleep, SleepsSoundly, io, acct
  <2>2. CASE ~failure /\ queue = <<>> /\ sched = <<>> /\ ~shut /\ Sleep(NoAlarm) /\ UNCHANGED io
    BY <1>13, <2>2, NoItem DEF Select, Sleep, SleepsSoundly, io, acct
  <2>3. CASE Quit
    BY <1>1, <1>2, <2>3 DEF Quit, Goto, TypeOK
  <2>4. ASSUME NEW x, Take(x) PROVE FALSE
    BY <1>1, <1>2, <2>4 DEF Take, Goto, TypeOK
  <2> QED
    BY <1>13, <2>1, <2>2, <2>3, <2>4 DEF Select
<1>14. CASE UNCHANGED vars
  BY <1>2, <1>3, <1>14 DEF vars, io, acct, agents
<1> QED
  BY <1>4, <1>5, <1>6, <1>7, <1>8, <1>9, <1>10, <1>11, <1>12, <1>13, <1>14
     DEF Next, Environment, AgentStep

\* The lengths of the log, the hand and the queue when an item enters or moves on.
LEMMA Lengths ==
  ASSUME NEW l \in Nat, NEW h \in Nat, NEW q \in Nat
  PROVE  /\ (l + h + q) + 1 = l + h + (q + 1)
         /\ (l + h + q) = (l + 1) + (h - 1) + q
  OBVIOUS

\* Every step of a pipe with one consumer keeps its counter exact, and the order
\* of an ordinary one.
LEMMA FifoStep ==
  ASSUME PipeInv, [Next]_vars
  PROVE  OneReaderFifo'
<1> USE DEF PipeInv
<1> SUFFICES ASSUME Readers = {} PROVE OneReaderFifo'
  BY DEF OneReaderFifo
<1>1. /\ TypeOK /\ AgentsInLoop /\ Agents = {Worker}
      /\ count + done[Worker] = Len(log)
      /\ count \in Nat /\ done[Worker] \in Nat /\ log \in Seq(Items) /\ hand[Worker] \in Seq(Items)
      /\ queue \in Seq(Items) /\ submitted \in Nat
  BY DEF OneReaderFifo, TypeOK, Agents
<1> DEFINE InOrder == /\ \A i \in 1 .. Len(log) : log[i] = i
                      /\ \A i \in 1 .. Len(hand[Worker]) : hand[Worker][i] = Len(log) + i
                      /\ \A i \in 1 .. Len(queue) : queue[i] = Len(log) + Len(hand[Worker]) + i
                      /\ submitted = Len(log) + Len(hand[Worker]) + Len(queue)
<1>2. ~Scheduled => InOrder /\ SnapshotDone
  BY DEF OneReaderFifo
<1>19. Len(log) \in Nat /\ Len(hand[Worker]) \in Nat /\ Len(queue) \in Nat
  BY <1>1
<1>20. /\ ~Scheduled => \A i \in 1 .. Len(log) : log[i] = i
       /\ ~Scheduled => \A i \in 1 .. Len(hand[Worker]) : hand[Worker][i] = Len(log) + i
       /\ ~Scheduled => \A i \in 1 .. Len(queue) : queue[i] = Len(log) + Len(hand[Worker]) + i
  BY <1>2, Zenon
<1>21. ~Scheduled => submitted = Len(log) + Len(hand[Worker]) + Len(queue)
  BY <1>2, Zenon
\* What waitForEmpty() has seen processed stays processed.
<1>3. ASSUME SnapshotDone, Range(log) \subseteq Range(log'),
             \A w \in Waiters : wait'[w] = "drained" => wait[w] = "drained" /\ snapshot'[w] = snapshot[w]
      PROVE  SnapshotDone'
  BY <1>3 DEF SnapshotDone
<1>4. \A w \in Waiters : EmptyNotified[w] = "drained" => wait[w] = "drained"
  BY <1>1, Notified
\* Steps that touch none of it.
<1>5. ASSUME UNCHANGED <<count, done, log, hand, queue, submitted>>,
             \A w \in Waiters : wait'[w] = "drained" => wait[w] = "drained" /\ snapshot'[w] = snapshot[w]
      PROVE  OneReaderFifo'
  BY <1>1, <1>2, <1>3, <1>5 DEF OneReaderFifo
<1>6. CASE Tick \/ CloserStep \/ SpuriousWake \/ Alarm \/ Check
  BY <1>5, <1>6 DEF Tick, CloserStep, Join, CloseQueue, AwaitInflight, SpuriousWake, Alarm, Check,
                    io, acct, agents, waiting
<1>7. CASE BeginShutdown
  BY <1>4, <1>5, <1>7 DEF BeginShutdown, io, acct
<1>8. CASE Write
  <2>1. queue' = Append(queue, submitted + 1) /\ submitted' = submitted + 1 /\ submitted + 1 \in Items
    BY <1>1, <1>8, PipeAssumption DEF Write, Accept, TypeOK, Items
  <2>2. UNCHANGED <<count, done, log, hand, wait, snapshot>>
    BY <1>8 DEF Write, Accept, acct, waiting
  <2>3. ~Scheduled => InOrder' /\ SnapshotDone'
    <3> SUFFICES ASSUME ~Scheduled PROVE InOrder' /\ SnapshotDone'
      OBVIOUS
    <3>1. SnapshotDone'
      BY <1>2, <1>3, <2>2
    <3>2. /\ Len(queue') = Len(queue) + 1 /\ DOMAIN queue' = 1 .. Len(queue) + 1
          /\ \A i \in 1 .. Len(queue) : queue'[i] = queue[i]
          /\ queue'[Len(queue) + 1] = submitted + 1
          /\ DOMAIN queue = 1 .. Len(queue)
      BY <1>1, <2>1
    <3>5. (Len(log) + Len(hand[Worker]) + Len(queue)) + 1 = Len(log) + Len(hand[Worker]) + (Len(queue) + 1)
      BY <1>19, Lengths, Zenon
    <3>6. submitted + 1 = Len(log) + Len(hand[Worker]) + (Len(queue) + 1)
      BY <1>21, <3>5, Zenon
    <3>3. \A i \in 1 .. Len(queue) + 1 : queue'[i] = Len(log) + Len(hand[Worker]) + i
      <4> SUFFICES ASSUME NEW i \in 1 .. Len(queue) + 1
                   PROVE  queue'[i] = Len(log) + Len(hand[Worker]) + i
        OBVIOUS
      <4>1. CASE i = Len(queue) + 1
        BY <1>19, <3>2, <3>6, <4>1
      <4>2. CASE i # Len(queue) + 1
        <5>1. i \in 1 .. Len(queue)
          BY <1>19, <4>2
        <5> QED
          BY <1>20, <3>2, <5>1, Zenon
      <4> QED
        BY <4>1, <4>2
    <3>4. InOrder'
      BY <1>20, <2>1, <2>2, <3>2, <3>3, <3>6
    <3> QED
      BY <3>1, <3>4
  <2> QED
    BY <1>1, <2>2, <2>3 DEF OneReaderFifo
<1>9. CASE WriteAt
  BY <1>1, <1>9 DEF WriteAt, Accept, acct, OneReaderFifo
<1>10. ASSUME NEW w \in Waiters, WaitCall(w) \/ SpuriousTest(w) \/ QueueEmpty(w) PROVE OneReaderFifo'
  <2>1. \A v \in Waiters : wait'[v] = "drained" => wait[v] = "drained" /\ snapshot'[v] = snapshot[v]
    BY <1>1, <1>10 DEF WaitCall, SpuriousTest, QueueEmpty, TypeOK
  <2> QED
    BY <1>5, <1>10, <2>1 DEF WaitCall, SpuriousTest, QueueEmpty, io, acct, agents
<1>11. ASSUME NEW w \in Waiters, WaitTest(w) PROVE OneReaderFifo'
  <2>1. UNCHANGED <<count, done, log, hand, queue, submitted, snapshot>>
    BY <1>11 DEF WaitTest, io, acct, agents
  <2>2. ~Scheduled => SnapshotDone'
    <3> SUFFICES ASSUME ~Scheduled, NEW v \in Waiters, wait'[v] = "drained"
                 PROVE  1 .. snapshot'[v] \subseteq Range(log')
      BY DEF SnapshotDone
    <3>1. CASE v # w
      BY <1>1, <1>2, <1>11, <2>1, <3>1 DEF WaitTest, TypeOK, SnapshotDone
    <3>2. CASE v = w
      <4>1. snapshot[w] <= count /\ snapshot[w] \in Nat
        BY <1>1, <1>11, <3>2 DEF WaitTest, TypeOK
      <4>2. 1 .. snapshot[w] \subseteq 1 .. Len(log)
        BY <1>1, <4>1
      <4>3. \A i \in 1 .. Len(log) : i \in Range(log)
        <5>1. DOMAIN log = 1 .. Len(log)
          BY <1>1
        <5> QED
          BY <1>2, <5>1 DEF Range
      <4> QED
        BY <2>1, <3>2, <4>2, <4>3
    <3> QED
      BY <3>1, <3>2
  <2> QED
    BY <1>1, <1>2, <2>1, <2>2 DEF OneReaderFifo
<1>12. ASSUME Gate(Worker) \/ BatchDone(Worker) \/ RunThrows(Worker) PROVE OneReaderFifo'
  BY <1>5, <1>12 DEF Gate, BatchDone, RunThrows, io, acct, waiting
<1>13. ASSUME Pop(Worker) PROVE OneReaderFifo'
  <2>1. PICK n \in 0 .. Len(queue) :
           /\ hand' = [hand EXCEPT ![Worker] = SubSeq(queue, 1, n)]
           /\ queue' = SubSeq(queue, n + 1, Len(queue))
    <3> DEFINE m == IF Len(queue) < Wanted(Worker) THEN Len(queue) ELSE Wanted(Worker)
    <3>1. m \in 0 .. Len(queue)
      BY <1>1, PipeAssumption DEF Wanted
    <3> QED
      BY <1>13, <3>1 DEF Pop
  <2>2. /\ Len(hand'[Worker]) = n /\ DOMAIN hand'[Worker] = 1 .. n
        /\ \A i \in 1 .. n : hand'[Worker][i] = queue[i]
        /\ Len(queue') = Len(queue) - n /\ DOMAIN queue' = 1 .. Len(queue) - n
        /\ \A i \in 1 .. Len(queue) - n : queue'[i] = queue[n + i]
    <3>1. hand'[Worker] = SubSeq(queue, 1, n)
      BY <1>1, <2>1 DEF TypeOK
    <3>2. hand'[Worker] \in Seq(Items) /\ queue' \in Seq(Items)
      BY <1>1, <2>1, <3>1, SplitSeq
    <3>3. /\ Len(hand'[Worker]) = n /\ Len(queue') = Len(queue) - n
          /\ \A i \in 1 .. n : hand'[Worker][i] = queue[i]
          /\ \A i \in 1 .. Len(queue) - n : queue'[i] = queue[n + i]
      BY <1>1, <2>1, <3>1, SplitSeq
    <3> QED
      BY <3>2, <3>3
  <2>3. hand[Worker] = <<>> /\ done[Worker] = 0 /\ done'[Worker] = 0
    BY <1>1, <1>13 DEF Pop, AgentsInLoop, TypeOK
  <2>4. UNCHANGED <<count, log, submitted, wait, snapshot>>
    BY <1>13 DEF Pop, acct, waiting
  <2>5. ~Scheduled => InOrder'
    <3> SUFFICES ASSUME ~Scheduled PROVE InOrder'
      OBVIOUS
    <3>1. Len(hand[Worker]) = 0 /\ DOMAIN queue = 1 .. Len(queue) /\ Len(queue) \in Nat
      BY <1>1, <2>3
    <3>2. \A i \in 1 .. Len(queue) : queue[i] = Len(log) + i
      BY <1>1, <1>2, <3>1
    <3>3. \A i \in 1 .. n : hand'[Worker][i] = Len(log) + i
      BY <2>2, <3>1, <3>2
    <3>4. \A i \in 1 .. Len(queue) - n : queue'[i] = Len(log) + n + i
      <4>1. \A i \in 1 .. Len(queue) - n : n + i \in 1 .. Len(queue)
        BY <3>1
      <4> QED
        BY <1>1, <2>2, <3>1, <3>2, <4>1
    <3>5. submitted' = Len(log) + n + (Len(queue) - n)
      BY <1>1, <1>2, <2>4, <3>1
    <3> QED
      BY <1>2, <2>2, <2>4, <3>3, <3>4, <3>5
  <2>6. ~Scheduled => SnapshotDone'
    BY <1>2, <1>3, <2>4
  <2> QED
    BY <1>1, <2>3, <2>4, <2>5, <2>6 DEF OneReaderFifo
<1>14. ASSUME RunItem(Worker) PROVE OneReaderFifo'
  <2>1. /\ hand[Worker] # <<>> /\ log' = Append(log, Head(hand[Worker]))
        /\ hand'[Worker] = Tail(hand[Worker]) /\ done'[Worker] = done[Worker] + 1
        /\ UNCHANGED <<count, queue, submitted, wait, snapshot>>
    BY <1>1, <1>14 DEF RunItem, TypeOK, io, waiting
  <2>2. Head(hand[Worker]) \in Items
    BY <1>1, <2>1, TailRest
  <2>3. /\ Len(log') = Len(log) + 1 /\ DOMAIN log' = 1 .. Len(log) + 1
        /\ \A i \in 1 .. Len(log) : log'[i] = log[i]
        /\ log'[Len(log) + 1] = Head(hand[Worker])
        /\ DOMAIN log = 1 .. Len(log)
    BY <1>1, <2>1, <2>2
  <2>4. /\ Len(hand'[Worker]) = Len(hand[Worker]) - 1 /\ DOMAIN hand'[Worker] = 1 .. Len(hand[Worker]) - 1
        /\ \A i \in 1 .. Len(hand[Worker]) - 1 :
             hand'[Worker][i] = hand[Worker][i + 1] /\ i + 1 \in 1 .. Len(hand[Worker])
        /\ DOMAIN hand[Worker] = 1 .. Len(hand[Worker]) /\ Len(hand[Worker]) \in Nat \ {0}
        /\ Head(hand[Worker]) = hand[Worker][1]
    BY <1>1, <2>1, TailRest
  <2>5. count' + done'[Worker] = Len(log')
    BY <1>1, <2>1, <2>3, SMTT(30)
  <2>6. ~Scheduled => InOrder'
    <3> SUFFICES ASSUME ~Scheduled PROVE InOrder'
      OBVIOUS
    <3>1. \A i \in 1 .. Len(log) + 1 : log'[i] = i
      <4>1. Head(hand[Worker]) = Len(log) + 1
        BY <1>2, <1>19, <2>4
      <4> QED
        BY <1>2, <1>19, <2>3, <4>1
    <3>2. \A i \in 1 .. Len(hand[Worker]) - 1 : hand'[Worker][i] = (Len(log) + 1) + i
      <4> SUFFICES ASSUME NEW i \in 1 .. Len(hand[Worker]) - 1
                   PROVE  hand'[Worker][i] = (Len(log) + 1) + i
        OBVIOUS
      <4>1. hand'[Worker][i] = Len(log) + (i + 1)
        BY <1>20, <2>4, Zenon
      <4> QED
        BY <1>19, <4>1
    <3>3. \A i \in 1 .. Len(queue) : queue[i] = (Len(log) + 1) + (Len(hand[Worker]) - 1) + i
      <4>1. \A i \in Nat : (Len(log) + 1) + (Len(hand[Worker]) - 1) + i = Len(log) + Len(hand[Worker]) + i
        BY <1>19, Lengths, ZenonT(40)
      <4>2. \A i \in 1 .. Len(queue) : i \in Nat
        BY <1>19
      <4> QED
        BY <1>20, <4>1, <4>2, Zenon
    <3>4. submitted' = (Len(log) + 1) + (Len(hand[Worker]) - 1) + Len(queue)
      BY <1>19, <1>21, <2>1, Lengths, Zenon
    <3> QED
      BY <2>1, <2>3, <2>4, <3>1, <3>2, <3>3, <3>4
  <2>7. Range(log) \subseteq Range(log')
    BY <1>1, <2>1, <2>2, AppendNew
  <2>8. ~Scheduled => SnapshotDone'
    BY <1>2, <1>3, <2>1, <2>7
  <2> QED
    BY <2>5, <2>6, <2>8 DEF OneReaderFifo
<1>15. ASSUME Account(Worker) \/ Fail(Worker) PROVE OneReaderFifo'
  <2>1. /\ count' = count + done[Worker] /\ done'[Worker] = 0
        /\ UNCHANGED <<log, queue, submitted, snapshot>> /\ hand'[Worker] = hand[Worker]
        /\ wait' = EmptyNotified
    BY <1>1, <1>15 DEF Account, Fail, TypeOK, io
  <2>2. ~Scheduled => SnapshotDone'
    BY <1>2, <1>3, <1>4, <2>1
  <2> QED
    BY <1>1, <1>2, <2>1, <2>2 DEF OneReaderFifo
<1>16. CASE Select
  <2>1. Scheduled /\ done[Worker] = 0
    BY <1>1, <1>16 DEF Select, AgentsInLoop
  <2>2. done'[Worker] = 0 /\ UNCHANGED <<count, log>>
    BY <1>1, <1>16, <2>1 DEF Select, Take, Quit, Sleep, TypeOK, acct
  <2> QED
    BY <1>1, <2>1, <2>2 DEF OneReaderFifo
<1>17. CASE UNCHANGED vars
  BY <1>5, <1>17 DEF vars, io, acct, agents, waiting
<1>18. \A a \in Agents : a = Worker
  BY <1>1
<1> QED
  BY <1>6, <1>7, <1>8, <1>9, <1>10, <1>11, <1>12, <1>13, <1>14, <1>15, <1>16, <1>17, <1>18
     DEF Next, Environment, AgentStep, WaiterStep

-----------------------------------------------------------------------------
(* The inductive invariant.                                                *)

\* A new pipe.
LEMMA PipeInvInit == Init => PipeInv
<1> SUFFICES ASSUME Init PROVE PipeInv
  OBVIOUS
<1> USE PipeAssumption
<1>1. /\ queue = <<>> /\ sched = <<>> /\ log = <<>> /\ due = <<>> /\ submitted = 0
      /\ \A a \in Agents : hand[a] = <<>> /\ done[a] = 0
      /\ Worker \in Agents /\ Readers \subseteq Agents
  BY DEF Init, Agents
<1>2. TypeOK
  <2>1. pc \in [Agents -> Points]
    BY DEF Init, Points
  <2>2. hand \in [Agents -> Seq(Items)] /\ done \in [Agents -> Nat]
    BY DEF Init
  <2>3. wait \in [Waiters -> WaitPoints] /\ snapshot \in [Waiters -> Nat] /\ closer \in ClosePoints
    BY DEF Init, WaitPoints, ClosePoints
  <2>4. /\ queue \in Seq(Items) /\ sched \in Seq(Items) /\ log \in Seq(Items)
        /\ due \in Seq({Immediate} \cup (0 .. MaxTime)) /\ submitted \in Nat
    BY <1>1
  <2>5. now \in 0 .. MaxTime /\ alarm \in 0 .. NoAlarm /\ popCount \in Nat /\ count \in Nat
    BY DEF Init, NoAlarm
  <2>6. queueShut \in BOOLEAN /\ failure \in BOOLEAN /\ shut \in BOOLEAN
    BY DEF Init
  <2> QED
    BY <2>1, <2>2, <2>3, <2>4, <2>5, <2>6 DEF TypeOK
<1>3. Held = {}
  BY <1>1, NoItem DEF Held
<1>4. EachItemOnce
  <2>1. \A s \in {queue, sched, log} \cup {hand[a] : a \in Agents} : IsInjective(s)
    BY <1>1, NoItem
  <2> QED
    BY <1>1, <1>3, <2>1, NoItem DEF EachItemOnce
<1>5. ItemsPlaced
  BY <1>1, NoItem DEF ItemsPlaced
<1>6. AgentsInLoop
  BY <1>1 DEF Init, AgentsInLoop
<1>7. WorkerEndsLast /\ SleepsSoundly
  BY <1>1 DEF Init, WorkerEndsLast, SleepsSoundly
<1>8. OneReaderFifo
  BY <1>1 DEF Init, OneReaderFifo, SnapshotDone
<1> QED
  BY <1>2, <1>4, <1>5, <1>6, <1>7, <1>8 DEF PipeInv

\* Every step keeps it.
LEMMA PipeInvStep == PipeInv /\ [Next]_vars => PipeInv'
  BY TypeStep, ItemsStep, LoopStep, EndsStep, SleepStep, FifoStep DEF PipeInv

\* The strengthened invariant holds of every pipe.
THEOREM PipeCorrect == Spec => []PipeInv
  BY PipeInvInit, PipeInvStep, PTL DEF Spec

\* What is in a union of numbered batches.
LEMMA Numbered ==
  ASSUME NEW S, NEW d, NEW x
  PROVE  x \in UNION {{a} \X (1 .. d[a]) : a \in S}
           <=> \E a \in S : \E i \in 1 .. d[a] : x = <<a, i>>
<1> DEFINE batch(a) == {a} \X (1 .. d[a])
<1>1. ASSUME NEW a \in S PROVE x \in batch(a) <=> \E i \in 1 .. d[a] : x = <<a, i>>
  OBVIOUS
<1> HIDE DEF batch
<1>2. x \in UNION {batch(a) : a \in S} <=> \E a \in S : x \in batch(a)
  OBVIOUS
<1>3. x \in UNION {batch(a) : a \in S} <=> \E a \in S : \E i \in 1 .. d[a] : x = <<a, i>>
  BY <1>1, <1>2
<1> QED
  BY <1>3 DEF batch

\* A new element counts one more.
LEMMA OneMore ==
  ASSUME NEW S, NEW T, NEW x, IsFiniteSet(S), x \notin S, T = S \cup {x}
  PROVE  IsFiniteSet(T) /\ Cardinality(S) \in Nat /\ Cardinality(T) = Cardinality(S) + 1
  BY FS_AddElement, FS_CardinalityType

\* The same for what is taken away.
LEMMA SomeLess ==
  ASSUME NEW S, NEW T, NEW B, IsFiniteSet(S), B \subseteq S, T = S \ B
  PROVE  /\ IsFiniteSet(T) /\ Cardinality(S) \in Nat /\ Cardinality(B) \in Nat
         /\ Cardinality(T) = Cardinality(S) - Cardinality(B)
<1>1. S \cap B = B /\ B \in SUBSET S
  OBVIOUS
<1>2. IsFiniteSet(B)
  BY <1>1, FS_Subset
<1>3. Cardinality(S) \in Nat /\ Cardinality(B) \in Nat
  BY <1>2, FS_CardinalityType
<1>4. IsFiniteSet(S \ B) /\ Cardinality(S \ B) = Cardinality(S) - Cardinality(S \cap B)
  BY FS_Difference
<1> QED
  BY <1>1, <1>3, <1>4

\* A batch of one agent in the set of what is still to be counted.
LEMMA BatchOf ==
  ASSUME TypeOK, NEW a \in Agents, IsFiniteSet(Uncounted)
  PROVE  /\ {a} \X (1 .. done[a]) \subseteq Uncounted
         /\ IsFiniteSet({a} \X (1 .. done[a]))
         /\ Cardinality({a} \X (1 .. done[a])) = done[a]
<1>1. done[a] \in Nat /\ IsFiniteSet({a}) /\ Cardinality({a}) = 1
  BY FS_Singleton DEF TypeOK
<1>2. IsFiniteSet(1 .. done[a]) /\ Cardinality(1 .. done[a]) = done[a]
  BY <1>1, FS_Interval, SMTT(30)
<1>3. {a} \X (1 .. done[a]) \subseteq Uncounted
  BY DEF Uncounted
<1> QED
  BY <1>1, <1>2, <1>3, FS_Product

\* An item that the processing function has finished is one more to count.
LEMMA CountRun ==
  ASSUME TypeOK, NEW a \in Agents, RunItem(a), IsFiniteSet(Uncounted), CountExact
  PROVE  IsFiniteSet(Uncounted') /\ CountExact'
<1>1. /\ \A b \in Agents : done[b] \in Nat
      /\ \A b \in Agents : done'[b] = IF b = a THEN done[b] + 1 ELSE done[b]
      /\ count \in Nat /\ count' = count
  BY DEF TypeOK, RunItem
<1>2. Uncounted' = Uncounted \cup {<<a, done[a] + 1>>}
  <2>1. ASSUME NEW b \in Agents, NEW i
        PROVE  i \in 1 .. done'[b] <=> i \in 1 .. done[b] \/ (b = a /\ i = done[a] + 1)
    BY <1>1
  <2>2. ASSUME NEW x PROVE x \in Uncounted' <=> x \in Uncounted \cup {<<a, done[a] + 1>>}
    <3>1. x \in Uncounted' <=> \E b \in Agents : \E i \in 1 .. done'[b] : x = <<b, i>>
      BY Numbered DEF Uncounted
    <3>2. x \in Uncounted <=> \E b \in Agents : \E i \in 1 .. done[b] : x = <<b, i>>
      BY Numbered DEF Uncounted
    <3> QED
      BY <2>1, <3>1, <3>2, Zenon
  <2> QED
    BY <2>2
<1>3. <<a, done[a] + 1>> \notin Uncounted
  <2>1. \A i \in 1 .. done[a] : i # done[a] + 1
    BY <1>1
  <2>2. \A b, i, c, j : <<b, i>> = <<c, j>> => b = c /\ i = j
    OBVIOUS
  <2>3. <<a, done[a] + 1>> \in Uncounted
          <=> \E b \in Agents : \E i \in 1 .. done[b] : <<a, done[a] + 1>> = <<b, i>>
    BY Numbered DEF Uncounted
  <2> QED
    BY <2>1, <2>2, <2>3, Zenon
<1>4. Len(log') = Len(log) + 1 /\ Len(log) \in Nat
  <2>1. Head(hand[a]) \in Items
    BY TailRest DEF TypeOK, RunItem
  <2> QED
    BY <2>1 DEF TypeOK, RunItem
<1>5. /\ IsFiniteSet(Uncounted') /\ Cardinality(Uncounted) \in Nat
      /\ Cardinality(Uncounted') = Cardinality(Uncounted) + 1
  BY <1>2, <1>3, OneMore
<1>6. count \in Nat /\ count' = count
  BY <1>1
<1>7. count + Cardinality(Uncounted) = Len(log)
  BY DEF CountExact
<1>8. count' + Cardinality(Uncounted') = Len(log')
  BY <1>4, <1>5, <1>6, <1>7
<1> QED
  BY <1>5, <1>8 DEF CountExact

\* A batch enters m_count as a whole, once.
LEMMA CountBatch ==
  ASSUME TypeOK, NEW a \in Agents, IsFiniteSet(Uncounted), CountExact,
         count' = count + done[a], done' = [done EXCEPT ![a] = 0], log' = log
  PROVE  IsFiniteSet(Uncounted') /\ CountExact'
<1> DEFINE batch == {a} \X (1 .. done[a])
<1>1. /\ \A b \in Agents : done[b] \in Nat
      /\ \A b \in Agents : done'[b] = IF b = a THEN 0 ELSE done[b]
      /\ count \in Nat /\ Len(log) \in Nat
  BY DEF TypeOK
<1>2. Uncounted' = Uncounted \ batch
  <2>1. ASSUME NEW b \in Agents, NEW i
        PROVE  i \in 1 .. done'[b] <=> i \in 1 .. done[b] /\ b # a
    BY <1>1
  <2>2. ASSUME NEW x PROVE x \in Uncounted' <=> x \in Uncounted \ batch
    <3>1. x \in Uncounted' <=> \E b \in Agents : \E i \in 1 .. done'[b] : x = <<b, i>>
      BY Numbered DEF Uncounted
    <3>2. x \in Uncounted <=> \E b \in Agents : \E i \in 1 .. done[b] : x = <<b, i>>
      BY Numbered DEF Uncounted
    <3>3. x \in batch <=> \E i \in 1 .. done[a] : x = <<a, i>>
      OBVIOUS
    <3>4. ASSUME NEW b, NEW i, NEW c, NEW j, <<b, i>> = <<c, j>> PROVE b = c /\ i = j
      BY <3>4
    <3> HIDE DEF batch
    <3> QED
      BY <2>1, <3>1, <3>2, <3>3, <3>4, ZenonT(40)
  <2> QED
    BY <2>2
<1>3. batch \subseteq Uncounted /\ IsFiniteSet(batch) /\ Cardinality(batch) = done[a]
  BY BatchOf
<1> HIDE DEF batch
<1>4. /\ IsFiniteSet(Uncounted') /\ Cardinality(Uncounted) \in Nat
      /\ Cardinality(Uncounted') = Cardinality(Uncounted) - done[a]
  <2>1. Cardinality(Uncounted') = Cardinality(Uncounted) - Cardinality(batch)
    BY <1>2, <1>3, SomeLess
  <2> QED
    BY <1>2, <1>3, <2>1, SomeLess
<1>5. count' + (Cardinality(Uncounted) - done[a]) = Len(log')
  BY <1>1, <1>4 DEF CountExact
<1> QED
  BY <1>4, <1>5 DEF CountExact

\* A new batch begins with nothing done, as the one before was counted.
LEMMA CountTake ==
  ASSUME TypeOK, NEW a \in Agents, done[a] = 0, done' = [done EXCEPT ![a] = 0],
         UNCHANGED <<count, log>>, IsFiniteSet(Uncounted), CountExact
  PROVE  IsFiniteSet(Uncounted') /\ CountExact'
<1>1. done' = done
  BY DEF TypeOK
<1> QED
  BY <1>1, SMTT(30) DEF CountExact, Uncounted

\* Every step keeps the count exact.
LEMMA CountStep ==
  ASSUME PipeInv, IsFiniteSet(Uncounted), CountExact, [Next]_vars
  PROVE  IsFiniteSet(Uncounted') /\ CountExact'
<1>1. TypeOK /\ Worker \in Agents
  BY DEF PipeInv, Agents
<1>2. ASSUME UNCHANGED <<count, log, done>> PROVE IsFiniteSet(Uncounted') /\ CountExact'
  BY <1>2 DEF CountExact, Uncounted
<1>3. CASE Tick \/ Write \/ WriteAt \/ BeginShutdown \/ SpuriousWake \/ CloserStep \/ UNCHANGED vars
  <2>1. UNCHANGED <<count, log, done>>
    BY <1>3 DEF Tick, Write, WriteAt, Accept, BeginShutdown, SpuriousWake, CloserStep, Join, CloseQueue,
                AwaitInflight, acct, agents, vars
  <2> QED
    BY <1>2, <2>1
<1>4. ASSUME NEW r \in Readers, ReadCall(r) PROVE IsFiniteSet(Uncounted') /\ CountExact'
  BY <1>2, <1>4 DEF ReadCall, acct
<1>5. ASSUME NEW w \in Waiters, WaitCall(w) \/ SpuriousTest(w) \/ WaiterStep(w)
      PROVE  IsFiniteSet(Uncounted') /\ CountExact'
  BY <1>2, <1>5 DEF WaitCall, SpuriousTest, WaiterStep, QueueEmpty, WaitTest, acct, agents
<1>6. ASSUME NEW a \in Agents, Gate(a) \/ BatchDone(a) \/ RunThrows(a) \/ Check \/ Alarm
      PROVE  IsFiniteSet(Uncounted') /\ CountExact'
  BY <1>2, <1>6 DEF Gate, BatchDone, RunThrows, Check, Alarm, acct
<1>7. ASSUME NEW a \in Agents, Pop(a) PROVE IsFiniteSet(Uncounted') /\ CountExact'
  <2>1. done[a] = 0 /\ done' = [done EXCEPT ![a] = 0] /\ UNCHANGED <<count, log>>
    BY <1>7 DEF PipeInv, AgentsInLoop, Pop, acct
  <2> QED
    BY <1>1, <2>1, CountTake
<1>8. ASSUME NEW a \in Agents, RunItem(a) PROVE IsFiniteSet(Uncounted') /\ CountExact'
  BY <1>1, <1>8, CountRun
<1>9. ASSUME NEW a \in Agents, Account(a) \/ Fail(a) PROVE IsFiniteSet(Uncounted') /\ CountExact'
  BY <1>1, <1>9, CountBatch DEF Account, Fail
<1>10. CASE Select
  <2>1. done[Worker] = 0
    BY <1>1, <1>10 DEF PipeInv, AgentsInLoop, Select
  <2>2. /\ done' = done \/ done' = [done EXCEPT ![Worker] = 0]
        /\ UNCHANGED <<count, log>>
    BY <1>10 DEF Select, Quit, Sleep, Take, acct
  <2> QED
    BY <1>1, <1>2, <2>1, <2>2, CountTake
<1> QED
  BY <1>3, <1>4, <1>5, <1>6, <1>7, <1>8, <1>9, <1>10 DEF Next, Environment, AgentStep

\* m_count is exact on every path of the processing, whatever throws and however
\* many readers work beside the worker (readAndProcess, recordProcessingFailure).
THEOREM CountAlwaysExact == Spec => []CountExact
<1>1. Init => IsFiniteSet(Uncounted) /\ CountExact
  <2> SUFFICES ASSUME Init PROVE IsFiniteSet(Uncounted) /\ CountExact
    OBVIOUS
  <2>1. \A a \in Agents : 1 .. done[a] = {}
    BY DEF Init
  <2>2. Uncounted = {}
    BY <2>1 DEF Uncounted
  <2> QED
    BY <2>2, FS_EmptySet DEF Init, CountExact
<1>2. PipeInv /\ IsFiniteSet(Uncounted) /\ CountExact /\ [Next]_vars
        => (IsFiniteSet(Uncounted) /\ CountExact)'
  BY CountStep
<1> QED
  BY <1>1, <1>2, PipeCorrect, PTL DEF Spec

\* An accepted item is in one place, and not lost before something has thrown:
\* readAndProcess() and scheduledProcessingLoop(), whoever takes it.
THEOREM ItemsNeverLost == Spec => []EachItemOnce
<1>1. PipeInv => EachItemOnce
  BY DEF PipeInv
<1> QED
  BY <1>1, PipeCorrect, PTL

\* m_work_cond: the worker never sleeps past something it has to do.
THEOREM WorkerSleepsSoundly == Spec => []SleepsSoundly
<1>1. PipeInv => SleepsSoundly
  BY DEF PipeInv
<1> QED
  BY <1>1, PipeCorrect, PTL

\* shutdown() of a pipe with scheduled writes closes the queue after every
\* accepted item was processed or taken by a reader, unless processing failed.
THEOREM ShutdownDrains == Spec => []DrainedAtShutdown
<1>1. PipeInv => DrainedAtShutdown
  <2> SUFFICES ASSUME PipeInv, Scheduled, ~failure,
                      closer \in {"closeQueue", "awaitInflight", "returned"},
                      NEW i \in 1 .. submitted
               PROVE  i \in Range(log) \/ \E r \in Readers : i \in Range(hand[r])
    BY DEF DrainedAtShutdown
  <2>1. queue = <<>> /\ sched = <<>> /\ hand[Worker] = <<>>
    BY DEF PipeInv, WorkerEndsLast
  <2>2. i \in Range(log) \cup Held
    BY <2>1, NoItem DEF PipeInv, EachItemOnce
  <2>3. i \in Held => \E r \in Readers : i \in Range(hand[r])
    BY <2>1, NoItem DEF Held, Agents
  <2> QED
    BY <2>2, <2>3
<1> QED
  BY <1>1, PipeCorrect, PTL

\* waitForEmpty() of an ordinary pipe read by its worker alone: when it returns
\* normally every item of its snapshot was processed.
THEOREM WaitForEmptyHonest == Readers = {} /\ ~Scheduled => (Spec => []SnapshotDone)
<1> SUFFICES ASSUME Readers = {}, ~Scheduled PROVE Spec => []SnapshotDone
  OBVIOUS
<1>1. PipeInv => SnapshotDone
  BY DEF PipeInv, OneReaderFifo
<1> QED
  BY <1>1, PipeCorrect, PTL

-----------------------------------------------------------------------------
(* The order of scheduled writes.                                          *)

\* The items that wait for their deadline are those of m_scheduled_queue.
LEMMA PendingIsSched ==
  ASSUME PipeInv
  PROVE  /\ Pending = Range(sched)
         /\ sched # <<>> => \A j \in Range(sched) : Before(Head(sched), j)
<1>1. \A i \in Range(sched) : i \in 1 .. submitted /\ due[i] # Immediate /\ i \notin Range(log) \cup Held
  BY DEF PipeInv, EachItemOnce, ItemsPlaced
<1>2. \A i \in Pending : i \in Range(sched)
  <2>1. Range(hand[Worker]) \subseteq Held
    BY OnceFacts DEF PipeInv, Agents
  <2> QED
    BY <2>1 DEF PipeInv, ItemsPlaced, Pending
<1>3. Pending = Range(sched)
  BY <1>1, <1>2 DEF Pending
<1>4. ASSUME sched # <<>> PROVE \A j \in Range(sched) : Before(Head(sched), j)
  <2>1. sched \in Seq(Items) /\ DOMAIN sched = 1 .. Len(sched) /\ Len(sched) \in Nat \ {0}
        /\ Head(sched) = sched[1]
    BY <1>4 DEF PipeInv, TypeOK
  <2>2. \A i \in 1 .. Len(sched) : Before(sched[1], sched[i])
    BY <2>1 DEF PipeInv, ItemsPlaced
  <2> QED
    BY <2>1, <2>2 DEF Range
<1> QED
  BY <1>3, <1>4

\* scheduledProcessingLoop(): of the scheduled items that wait, only the first by
\* deadline and submission is ever taken, when it is due and no ordinary item waits.
THEOREM ScheduledInOrder == Spec => DueOrder
<1>1. ASSUME PipeInv, [Next]_vars PROVE DueStep
  <2> SUFFICES ASSUME NEW i \in Pending, i \in Range(hand'[Worker])
               PROVE  due[i] <= now /\ queue = <<>> /\ \A j \in Pending : Before(i, j)
    BY DEF DueStep
  <2>1. TypeOK /\ EachItemOnce /\ ItemsPlaced /\ Worker \in Agents
    BY <1>1 DEF PipeInv, Agents
  <2>2. due[i] # Immediate /\ i \notin Range(hand[Worker])
    BY <2>1, OnceFacts DEF Pending
  <2>3. ASSUME hand'[Worker] = hand[Worker] PROVE FALSE
    BY <2>2, <2>3
  <2>4. ASSUME NEW n \in 0 .. Len(queue), hand'[Worker] = SubSeq(queue, 1, n) PROVE FALSE
    <3>1. i \in Range(queue)
      <4>1. queue \in Seq(Items)
        BY <2>1 DEF TypeOK
      <4>2. Range(SubSeq(queue, 1, n)) \subseteq Range(queue)
        BY <4>1, SplitSeq
      <4> QED
        BY <2>4, <4>2
    <3> QED
      BY <2>1, <2>2, <3>1 DEF ItemsPlaced
  <2>5. CASE Tick \/ Write \/ WriteAt \/ BeginShutdown \/ SpuriousWake \/ Alarm \/ Check \/ CloserStep
    BY <2>3, <2>5 DEF Tick, Write, WriteAt, Accept, BeginShutdown, SpuriousWake, Alarm, Check,
                      CloserStep, Join, CloseQueue, AwaitInflight, agents
  <2>6. ASSUME NEW r \in Readers, ReadCall(r) PROVE FALSE
    BY <2>3, <2>6 DEF ReadCall
  <2>7. ASSUME NEW w \in Waiters, WaitCall(w) \/ SpuriousTest(w) \/ WaiterStep(w) PROVE FALSE
    BY <2>3, <2>7 DEF WaitCall, SpuriousTest, WaiterStep, QueueEmpty, WaitTest, agents
  <2>8. ASSUME NEW a \in Agents, Gate(a) \/ BatchDone(a) \/ RunThrows(a) \/ Account(a) PROVE FALSE
    BY <2>3, <2>8 DEF Gate, BatchDone, RunThrows, Account
  <2>9. ASSUME NEW a \in Agents, Pop(a) PROVE FALSE
    <3>1. CASE a # Worker
      BY <2>1, <2>3, <2>9, <3>1 DEF Pop, TypeOK
    <3>2. CASE a = Worker
      <4> DEFINE m == IF Len(queue) < Wanted(a) THEN Len(queue) ELSE Wanted(a)
      <4>1. m \in 0 .. Len(queue)
        BY <2>1, PipeAssumption DEF TypeOK, Wanted
      <4>2. hand'[Worker] = SubSeq(queue, 1, m)
        BY <2>1, <2>9, <3>2 DEF Pop, TypeOK
      <4> QED
        BY <2>4, <4>1, <4>2
    <3> QED
      BY <3>1, <3>2
  <2>10. ASSUME NEW a \in Agents, RunItem(a) PROVE FALSE
    <3>1. CASE a # Worker
      BY <2>1, <2>3, <2>10, <3>1 DEF RunItem, TypeOK
    <3>2. CASE a = Worker
      <4>1. hand[Worker] \in Seq(Items) /\ hand[Worker] # <<>> /\ hand'[Worker] = Tail(hand[Worker])
        BY <2>1, <2>10, <3>2 DEF RunItem, TypeOK
      <4>2. Range(hand'[Worker]) \subseteq Range(hand[Worker])
        BY <4>1, TailRest
      <4> QED
        BY <2>2, <4>2
    <3> QED
      BY <3>1, <3>2
  <2>11. ASSUME NEW a \in Agents, Fail(a) PROVE FALSE
    <3>1. hand'[Worker] = hand[Worker]
      BY <2>1, <2>11 DEF Fail, TypeOK
    <3> QED
      BY <2>3, <3>1
  <2>12. CASE Select
    <3>1. CASE Quit
      BY <2>3, <3>1 DEF Quit
    <3>2. ASSUME NEW d, Sleep(d) PROVE FALSE
      BY <2>3, <3>2 DEF Sleep
    <3>3. CASE queue # <<>> /\ Take(Head(queue))
      <4>1. hand'[Worker] = <<Head(queue)>> /\ Head(queue) \in Range(queue)
        BY <2>1, <3>3, TailRest DEF Take, TypeOK
      <4>2. i \in Range(queue)
        BY <4>1, OneItem
      <4> QED
        BY <2>1, <2>2, <4>2 DEF ItemsPlaced
    <3>4. CASE queue = <<>> /\ sched # <<>> /\ due[Head(sched)] <= now /\ Take(Head(sched))
      <4>1. hand'[Worker] = <<Head(sched)>>
        BY <2>1, <3>4 DEF Take, TypeOK
      <4>2. i = Head(sched)
        BY <4>1, OneItem
      <4> QED
        BY <1>1, <3>4, <4>2, PendingIsSched
    <3> QED
      BY <2>12, <3>1, <3>2, <3>3, <3>4 DEF Select
  <2>13. CASE UNCHANGED vars
    BY <2>3, <2>13 DEF vars, agents
  <2> QED
    BY <1>1, <2>5, <2>6, <2>7, <2>8, <2>9, <2>10, <2>11, <2>12, <2>13
       DEF Next, Environment, AgentStep
<1> QED
  BY <1>1, PipeCorrect, PTL DEF Spec, DueOrder

-----------------------------------------------------------------------------
(* An executor is a pipe.                                                  *)

\* std::ceil: the deadline of an accepted delay is in the clock's range and not
\* before the delay has passed.
LEMMA DelayRoundedUp ==
  ASSUME TypeOK, NEW delay \in Delays, Representable(delay)
  PROVE  /\ NextDeadline(ToClockDuration(delay)) \in 0 .. MaxTime
         /\ 2 * now + delay \in Int
         /\ 2 * now + delay <= 2 * NextDeadline(ToClockDuration(delay))
<1>1. delay \in Int /\ delay >= 0 /\ now \in Nat /\ now <= MaxTime /\ MaxTime \in Nat
  BY AsyncAssumption, PipeAssumption DEF Representable, TypeOK
<1>2. PICK t \in Int : t = (delay + 1) \div 2
  BY <1>1
<1>3. t >= 0 /\ delay <= 2 * t
  BY <1>1, <1>2
<1>4. t <= MaxTime /\ ~(now > 0 /\ t > MaxTime - now)
  BY <1>2 DEF Representable, ToClockDuration
<1>5. now + t \in 0 .. MaxTime
  BY <1>1, <1>2, <1>3, <1>4
<1> QED
  BY <1>1, <1>2, <1>3, <1>5 DEF NextDeadline, ToClockDuration

\* Every step of an executor is a step of its pipe.
LEMMA AsyncIsPipe ==
  ASSUME DeadlinesHonest, [AsyncNext]_avars
  PROVE  [Next]_vars
<1> USE AsyncAssumption
<1>1. Worker \in Agents
  BY DEF Agents
<1>2. CASE AddExecTask
  BY <1>2 DEF AddExecTask, Next, Environment
<1>3. ASSUME NEW c \in Callers, SubmitAfter(c) PROVE [Next]_vars
  <2>1. caller[c].deadline \in 0 .. MaxTime
    BY DEF DeadlinesHonest
  <2> QED
    BY <1>3, <2>1 DEF SubmitAfter, WriteAt, Next, Environment
<1>4. ASSUME NEW c \in Callers, AddExecTaskAfter(c) \/ SubmitRefused(c) PROVE [Next]_vars
  BY <1>4 DEF AddExecTaskAfter, SubmitRefused
<1>5. CASE RunTask
  BY <1>1, <1>5 DEF RunTask, Next, AgentStep
<1>6. CASE PipeWorkerStep
  BY <1>1, <1>6 DEF PipeWorkerStep, Next, AgentStep
<1>7. CASE PipeStep
  BY <1>7 DEF PipeStep, Next, Environment
<1>8. CASE UNCHANGED avars
  BY <1>8 DEF avars
<1> QED
  BY <1>2, <1>3, <1>4, <1>5, <1>6, <1>7, <1>8 DEF AsyncNext

-----------------------------------------------------------------------------
(* Deadlines.                                                              *)

\* A task's deadline, and what was asked, when a new task is accepted.
LEMMA AskedGrows ==
  ASSUME DeadlinesHonest, TypeOK, ItemsPlaced, EachItemOnce,
         NEW d \in {Immediate} \cup (0 .. MaxTime), NEW e \in Int,
         IF d = Immediate THEN e = 0 ELSE e <= 2 * d,
         Accept(d), asked' = Append(asked, e),
         caller' \in [Callers -> [at: {"idle", "submit"}, deadline: 0 .. MaxTime, earliest: Int]],
         \A c \in Callers : caller'[c].earliest <= 2 * caller'[c].deadline
  PROVE  DeadlinesHonest'
<1>1. submitted' = submitted + 1 /\ due' = Append(due, d) /\ UNCHANGED <<now, log, hand>> /\ submitted \in Nat
  BY DEF Accept, acct, TypeOK
<1>2. /\ Len(due') = submitted + 1
      /\ \A i \in 1 .. submitted : due'[i] = due[i]
      /\ due'[submitted + 1] = d
  BY <1>1, DueGrows
<1>3. /\ asked' \in Seq(Int) /\ Len(asked') = submitted + 1
      /\ \A i \in 1 .. submitted : asked'[i] = asked[i]
      /\ asked'[submitted + 1] = e
  BY DEF DeadlinesHonest
<1>4. \A i \in 1 .. submitted + 1 :
        IF due'[i] = Immediate THEN asked'[i] = 0 ELSE asked'[i] <= 2 * due'[i]
  <2> SUFFICES ASSUME NEW i \in 1 .. submitted + 1
               PROVE  IF due'[i] = Immediate THEN asked'[i] = 0 ELSE asked'[i] <= 2 * due'[i]
    OBVIOUS
  <2>1. CASE i = submitted + 1
    BY <1>2, <1>3, <2>1
  <2>2. CASE i # submitted + 1
    <3>1. i \in 1 .. submitted
      BY <1>1, <2>2
    <3> QED
      BY <1>2, <1>3, <3>1 DEF DeadlinesHonest
  <2> QED
    BY <2>1, <2>2
<1>5. \A i \in Range(log') \cup Held' : due'[i] # Immediate => due'[i] <= now'
  <2>1. Range(log) \cup Held \subseteq 1 .. submitted
    BY DEF EachItemOnce
  <2>2. Range(log') \cup Held' = Range(log) \cup Held
    BY <1>1 DEF Held
  <2> QED
    BY <1>1, <1>2, <2>1, <2>2 DEF DeadlinesHonest
<1> QED
  BY <1>1, <1>3, <1>4, <1>5 DEF DeadlinesHonest

\* Steps that accept no task; those that run start no delayed task early.
LEMMA SameDeadlines ==
  ASSUME DeadlinesHonest, TypeOK, ItemsPlaced, EachItemOnce, now' \in Nat, now <= now',
         UNCHANGED <<due, submitted, asked>>,
         caller' \in [Callers -> [at: {"idle", "submit"}, deadline: 0 .. MaxTime, earliest: Int]],
         \A c \in Callers : caller'[c].earliest <= 2 * caller'[c].deadline,
         \A i \in Range(log') \cup Held' :
            i \in Range(log) \cup Held \/ due[i] = Immediate \/ due[i] <= now'
  PROVE  DeadlinesHonest'
<1>1. \A i \in Range(log) \cup Held : due[i] # Immediate => due[i] <= now'
  <2> SUFFICES ASSUME NEW i \in Range(log) \cup Held, due[i] # Immediate PROVE due[i] <= now'
    OBVIOUS
  <2>1. i \in 1 .. submitted
    BY DEF EachItemOnce
  <2>2. due[i] \in Nat /\ now \in Nat
    BY <2>1, PipeAssumption DEF TypeOK, ItemsPlaced
  <2>3. due[i] <= now
    BY DEF DeadlinesHonest
  <2> QED
    BY <2>2, <2>3
<1>2. \A i \in Range(log') \cup Held' : due'[i] # Immediate => due'[i] <= now'
  BY <1>1
<1> QED
  BY <1>2 DEF DeadlinesHonest

\* The only agent is the worker.
LEMMA OnlyWorker ==
  /\ Agents = {Worker} /\ Held = Range(hand[Worker])
  BY AsyncAssumption DEF Agents, Held

\* Every step keeps the deadlines honest.
LEMMA DeadlinesStep ==
  ASSUME PipeInv, DeadlinesHonest, [AsyncNext]_avars
  PROVE  DeadlinesHonest'
<1>1. TypeOK /\ EachItemOnce /\ ItemsPlaced /\ now \in Nat /\ Worker \in Agents
  BY PipeAssumption DEF PipeInv, TypeOK, Agents
<1> DEFINE Calls == [Callers -> [at: {"idle", "submit"}, deadline: 0 .. MaxTime, earliest: Int]]
           Honest(f) == \A c \in Callers : f[c].earliest <= 2 * f[c].deadline
<1>2. caller \in Calls /\ Honest(caller)
  BY DEF DeadlinesHonest
<1>3. NoCall \in [at: {"idle", "submit"}, deadline: 0 .. MaxTime, earliest: Int]
      /\ NoCall.earliest <= 2 * NoCall.deadline
  BY PipeAssumption DEF NoCall
<1>4. CASE AddExecTask
  <2>1. Accept(Immediate) /\ asked' = Append(asked, 0) /\ caller' = caller
    BY <1>4 DEF AddExecTask, Write
  <2> QED
    BY <1>1, <1>2, <2>1, AskedGrows
<1>5. ASSUME NEW c \in Callers, SubmitAfter(c) PROVE DeadlinesHonest'
  <2>1. /\ caller[c].deadline \in 0 .. MaxTime /\ caller[c].earliest \in Int
        /\ caller[c].earliest <= 2 * caller[c].deadline /\ caller[c].deadline # Immediate
    BY <1>2, PipeAssumption
  <2>2. Accept(caller[c].deadline) /\ asked' = Append(asked, caller[c].earliest)
        /\ caller' = [caller EXCEPT ![c] = NoCall]
    BY <1>5 DEF SubmitAfter
  <2>3. caller' \in Calls /\ Honest(caller')
    BY <1>2, <1>3, <2>2
  <2> QED
    BY <1>1, <2>1, <2>2, <2>3, AskedGrows
<1>6. ASSUME NEW c \in Callers, AddExecTaskAfter(c) PROVE DeadlinesHonest'
  <2>1. PICK delay \in Delays :
           /\ Representable(delay)
           /\ caller' = [caller EXCEPT ![c] =
                           [at |-> "submit",
                            deadline |-> NextDeadline(ToClockDuration(delay)),
                            earliest |-> 2 * now + delay]]
    BY <1>6 DEF AddExecTaskAfter
  <2>2. caller' \in Calls /\ Honest(caller')
    BY <1>1, <1>2, <2>1, DelayRoundedUp
  <2>3. UNCHANGED <<vars, asked>>
    BY <1>6 DEF AddExecTaskAfter
  <2> QED
    BY <1>1, <2>2, <2>3, SameDeadlines DEF vars, io, acct, agents, Held
<1>7. ASSUME NEW c \in Callers, SubmitRefused(c) PROVE DeadlinesHonest'
  <2>1. caller' \in Calls /\ Honest(caller')
    BY <1>2, <1>3, <1>7 DEF SubmitRefused
  <2> QED
    BY <1>1, <1>7, <2>1, SameDeadlines DEF SubmitRefused, vars, io, acct, agents, Held
<1>8. CASE RunTask
  <2>1. /\ UNCHANGED <<now, due, submitted, asked, caller>>
        /\ hand[Worker] # <<>> /\ hand'[Worker] = Tail(hand[Worker])
        /\ log' = Append(log, Head(hand[Worker]))
    BY <1>1, <1>8 DEF RunTask, RunItem, io, TypeOK
  <2>2. /\ Range(hand'[Worker]) \subseteq Range(hand[Worker])
        /\ Head(hand[Worker]) \in Range(hand[Worker]) /\ Head(hand[Worker]) \in Items
    BY <1>1, <2>1, TailRest DEF TypeOK
  <2>3. Range(log') = Range(log) \cup {Head(hand[Worker])}
    BY <1>1, <2>1, <2>2, AppendNew DEF TypeOK
  <2>4. Held' = Range(hand'[Worker]) /\ Held = Range(hand[Worker])
    BY OnlyWorker DEF Held
  <2> QED
    BY <1>1, <1>2, <2>1, <2>2, <2>3, <2>4, SameDeadlines
<1>9. CASE PipeWorkerStep
  <2>1. UNCHANGED <<now, due, submitted, asked, caller, log>>
    BY <1>9 DEF PipeWorkerStep, BatchDone, Account, Select, Alarm, io, acct
  <2>2. Held' = Range(hand'[Worker]) /\ Held = Range(hand[Worker])
    BY OnlyWorker DEF Held
  <2>3. ASSUME NEW i \in Range(hand'[Worker])
        PROVE  i \in Held \/ due[i] = Immediate \/ due[i] <= now'
    <3>1. CASE hand' = hand
      BY <2>2, <2>3, <3>1
    <3>2. CASE queue # <<>> /\ Take(Head(queue))
      <4>1. hand'[Worker] = <<Head(queue)>> /\ Head(queue) \in Range(queue)
        BY <1>1, <3>2, TailRest DEF Take, TypeOK
      <4>2. i \in Range(queue)
        BY <2>3, <4>1, OneItem
      <4> QED
        BY <1>1, <4>2 DEF ItemsPlaced
    <3>3. CASE due[Head(sched)] <= now /\ Take(Head(sched))
      <4>1. hand'[Worker] = <<Head(sched)>>
        BY <1>1, <3>3 DEF Take, TypeOK
      <4>2. i = Head(sched)
        BY <2>3, <4>1, OneItem
      <4> QED
        BY <2>1, <3>3, <4>2
    <3> QED
      BY <1>9, <3>1, <3>2, <3>3
         DEF PipeWorkerStep, BatchDone, Account, Select, Alarm, Quit, Sleep
  <2> QED
    BY <1>1, <1>2, <2>1, <2>2, <2>3, SameDeadlines
<1>10. CASE PipeStep
  <2>1. UNCHANGED <<due, submitted, asked, caller, log, hand>>
    BY <1>10 DEF PipeStep, Tick, CloserStep, Join, CloseQueue, AwaitInflight, BeginShutdown,
                 SpuriousWake, WaiterStep, QueueEmpty, WaitTest, WaitCall, SpuriousTest, io, acct, agents
  <2>2. now' \in Nat /\ now <= now'
    BY <1>1, <1>10 DEF PipeStep, Tick, CloserStep, Join, CloseQueue, AwaitInflight, BeginShutdown,
                 SpuriousWake, WaiterStep, QueueEmpty, WaitTest, WaitCall, SpuriousTest
  <2> QED
    BY <1>1, <1>2, <2>1, <2>2, SameDeadlines DEF Held
<1>11. CASE UNCHANGED avars
  BY <1>1, <1>2, <1>11, SameDeadlines DEF avars, vars, io, acct, agents, Held
<1> QED
  BY <1>4, <1>5, <1>6, <1>7, <1>8, <1>9, <1>10, <1>11 DEF AsyncNext

-----------------------------------------------------------------------------
(* Promises.                                                               *)

\* The promise of a task that is accepted.
LEMMA PromiseNew ==
  ASSUME PipeInv, PromisesAgree, NEW d, Accept(d),
         promise' = [promise EXCEPT ![submitted + 1] = "pending"]
  PROVE  PromisesAgree'
<1>1. submitted \in Nat /\ submitted + 1 \in Items /\ submitted' = submitted + 1 /\ log' = log
  BY PipeAssumption DEF PipeInv, TypeOK, Accept, acct, Items
<1>2. submitted + 1 \notin Range(log)
  BY Fresh DEF PipeInv
<1>3. \A i \in Items : i > submitted' <=> i > submitted /\ i # submitted + 1
  BY <1>1 DEF Items
<1> QED
  BY <1>1, <1>2, <1>3 DEF PromisesAgree

\* The promise of the task that has run.
LEMMA PromiseRun ==
  ASSUME PipeInv, PromisesAgree, RunTask
  PROVE  PromisesAgree' /\ (\A i \in Items : promise[i] \in {"value", "exception"}
                                               => promise'[i] = promise[i])
<1> DEFINE x == Head(hand[Worker])
<1>1. TypeOK /\ EachItemOnce /\ Worker \in Agents
  BY DEF PipeInv, Agents
<1>2. hand[Worker] \in Seq(Items) /\ hand[Worker] # <<>> /\ log' = Append(log, x)
      /\ submitted' = submitted /\ log \in Seq(Items) /\ submitted \in Nat
  BY <1>1 DEF RunTask, RunItem, io, TypeOK
<1>3. x \in Items /\ x \in Range(hand[Worker])
  BY <1>2, TailRest
<1>4. x \notin Range(log) /\ x <= submitted
  <2>1. x \in Held
    BY <1>3, OnlyWorker
  <2>2. x \in 1 .. submitted /\ x \notin Range(log)
    BY <1>1, <2>1 DEF EachItemOnce
  <2> QED
    BY <1>2, <2>2
<1>5. Range(log') = Range(log) \cup {x}
  BY <1>2, <1>3, AppendNew
<1>6. PICK r \in {"value", "exception"} : promise' = [promise EXCEPT ![x] = r]
  BY DEF RunTask
<1>7. promise[x] = "pending"
  BY <1>2, <1>3, <1>4 DEF PromisesAgree, Items
<1> HIDE DEF x
<1> QED
  BY <1>2, <1>3, <1>4, <1>5, <1>6, <1>7 DEF PromisesAgree

\* The other steps leave the promises, the submissions and the log alone.
LEMMA PromisesStep ==
  ASSUME PipeInv, PromisesAgree, [AsyncNext]_avars
  PROVE  /\ PromisesAgree'
         /\ \A i \in Items : promise[i] \in {"value", "exception"} => promise'[i] = promise[i]
<1>1. submitted \in Nat /\ TypeOK /\ EachItemOnce /\ Worker \in Agents
  BY DEF PipeInv, TypeOK, Agents
<1>2. ASSUME UNCHANGED <<log, submitted, promise>>
      PROVE  /\ PromisesAgree'
             /\ \A i \in Items : promise[i] \in {"value", "exception"} => promise'[i] = promise[i]
  BY <1>2 DEF PromisesAgree
<1>3. ASSUME NEW d, Accept(d), promise' = [promise EXCEPT ![submitted + 1] = "pending"]
      PROVE  /\ PromisesAgree'
             /\ \A i \in Items : promise[i] \in {"value", "exception"} => promise'[i] = promise[i]
  <2>1. PromisesAgree'
    BY <1>3, PromiseNew
  <2>2. \A i \in Items : promise[i] \in {"value", "exception"} => i # submitted + 1
    <3>1. submitted + 1 \notin Range(log)
      BY <1>1, Fresh
    <3> QED
      BY <3>1 DEF PromisesAgree
  <2> QED
    BY <1>3, <2>1, <2>2 DEF PromisesAgree
<1>4. CASE AddExecTask
  BY <1>3, <1>4 DEF AddExecTask, Write
<1>5. CASE \E c \in Callers : SubmitAfter(c)
  BY <1>3, <1>5 DEF SubmitAfter
<1>6. CASE \E c \in Callers : AddExecTaskAfter(c) \/ SubmitRefused(c)
  BY <1>2, <1>6 DEF AddExecTaskAfter, SubmitRefused, vars, io, acct
<1>7. CASE RunTask
  BY <1>7, PromiseRun
<1>8. CASE PipeWorkerStep
  BY <1>2, <1>8 DEF PipeWorkerStep, BatchDone, Account, Select, Alarm, io, acct
<1>9. CASE PipeStep
  BY <1>2, <1>9 DEF PipeStep, Tick, CloserStep, Join, CloseQueue, AwaitInflight, BeginShutdown,
               SpuriousWake, WaiterStep, QueueEmpty, WaitTest, WaitCall, SpuriousTest, io, acct
<1>10. CASE UNCHANGED avars
  BY <1>2, <1>10 DEF avars, vars, io, acct
<1> QED
  BY <1>4, <1>5, <1>6, <1>7, <1>8, <1>9, <1>10 DEF AsyncNext

-----------------------------------------------------------------------------
(* The invariant and what follows from it.                                 *)

LEMMA AsyncInvInit == AsyncInit => PipeInv /\ AsyncInv
<1> SUFFICES ASSUME AsyncInit PROVE PipeInv /\ AsyncInv
  OBVIOUS
<1>1. PipeInv
  BY PipeInvInit DEF AsyncInit
<1>2. Range(log) \cup Held = {} /\ submitted = 0 /\ Len(asked) = 0 /\ Range(log) = {}
  BY OnlyWorker, NoItem DEF AsyncInit, Init, Agents
<1>3. DeadlinesHonest
  <2>1. caller \in [Callers -> [at: {"idle", "submit"}, deadline: 0 .. MaxTime, earliest: Int]]
        /\ \A c \in Callers : caller[c].earliest <= 2 * caller[c].deadline
    BY PipeAssumption DEF AsyncInit, NoCall
  <2>2. asked \in Seq(Int)
    BY DEF AsyncInit
  <2> QED
    BY <1>2, <2>1, <2>2 DEF DeadlinesHonest
<1>4. PromisesAgree
  BY <1>2, PipeAssumption DEF AsyncInit, PromisesAgree, Items
<1> QED
  BY <1>1, <1>3, <1>4 DEF AsyncInv

LEMMA AsyncInvStep == PipeInv /\ AsyncInv /\ [AsyncNext]_avars => PipeInv' /\ AsyncInv'
<1> SUFFICES ASSUME PipeInv, AsyncInv, [AsyncNext]_avars PROVE PipeInv' /\ AsyncInv'
  OBVIOUS
<1>1. DeadlinesHonest /\ PromisesAgree
  BY DEF AsyncInv
<1>2. PipeInv'
  BY <1>1, AsyncIsPipe, PipeInvStep
<1>3. DeadlinesHonest' /\ PromisesAgree'
  BY <1>1, DeadlinesStep, PromisesStep
<1> QED
  BY <1>2, <1>3 DEF AsyncInv

\* The invariant of the pipe, the deadlines and the promises.
THEOREM AsyncCorrect == AsyncSpec => [](PipeInv /\ AsyncInv)
  BY AsyncInvInit, AsyncInvStep, PTL DEF AsyncSpec

\* The pipe of a Dmn_Async behaves as Pipe says: what is proved of every pipe
\* holds of it.
THEOREM AsyncHasPipe == AsyncSpec => Spec
<1>1. AsyncInit => Init
  BY DEF AsyncInit
<1>2. PipeInv /\ AsyncInv /\ [AsyncNext]_avars => [Next]_vars
  BY AsyncIsPipe DEF AsyncInv
<1> QED
  BY <1>1, <1>2, AsyncCorrect, PTL DEF AsyncSpec, Spec

\* A delayed task never starts before the requested delay has passed since the
\* call of addExecTaskAfter(), however long it took to submit it.
THEOREM TasksNotEarly == AsyncSpec => []NotEarly
<1>1. PipeInv /\ AsyncInv => NotEarly
  <2> SUFFICES ASSUME PipeInv, AsyncInv, NEW i \in Range(log) \cup Held PROVE 2 * now >= asked[i]
    BY DEF NotEarly
  <2>1. i \in 1 .. submitted /\ now \in Nat /\ asked[i] \in Int
    <3>1. i \in 1 .. submitted /\ now \in Nat
      BY PipeAssumption DEF PipeInv, EachItemOnce, TypeOK
    <3> QED
      BY <3>1 DEF AsyncInv, DeadlinesHonest
  <2>2. CASE due[i] = Immediate
    BY <2>1, <2>2 DEF AsyncInv, DeadlinesHonest
  <2>3. CASE due[i] # Immediate
    <3>1. due[i] <= now /\ asked[i] <= 2 * due[i]
      BY <2>1, <2>3 DEF AsyncInv, DeadlinesHonest
    <3>2. due[i] \in Nat
      BY <2>1, <2>3, PipeAssumption DEF PipeInv, TypeOK, ItemsPlaced
    <3> QED
      BY <2>1, <3>1, <3>2
  <2> QED
    BY <2>2, <2>3
<1> QED
  BY <1>1, AsyncCorrect, PTL

\* A task's promise is fulfilled once: no task runs twice (Dmn_Async's
\* processing function, which catches the task's exception).
THEOREM PromisesFulfilledOnce == AsyncSpec => FulfilledOnce
<1>1. PipeInv /\ AsyncInv /\ [AsyncNext]_avars =>
        [\A i \in Items : promise[i] \in {"value", "exception"} => promise'[i] = promise[i]]_avars
  BY PromisesStep DEF AsyncInv
<1> QED
  BY <1>1, AsyncCorrect, PTL DEF AsyncSpec, FulfilledOnce

-----------------------------------------------------------------------------
(* The refinement: an object implements the SerialExecutor.                *)

\* write(): the executor's Submit.
LEMMA SubmitStep ==
  ASSUME PipeInv, Write
  PROVE  Executor!Submit
<1>1. Len(due) = submitted
  BY DEF PipeInv, ItemsPlaced
<1> QED
  BY <1>1 DEF Write, Accept, acct, Executor!Submit

\* writeAt(), wherever the scheduled queue takes the item: SubmitAt.
LEMMA SubmitAtStep ==
  ASSUME PipeInv, NEW d \in 0 .. MaxTime, Accept(d), Emplace(d), UNCHANGED queue
  PROVE  Executor!SubmitAt
<1>1. TypeOK /\ ItemsPlaced /\ submitted \in Nat /\ submitted + 1 \in Items
  BY PipeAssumption DEF PipeInv, TypeOK, Accept, Items
<1>2. due' = Append(due, d) /\ UNCHANGED <<now, log, hand>>
  BY DEF Accept, acct
<1>3. /\ Len(due) = submitted /\ Len(due') = submitted + 1
      /\ due'[submitted + 1] = d
      /\ SubSeq(due', 1, Len(due)) = due
  BY <1>1, <1>2, DueGrows, FrontOfAppend DEF ItemsPlaced, TypeOK
<1>4. PICK p \in 1 .. Len(sched) + 1 : sched' = InsertAt(sched, p, submitted + 1)
  BY DEF Emplace, InsertPosition
<1>5. Range(sched') = Range(sched) \cup {submitted + 1}
  BY <1>1, <1>4, InsertNew DEF TypeOK
<1>6. d \in Nat
  BY PipeAssumption
<1> QED
  BY <1>2, <1>3, <1>5, <1>6 DEF Executor!SubmitAt

\* The processing function runs the task: Finish.
LEMMA FinishStep ==
  ASSUME PipeInv, RunItem(Worker)
  PROVE  Executor!Finish
<1>1. /\ hand[Worker] \in Seq(Items) /\ log \in Seq(Items) /\ Len(hand[Worker]) <= 1
      /\ hand[Worker] # <<>>
  BY AsyncAssumption DEF PipeInv, TypeOK, AgentsInLoop, RunItem, Agents
<1>2. /\ log' = Append(log, Head(hand[Worker])) /\ hand'[Worker] = Tail(hand[Worker])
      /\ UNCHANGED <<now, due, queue, sched>>
  BY DEF PipeInv, TypeOK, RunItem, Agents, io
<1>3. log' = log \o hand[Worker] /\ hand'[Worker] = <<>>
  BY <1>1, <1>2, ConcatOne
<1> QED
  BY <1>1, <1>2, <1>3 DEF Executor!Finish, Executor!Idle

\* The inner loop of scheduledProcessingLoop(): it starts the task the executor
\* may start, or it stutters.
LEMMA SelectStep ==
  ASSUME PipeInv, Select
  PROVE  [Executor!Next]_(Executor!evars)
<1>1. hand[Worker] = <<>> /\ Worker \in Agents /\ hand \in [Agents -> Seq(Items)]
      /\ sched \in Seq(Items) /\ UNCHANGED <<now, log>>
  BY DEF PipeInv, TypeOK, AgentsInLoop, Select, Agents, acct
<1>2. CASE queue # <<>> /\ Take(Head(queue)) /\ queue' = Tail(queue) /\ UNCHANGED <<sched, due>>
  <2>1. hand'[Worker] = <<Head(queue)>>
    BY <1>1, <1>2 DEF Take
  <2>2. Executor!StartReady
    BY <1>1, <1>2, <2>1 DEF Executor!StartReady, Executor!Idle
  <2> QED
    BY <2>2 DEF Executor!Next
<1>3. CASE /\ queue = <<>> /\ sched # <<>> /\ due[Head(sched)] <= now
           /\ Take(Head(sched)) /\ sched' = Tail(sched) /\ UNCHANGED <<queue, due>>
  <2> DEFINE t == Head(sched)
  <2>1. hand'[Worker] = <<t>>
    BY <1>1, <1>3 DEF Take
  <2>2. t \in Range(sched) /\ Range(sched') = Range(sched) \ {t}
    BY <1>1, <1>3, TailRest DEF PipeInv, EachItemOnce
  <2>3. \A u \in Range(sched) : Executor!Precedes(t, u)
    BY <1>3, PendingIsSched DEF Before, Executor!Precedes
  <2> HIDE DEF t
  <2>4. due[t] <= now
    BY <1>3 DEF t
  <2>5. Executor!StartDelayed
    BY <1>1, <1>3, <2>1, <2>2, <2>3, <2>4 DEF Executor!StartDelayed, Executor!Idle
  <2> QED
    BY <2>5 DEF Executor!Next
<1>4. CASE UNCHANGED <<io, hand>>
  BY <1>1, <1>4 DEF io, Executor!evars
<1> QED
  BY <1>2, <1>3, <1>4 DEF Select, Quit, Sleep

\* Each step of an object maps to a step of the executor or stutters.
LEMMA ExecutorStep ==
  ASSUME PipeInv, DeadlinesHonest, [AsyncNext]_avars
  PROVE  [Executor!Next]_(Executor!evars)
<1>1. CASE AddExecTask
  BY <1>1, SubmitStep DEF AddExecTask, Executor!Next
<1>2. ASSUME NEW c \in Callers, SubmitAfter(c) PROVE Executor!Next
  <2>1. caller[c].deadline \in 0 .. MaxTime
    BY DEF DeadlinesHonest
  <2> QED
    BY <1>2, <2>1, SubmitAtStep DEF SubmitAfter, Executor!Next
<1>3. CASE RunTask
  BY <1>3, FinishStep DEF RunTask, Executor!Next
<1>4. CASE Select
  BY <1>4, SelectStep
<1>5. CASE Tick
  BY <1>5 DEF Tick, io, acct, agents, Executor!Next, Executor!Tick
<1>6. CASE UNCHANGED <<now, io, log, hand>>
  BY <1>6 DEF io, Executor!evars
<1>7. CASE PipeWorkerStep
  BY <1>4, <1>6, <1>7 DEF PipeWorkerStep, BatchDone, Account, Alarm, acct
<1>8. CASE PipeStep
  BY <1>5, <1>6, <1>8 DEF PipeStep, CloserStep, Join, CloseQueue, AwaitInflight, BeginShutdown,
               SpuriousWake, WaiterStep, QueueEmpty, WaitTest, WaitCall, SpuriousTest, acct, agents
<1>9. CASE \E c \in Callers : AddExecTaskAfter(c) \/ SubmitRefused(c)
  BY <1>6, <1>9 DEF AddExecTaskAfter, SubmitRefused, vars, acct, agents
<1>10. CASE UNCHANGED avars
  BY <1>6, <1>10 DEF avars, vars, acct, agents
<1> QED
  BY <1>1, <1>2, <1>3, <1>7, <1>8, <1>9, <1>10 DEF AsyncNext

\* Dmn_Async implements the executor: one task at a time, immediate ones in
\* order, a delayed one when it is due and in the order of deadlines.
THEOREM AsyncRefinesExecutor == AsyncSpec => ImplementsExecutor
<1>1. AsyncInit => Executor!Init
  <2> SUFFICES ASSUME AsyncInit PROVE Executor!Init
    OBVIOUS
  <2>1. hand[Worker] = <<>> /\ Range(sched) = {}
    BY NoItem DEF AsyncInit, Init, Agents
  <2> QED
    BY <2>1 DEF AsyncInit, Init, Executor!Init
<1>2. PipeInv /\ AsyncInv /\ [AsyncNext]_avars => [Executor!Next]_(Executor!evars)
  BY ExecutorStep DEF AsyncInv
<1> QED
  BY <1>1, <1>2, AsyncCorrect, PTL DEF AsyncSpec, ImplementsExecutor, Executor!Spec
=============================================================================
