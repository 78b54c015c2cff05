--------------------------- MODULE Messaging_proofs -------------------------
(***************************************************************************)
(* Proofs about Election, for any set of nodes, any thresholds and any     *)
(* pattern of losses, departures and restarts, and about PubSub, for any   *)
(* number of publishers, subscribers, clients, publications and            *)
(* registrations, and any capacities.                                      *)
(***************************************************************************)
EXTENDS Election, PubSub, SequenceFacts

-----------------------------------------------------------------------------
(* Election.  The invariant: whatever a node says of itself is coherent    *)
(* (it is Ready exactly while it has a master and is allowed to send, and  *)
(* then it does not count ticks without a master), and so is every record  *)
(* under way, from whichever incarnation.  A record is a copy of its       *)
(* sender's state at some time, and reconciliation only ever copies a      *)
(* master from a Ready record, so both halves are needed for each other.   *)


Selves == [state : States, master : Nodes \cup {NoMaster},
           pending : 0 .. PendingMax, sync : 0 .. SyncMax,
           ready : BOOLEAN, stamp : Stamps \cup {0}]

Coherent(me) ==
  /\ me.state = "Ready" <=> me.master # NoMaster
  /\ me.ready <=> me.state = "Ready"
  /\ me.state = "Ready" => me.pending = 0

GoodSelves == {me \in Selves : Coherent(me)}

Records == [from : Nodes, state : States, master : Nodes \cup {NoMaster},
            stamp : Stamps \cup {0}]

GoodRecords == {other \in Records : other.state = "Ready" <=> other.master # NoMaster}

SelfOK == self \in [Nodes -> GoodSelves]
LinkOK == link \in [Nodes -> [Nodes -> Seq(GoodRecords)]]
ListOK == nodelist \in [Nodes -> SUBSET Nodes]

IInv == SelfOK /\ LinkOK /\ ListOK /\ AssertsHold

-----------------------------------------------------------------------------
(* What the handlers make of a coherent node.                              *)

\* The constants as the provers need them.
LEMMA Constants ==
  /\ NoMaster \notin Nodes
  /\ Stamps \subseteq Nat \ {0}
  /\ FirstStamp \in [Nodes -> Stamps]
  /\ PendingMax \in Nat \ {0} /\ SyncMax \in Nat \ {0}
BY ElectionAssumption DEF ElectionAssumption

\* Setting one field to a value of its type.
LEMMA Updates ==
  ASSUME NEW me \in Selves
  PROVE  /\ \A v \in States : [me EXCEPT !.state = v] \in Selves
         /\ \A v \in Nodes \cup {NoMaster} : [me EXCEPT !.master = v] \in Selves
         /\ [me EXCEPT !.pending = 0] \in Selves
         /\ [me EXCEPT !.sync = 0] \in Selves
         /\ \A v \in BOOLEAN : [me EXCEPT !.ready = v] \in Selves
BY Constants DEF Selves

LEMMA ElectedCoherent ==
  ASSUME NEW me \in Selves, NEW n \in Nodes
  PROVE  Elected(me, n) \in GoodSelves
<1> DEFINE s1 == [me EXCEPT !.pending = 0]
           s2 == [s1 EXCEPT !.state = "Ready"]
           s3 == [s2 EXCEPT !.master = n]
<1>1. Elected(me, n) = [s3 EXCEPT !.ready = TRUE]
  BY DEF Elected
<1>2. Elected(me, n) \in Selves
  <2>1. s1 \in Selves  BY Updates
  <2>2. s2 \in Selves  BY <2>1, Updates DEF States
  <2>3. s3 \in Selves  BY <2>2, Updates
  <2> QED  BY <1>1, <2>3, Updates
<1>3. Coherent(Elected(me, n))
  BY Constants DEF Elected, Selves, Coherent
<1> QED  BY <1>2, <1>3 DEF GoodSelves

LEMMA PendingCoherent ==
  ASSUME NEW me \in Selves
  PROVE  Pending(me) \in GoodSelves
<1>1. Pending(me) = [[[me EXCEPT !.state = "MasterPending"]
                       EXCEPT !.master = NoMaster] EXCEPT !.ready = FALSE]
  BY DEF Pending
<1>2. Pending(me) \in Selves
  BY <1>1, Updates DEF States
<1>3. Coherent(Pending(me))
  BY DEF Pending, Selves, Coherent
<1> QED  BY <1>2, <1>3 DEF GoodSelves

\* The counters may start again at any time.
LEMMA ResetCoherent ==
  ASSUME NEW me \in GoodSelves
  PROVE  /\ [me EXCEPT !.pending = 0] \in GoodSelves
         /\ [me EXCEPT !.sync = 0] \in GoodSelves
         /\ [me EXCEPT !.pending = 0, !.sync = 0] \in GoodSelves
<1>1. ASSUME NEW x \in GoodSelves PROVE [x EXCEPT !.pending = 0] \in GoodSelves
  BY Constants DEF GoodSelves, Selves, Coherent
<1>2. ASSUME NEW x \in GoodSelves PROVE [x EXCEPT !.sync = 0] \in GoodSelves
  BY Constants DEF GoodSelves, Selves, Coherent
<1>3. [me EXCEPT !.pending = 0, !.sync = 0] = [[me EXCEPT !.pending = 0] EXCEPT !.sync = 0]
  OBVIOUS
<1> QED  BY <1>1, <1>2, <1>3

\* A Ready node with a new master.
LEMMA FollowerCoherent ==
  ASSUME NEW me \in Selves, NEW m \in Nodes, me.state = "Ready", me.ready = TRUE
  PROVE  [me EXCEPT !.master = m, !.pending = 0, !.sync = 0] \in GoodSelves
<1> DEFINE new == [me EXCEPT !.master = m, !.pending = 0, !.sync = 0]
           s1 == [me EXCEPT !.master = m]
           s2 == [s1 EXCEPT !.pending = 0]
<1>1. new = [s2 EXCEPT !.sync = 0]
  OBVIOUS
<1>2. new \in Selves
  <2>1. s1 \in Selves  BY Updates
  <2>2. s2 \in Selves  BY <2>1, Updates
  <2> QED  BY <1>1, <2>2, Updates
<1>3. Coherent(new)  BY Constants DEF Selves, Coherent
<1> QED  BY <1>2, <1>3 DEF GoodSelves

\* The timer callback leaves a node coherent.
LEMMA TickKeepsCoherent ==
  ASSUME NEW n \in Nodes, self[n] \in GoodSelves
  PROVE  AfterTick(n) \in GoodSelves
<1> DEFINE me == self[n]
<1>1. me \in Selves /\ Coherent(me)  BY DEF GoodSelves
<1>2. CASE me.state = "MasterPending" /\ me.pending + 1 >= PendingMax
  <2>1. AfterTick(n) = Elected(me, n)  
    BY <1>1, <1>2, Constants DEF AfterTick, Selves
  <2> QED  BY <1>1, <2>1, ElectedCoherent
<1>3. CASE me.state = "MasterPending" /\ ~(me.pending + 1 >= PendingMax)
  <2>1. me.pending + 1 < PendingMax  BY <1>1, <1>3, Constants DEF Selves
  <2>2. AfterTick(n) = [me EXCEPT !.pending = @ + 1]
    BY <1>3, <2>1 DEF AfterTick
  <2> QED  BY <1>1, <1>3, <2>1, <2>2, Constants DEF GoodSelves, Selves, Coherent
<1>4. CASE me.state = "Ready" /\ me.master # n /\ me.sync + 1 >= SyncMax
  <2>1. AfterTick(n) = [Pending(me) EXCEPT !.sync = 0]
    BY <1>1, <1>4, Constants DEF AfterTick, Selves
  <2> QED  BY <1>1, <2>1, PendingCoherent, ResetCoherent
<1>5. CASE me.state = "Ready" /\ me.master # n /\ ~(me.sync + 1 >= SyncMax)
  <2>1. me.sync + 1 < SyncMax  BY <1>1, <1>5, Constants DEF Selves
  <2>2. AfterTick(n) = [me EXCEPT !.sync = @ + 1]
    BY <1>5, <2>1 DEF AfterTick
  <2> QED  BY <1>1, <1>5, <2>1, <2>2, Constants DEF GoodSelves, Selves, Coherent
<1>6. CASE me.state # "MasterPending" /\ ~(me.state = "Ready" /\ me.master # n)
  <2>1. AfterTick(n) = me  BY <1>6 DEF AfterTick
  <2> QED  BY <1>1, <2>1 DEF GoodSelves
<1> QED  BY <1>2, <1>3, <1>4, <1>5, <1>6

\* Reconciliation with any record leaves a node coherent.
LEMMA ReconciledCoherent ==
  ASSUME NEW me \in GoodSelves, NEW other \in GoodRecords
  PROVE  /\ Reconciled(me, other)[1] \in GoodSelves
         /\ Reconciled(me, other)[2] \in BOOLEAN
<1>1. /\ me \in Selves /\ Coherent(me)
      /\ other \in Records /\ (other.state = "Ready" <=> other.master # NoMaster)
  BY DEF GoodSelves, GoodRecords
<1>2. CASE me.state = "MasterPending" /\ other.state = "Ready"
  <2>1. Reconciled(me, other) = <<Adopt(me, other), TRUE>>
    BY <1>2 DEF Reconciled
  <2>2. Adopt(me, other) \in GoodSelves
    <3> DEFINE ready == [[me EXCEPT !.state = "Ready"] EXCEPT !.ready = TRUE]
    <3>1. ready \in Selves /\ ready.state = "Ready" /\ ready.ready = TRUE
      BY <1>1, Updates DEF States, Selves
    <3>2. Adopt(me, other) = [ready EXCEPT !.master = other.master, !.pending = 0,
                                           !.sync = 0]
      BY <1>1 DEF Adopt, Selves
    <3>3. other.master \in Nodes  BY <1>1, <1>2 DEF Records
    <3> HIDE DEF ready
    <3> QED  BY <3>1, <3>2, <3>3, FollowerCoherent, ZenonT(40)
  <2> QED  BY <2>1, <2>2
<1>3. CASE me.state = "Ready" /\ other.from = me.master /\ other.state = "Ready"
  <2>1. Reconciled(me, other) = <<[me EXCEPT !.sync = 0], FALSE>>
    BY <1>3 DEF Reconciled
  <2>2. [me EXCEPT !.sync = 0] \in GoodSelves
    BY ResetCoherent
  <2> QED  BY <2>1, <2>2
<1>4. CASE me.state = "Ready" /\ other.from = me.master /\ other.state # "Ready"
  <2>1. Reconciled(me, other) = <<Relinquish(me), TRUE>>
    BY <1>4 DEF Reconciled
  <2>2. Relinquish(me) \in GoodSelves
    BY <1>1, PendingCoherent, ResetCoherent DEF Relinquish
  <2> QED  BY <2>1, <2>2
<1>5. CASE /\ me.state = "Ready" /\ other.from # me.master /\ other.state = "Ready"
           /\ other.master # me.master /\ Senior(other, me)
  <2>1. Reconciled(me, other) = <<Switch(me, other), TRUE>>
    BY <1>5 DEF Reconciled
  <2>2. me.ready = TRUE /\ other.master \in Nodes
    BY <1>1, <1>5 DEF Coherent, Selves, Records
  <2>3. Switch(me, other) \in GoodSelves
    BY <1>1, <1>5, <2>2, FollowerCoherent DEF Switch
  <2> QED  BY <2>1, <2>3
<1>6. CASE /\ ~(me.state = "MasterPending" /\ other.state = "Ready")
           /\ ~(me.state = "Ready" /\ other.from = me.master)
           /\ ~(/\ me.state = "Ready" /\ other.from # me.master
                /\ other.state = "Ready" /\ other.master # me.master
                /\ Senior(other, me))
  <2>1. Reconciled(me, other) = <<me, FALSE>>
    BY <1>6 DEF Reconciled
  <2> QED  BY <2>1
<1> QED  BY <1>2, <1>3, <1>4, <1>5, <1>6

\* A coherent node and a coherent record satisfy the code's assert()s.
LEMMA AssertsFollow ==
  ASSUME NEW me \in GoodSelves, NEW other \in GoodRecords
  PROVE  AssertsOf(me, other)
BY DEF AssertsOf, GoodSelves, GoodRecords, Coherent

\* A node that starts or leaves is coherent.
LEMMA FreshCoherent ==
  ASSUME NEW stamp \in Stamps
  PROVE  Fresh(stamp) \in GoodSelves
BY Constants DEF Fresh, GoodSelves, Selves, Coherent, States

LEMMA GoneCoherent ==
  ASSUME NEW n \in Nodes, self[n] \in GoodSelves
  PROVE  Gone(n) \in GoodSelves
<1> DEFINE me == self[n]
           s1 == [me EXCEPT !.state = "Destroyed"]
           s2 == [s1 EXCEPT !.master = NoMaster]
           s3 == [s2 EXCEPT !.pending = 0]
           s4 == [s3 EXCEPT !.sync = 0]
<1>1. Gone(n) = [s4 EXCEPT !.ready = FALSE]
  BY DEF Gone
<1>2. me \in Selves  BY DEF GoodSelves
<1>3. Gone(n) \in Selves
  <2>1. s1 \in Selves  BY <1>2, Updates DEF States
  <2>2. s2 \in Selves  BY <2>1, Updates
  <2>3. s3 \in Selves  BY <2>2, Updates
  <2>4. s4 \in Selves  BY <2>3, Updates
  <2> QED  BY <1>1, <2>4, Updates
<1>4. Coherent(Gone(n))
  BY <1>2 DEF Gone, Selves, Coherent
<1> QED  BY <1>3, <1>4 DEF GoodSelves

\* The record of a coherent node is coherent.
LEMMA RecordCoherent ==
  ASSUME NEW n \in Nodes, NEW me \in GoodSelves
  PROVE  Record(n, me) \in GoodRecords
BY DEF Record, GoodSelves, Selves, Coherent, GoodRecords, Records

-----------------------------------------------------------------------------
(* What happens to the links.                                              *)

LEMMA BroadcastKeepsLinks ==
  ASSUME NEW links \in [Nodes -> [Nodes -> Seq(GoodRecords)]],
         NEW n \in Nodes, NEW me \in GoodSelves
  PROVE  Broadcast(links, n, me) \in [Nodes -> [Nodes -> Seq(GoodRecords)]]
<1> DEFINE record == Record(n, me)
<1>1. record \in GoodRecords  BY RecordCoherent
<1> HIDE DEF record
<1>2. \A m \in Nodes : Append(links[n][m], record) \in Seq(GoodRecords)
  BY <1>1
<1>3. Broadcast(links, n, me)
        = [links EXCEPT ![n] = [m \in Nodes |->
             IF m = n THEN links[n][m] ELSE Append(links[n][m], record)]]
  BY DEF Broadcast, record
<1> QED  BY <1>2, <1>3

LEMMA TakingKeepsLinks ==
  ASSUME NEW links \in [Nodes -> [Nodes -> Seq(GoodRecords)]],
         NEW m \in Nodes, NEW n \in Nodes, links[m][n] # <<>>
  PROVE  /\ Head(links[m][n]) \in GoodRecords
         /\ [links EXCEPT ![m][n] = Tail(@)]
              \in [Nodes -> [Nodes -> Seq(GoodRecords)]]
<1>1. links[m][n] \in Seq(GoodRecords)  OBVIOUS
<1>2. Head(links[m][n]) \in GoodRecords /\ Tail(links[m][n]) \in Seq(GoodRecords)
  BY <1>1
<1> QED  BY <1>2

-----------------------------------------------------------------------------
(* The invariant.                                                          *)

LEMMA InitEstablishes == Init => IInv
<1> SUFFICES ASSUME Init PROVE IInv  OBVIOUS
<1>1. Fresh(0) \in Selves
  BY Constants DEF Fresh, Selves, States
<1>2. [Fresh(0) EXCEPT !.state = "Destroyed"] \in GoodSelves
  <2>1. [Fresh(0) EXCEPT !.state = "Destroyed"] \in Selves
    BY <1>1, Updates DEF States
  <2>2. Coherent([Fresh(0) EXCEPT !.state = "Destroyed"])
    BY DEF Fresh, Coherent
  <2> QED  BY <2>1, <2>2 DEF GoodSelves
<1>3. SelfOK  BY <1>2 DEF Init, SelfOK
<1>4. LinkOK  BY DEF Init, LinkOK
<1>5. ListOK /\ AssertsHold  BY DEF Init, ListOK, AssertsHold
<1> QED  BY <1>3, <1>4, <1>5 DEF IInv

LEMMA StepPreserves == IInv /\ [Next]_vars => IInv'
<1> SUFFICES ASSUME IInv, [Next]_vars PROVE IInv'  OBVIOUS
<1> USE DEF IInv, SelfOK, LinkOK, ListOK, AssertsHold
<1>1. CASE CalmDown
  BY <1>1 DEF CalmDown
<1>2. ASSUME NEW n \in Nodes, Tick(n) PROVE IInv'
  <2>1. AfterTick(n) \in GoodSelves  BY TickKeepsCoherent
  <2>2. SelfOK'  BY <1>2, <2>1 DEF Tick
  <2>3. LinkOK'  BY <1>2, <2>1, BroadcastKeepsLinks DEF Tick
  <2> QED  BY <1>2, <2>2, <2>3 DEF Tick
<1>3. ASSUME NEW n \in Nodes, Start(n) PROVE IInv'
  <2>1. PICK stamp \in StampsFor(n) :
          /\ self' = [self EXCEPT ![n] = Fresh(stamp)]
          /\ link' = Broadcast(link, n, Fresh(stamp))
    BY <1>3 DEF Start
  <2>2. Fresh(stamp) \in GoodSelves
    BY FreshCoherent, Constants DEF StampsFor
  <2>3. SelfOK'  BY <2>1, <2>2
  <2>4. LinkOK'  BY <2>1, <2>2, BroadcastKeepsLinks
  <2>5. ListOK' /\ AssertsHold'  BY <1>3 DEF Start
  <2> QED  BY <2>3, <2>4, <2>5
<1>4. ASSUME NEW n \in Nodes, Depart(n) PROVE (SelfOK /\ ListOK /\ AssertsHold)'
  <2>1. Gone(n) \in GoodSelves  BY GoneCoherent
  <2> QED  BY <1>4, <2>1 DEF Depart
<1>5. ASSUME NEW n \in Nodes, Destroy(n) PROVE IInv'
  <2>1. Gone(n) \in GoodSelves  BY GoneCoherent
  <2>2. LinkOK'  BY <1>5, <2>1, BroadcastKeepsLinks DEF Destroy
  <2> QED  BY <1>4, <1>5, <2>2 DEF Destroy
<1>6. ASSUME NEW n \in Nodes, Crash(n) PROVE IInv'
  BY <1>4, <1>6 DEF Crash
<1>7. ASSUME NEW m \in Nodes, NEW n \in Nodes, Deliver(m, n) PROVE IInv'
  <2> DEFINE other == Head(link[m][n])
             rest == [link EXCEPT ![m][n] = Tail(@)]
             result == Reconciled(self[n], other)
  <2>1. link[m][n] # <<>>  BY <1>7 DEF Deliver
  <2>2. other \in GoodRecords /\ rest \in [Nodes -> [Nodes -> Seq(GoodRecords)]]
    BY <2>1, TakingKeepsLinks
  <2>3. CASE n \notin Up
    BY <1>7, <2>2, <2>3 DEF Deliver
  <2>4. CASE n \in Up
    <3>1. /\ self' = [self EXCEPT ![n] = result[1]]
          /\ link' = IF result[2] THEN Broadcast(rest, n, result[1]) ELSE rest
          /\ asserted' = (asserted \/ ~AssertsOf(self[n], other))
          /\ nodelist' = [nodelist EXCEPT ![n] =
               IF other.state = "Destroyed" THEN @ \ {m} ELSE @ \cup {m}]
      BY <1>7, <2>4 DEF Deliver
    <3>2. result[1] \in GoodSelves  BY <2>2, ReconciledCoherent
    <3>3. AssertsOf(self[n], other)  BY <2>2, AssertsFollow
    <3> HIDE DEF other, rest, result
    <3>4. SelfOK'  BY <3>1, <3>2
    <3>5. Broadcast(rest, n, result[1]) \in [Nodes -> [Nodes -> Seq(GoodRecords)]]
      BY <2>2, <3>2, BroadcastKeepsLinks
    <3>6. LinkOK'  BY <2>2, <3>1, <3>5
    <3>7. ListOK' /\ AssertsHold'  BY <3>1, <3>3
    <3> QED  BY <3>4, <3>6, <3>7
  <2> QED  BY <2>3, <2>4
<1>8. ASSUME NEW m \in Nodes, NEW n \in Nodes, Lose(m, n) PROVE IInv'
  BY <1>8, TakingKeepsLinks DEF Lose
<1>9. CASE UNCHANGED vars
  BY <1>9 DEF vars
<1> QED
  BY <1>1, <1>2, <1>3, <1>5, <1>6, <1>7, <1>8, <1>9 DEF Next

LEMMA Invariance == Spec => []IInv
<1> QED  BY InitEstablishes, StepPreserves, PTL DEF Spec

-----------------------------------------------------------------------------
(* The theorems.                                                           *)

\* Every node's record and counters keep their types; the counters stay below
\* the thresholds of the timer callback.
THEOREM ElectionTypeCorrect == Spec => []ElectionTypeOK
<1>1. IInv => ElectionTypeOK
  BY DEF IInv, SelfOK, LinkOK, ListOK, GoodSelves, Selves, ElectionTypeOK
<1> QED  BY <1>1, Invariance, PTL

\* The assert()s of reconciliateDMesgPbSys() hold for every record received,
\* however late it arrives and whichever incarnation sent it.
THEOREM AssertsNeverFail == Spec => []AssertsHold
<1>1. IInv => AssertsHold  BY DEF IInv
<1> QED  BY <1>1, Invariance, PTL

\* m_ready, which opens the way for application messages, is set exactly while
\* the node is Ready and has a master.
THEOREM ReadyFlagCorrect == Spec => []ReadyFlagAgrees
<1>1. IInv => ReadyFlagAgrees
  BY DEF IInv, SelfOK, GoodSelves, Coherent, ReadyFlagAgrees
<1> QED  BY <1>1, Invariance, PTL

-----------------------------------------------------------------------------
(* Dmn_Pub and Dmn_Sub: tasks.                                             *)

\* What the operation of a waiting task says of it.
LEMMA WaitingShape ==
  ASSUME NEW t \in Waiting
  PROVE  /\ t.op \in {"publish", "register", "unregister", "take", "destroy"}
         /\ t.op = "publish" => t \in [op: {"publish"}, by: Clients \cup {Nobody}]
         /\ t.op \in {"register", "unregister"} =>
              t \in [op: {"register", "unregister"}, by: Clients, sub: Subs]
         /\ t.op \in {"take", "destroy"} => t \in [op: {"take", "destroy"}, by: Clients]
         /\ t.by \in Clients \cup {Nobody}
         /\ "sub" \in DOMAIN t <=> t.op \in {"register", "unregister"}
  BY DEF Waiting

\* And of the task that runs.
LEMMA RunningShape ==
  ASSUME NEW t \in Running
  PROVE  /\ t.op = "none" => t = NoTask
         /\ t.op = "publish" => t \in Publishing
         /\ t.op \in {"register", "unregister"} =>
              t \in [op: {"register", "unregister"}, by: Clients, sub: Subs]
         /\ t.op \in {"registerFound", "unregisterFound"} => t \in Linking
         /\ t.op = "replay" => t \in Replaying
         /\ t.op \in {"take", "destroy"} => t \in [op: {"take", "destroy"}, by: Clients]
         /\ t.op # "none" => t.by \in Clients \cup {Nobody}
         /\ "sub" \in DOMAIN t <=> t.op \in {"register", "unregister", "registerFound",
                                             "unregisterFound", "replay"}
  BY DEF Running, Waiting, NoTask, Publishing, Linking, Replaying

-----------------------------------------------------------------------------
(* Types.                                                                  *)

\* One value of a function changes.
LEMMA Put ==
  ASSUME NEW D, NEW R, NEW f \in [D -> R], NEW x \in D, NEW v \in R
  PROVE  /\ [f EXCEPT ![x] = v] \in [D -> R]
         /\ [f EXCEPT ![x] = v][x] = v
         /\ \A y \in D : y # x => [f EXCEPT ![x] = v][y] = f[y]
  OBVIOUS

\* One value of one of the functions.
LEMMA PutIn ==
  ASSUME NEW D, NEW E, NEW R, NEW f \in [D -> [E -> R]], NEW x \in D, NEW z \in E, NEW v \in R
  PROVE  /\ [f EXCEPT ![x][z] = v] \in [D -> [E -> R]]
         /\ [f EXCEPT ![x][z] = v][x][z] = v
         /\ \A y \in D, w \in E : y # x \/ w # z => [f EXCEPT ![x][z] = v][y][w] = f[y][w]
<1>1. [f EXCEPT ![x][z] = v] = [f EXCEPT ![x] = [f[x] EXCEPT ![z] = v]]
  OBVIOUS
<1>2. [f[x] EXCEPT ![z] = v] \in [E -> R]
  OBVIOUS
<1> QED
  BY <1>1, <1>2

\* One item of a sequence changes.
LEMMA PutAt ==
  ASSUME NEW S, NEW s \in Seq(S), NEW i, NEW v \in S
  PROVE  /\ [s EXCEPT ![i] = v] \in Seq(S) /\ Len([s EXCEPT ![i] = v]) = Len(s)
         /\ \A j \in 1 .. Len(s) : [s EXCEPT ![i] = v][j] = IF j = i THEN v ELSE s[j]
<1>1. s \in [1 .. Len(s) -> S] /\ Len(s) \in Nat
  OBVIOUS
<1>2. [s EXCEPT ![i] = v] \in [1 .. Len(s) -> S]
  BY <1>1
<1> QED
  BY <1>1, <1>2

\* The items of a longer sequence.
LEMMA AppendAt ==
  ASSUME NEW S, NEW s \in Seq(S), NEW x \in S
  PROVE  /\ Append(s, x)[Len(s) + 1] = x
         /\ \A i \in 1 .. Len(s) : Append(s, x)[i] = s[i]
  OBVIOUS

\* What a task may run as.
LEMMA RunPut ==
  ASSUME PubSubTypeOK, NEW p \in Pubs, NEW t,
         t = NoTask \/ t \in Publishing \cup Linking \cup Replaying \/ (t \in Waiting /\ t.op # "publish")
  PROVE  /\ [run EXCEPT ![p] = t] \in [Pubs -> Running]
         /\ [run EXCEPT ![p] = t][p] = t
         /\ \A q \in Pubs : q # p => [run EXCEPT ![p] = t][q] = run[q]
<1>1. t \in Running /\ run \in [Pubs -> Running]
  BY DEF Running, PubSubTypeOK
<1> QED
  BY <1>1, Put

\* The end of a task.
LEMMA FinishTypes ==
  ASSUME PubSubTypeOK, NEW p \in Pubs, Finish(p)
  PROVE  run' \in [Pubs -> Running] /\ call' \in [Clients -> Calling]
  BY DEF PubSubTypeOK, Finish, Running, Calling

\* A call adds a task at the end of the queue.
LEMMA BeginTypes ==
  ASSUME PubSubTypeOK, NEW p \in Pubs, NEW c \in Clients, NEW t \in Waiting,
         t.op \in {"publish", "register", "unregister", "take", "destroy"}, Begin(c, p, t)
  PROVE  tasks' \in [Pubs -> Seq(Waiting)] /\ call' \in [Clients -> Calling]
  BY DEF PubSubTypeOK, Begin, Enqueue, Calling

\* The history after one more item.
LEMMA TrimmedLen ==
  ASSUME NEW b \in Seq(Nat)
  PROVE  Trimmed(b) \in Seq(Nat) /\ Len(Trimmed(b)) <= Capacity
<1>1. Capacity \in Nat /\ Len(b) \in Nat
  BY PubSubAssumption
<1>2. CASE Len(b) > Capacity
  <2>0. Len(b) - Capacity + 1 \in 1 .. Len(b) + 1
    BY <1>1, <1>2
  <2>1. PICK k \in 1 .. Len(b) + 1 : k = Len(b) - Capacity + 1
    BY <2>0
  <2>2. SubSeq(b, k, Len(b)) \in Seq(Nat) /\ Len(SubSeq(b, k, Len(b))) = Len(b) - k + 1
    BY <2>1, RestOfSeq
  <2>3. Len(b) - k + 1 = Capacity
    BY <1>1, <2>1
  <2> QED
    BY <1>1, <1>2, <2>1, <2>2, <2>3 DEF Trimmed
<1>3. CASE ~(Len(b) > Capacity)
  BY <1>1, <1>3 DEF Trimmed
<1> QED
  BY <1>2, <1>3

\* A failure enters the list.
LEMMA RecordedType ==
  ASSUME NEW list \in Seq(Failures), NEW f \in Failures
  PROVE  Recorded(list, f) \in Seq(Failures)
<1>1. CASE FailureCapacity > 0 /\ Len(list) >= FailureCapacity
  <2>1. list # <<>>
    BY <1>1, PubSubAssumption
  <2> QED
    BY <1>1, <2>1, PubSubAssumption DEF Recorded
<1>2. CASE ~(FailureCapacity > 0 /\ Len(list) >= FailureCapacity)
  BY <1>2, PubSubAssumption DEF Recorded
<1> QED
  BY <1>1, <1>2

\* A callback is called; it throws.
LEMMA OfferTypes ==
  ASSUME PubSubTypeOK, NEW p \in Pubs, NEW s \in Subs, NEW k \in Nat, Offer(p, s, k)
  PROVE  /\ offered' \in [Pubs -> [Subs -> Seq(Nat)]]
         /\ offered'[p][s] = Append(offered[p][s], k)
         /\ \A q \in Pubs, r \in Subs : q # p \/ r # s => offered'[q][r] = offered[q][r]
<1>1. offered \in [Pubs -> [Subs -> Seq(Nat)]] /\ Append(offered[p][s], k) \in Seq(Nat)
  BY DEF PubSubTypeOK
<1>2. offered' = [offered EXCEPT ![p][s] = Append(offered[p][s], k)]
  BY DEF Offer
<1> QED
  BY <1>1, <1>2, PutIn

LEMMA ThrewTypes ==
  ASSUME PubSubTypeOK, NEW p \in Pubs, NEW s \in Subs,
         \E kind \in {"notify", "filter"} : Threw(p, s, kind)
  PROVE  failures' \in [Pubs -> Seq(Failures)] /\ thrown' \in [Pubs -> Seq(Failures)]
<1>1. PICK f \in Failures : /\ failures' = [failures EXCEPT ![p] = Recorded(failures[p], f)]
                            /\ thrown' = [thrown EXCEPT ![p] = Append(thrown[p], f)]
  BY DEF Threw, Failures
<1>2. /\ failures \in [Pubs -> Seq(Failures)] /\ thrown \in [Pubs -> Seq(Failures)]
      /\ failures[p] \in Seq(Failures) /\ thrown[p] \in Seq(Failures)
  BY DEF PubSubTypeOK
<1>3. Recorded(failures[p], f) \in Seq(Failures)
  BY <1>2, RecordedType
<1>4. Append(thrown[p], f) \in Seq(Failures)
  BY <1>2
<1> QED
  BY <1>1, <1>2, <1>3, <1>4, Put

\* Every step keeps the types.
LEMMA TypeStep ==
  ASSUME PubSubTypeOK, [PubSubNext]_pubSubVars
  PROVE  PubSubTypeOK'
<1>1. ASSUME NEW p \in Pubs, StartTask(p) PROVE PubSubTypeOK'
  <2>1. Head(tasks[p]) \in Waiting /\ Tail(tasks[p]) \in Seq(Waiting)
    BY <1>1 DEF StartTask, PubSubTypeOK
  <2>2. CASE Head(tasks[p]).op = "publish"
    <3>1. Head(tasks[p]).by \in Clients \cup {Nobody}
      BY <2>1, WaitingShape
    <3>2. run' \in [Pubs -> Running]
      <4> DEFINE t == [op |-> "publish", by |-> Head(tasks[p]).by, todo |-> subscribers[p], first |-> FALSE]
      <4>1. t \in Publishing
        BY <3>1 DEF PubSubTypeOK, Publishing
      <4>2. run' = [run EXCEPT ![p] = t]
        BY <1>1, <2>2 DEF StartTask
      <4> QED
        BY <4>1, <4>2, RunPut
    <3>3. Append(buffer[p], published'[p]) \in Seq(Nat)
      BY <1>1, <2>2 DEF StartTask, PubSubTypeOK
    <3>4. /\ buffer' = [buffer EXCEPT ![p] = Trimmed(Append(@, published'[p]))]
          /\ published' = [published EXCEPT ![p] = @ + 1]
          /\ outcome' = [outcome EXCEPT ![p] = Append(@, FALSE)]
      BY <1>1, <2>2 DEF StartTask
    <3>6. published' \in [Pubs -> Nat] /\ outcome' \in [Pubs -> Seq(BOOLEAN)]
      BY <3>4 DEF PubSubTypeOK
    <3>5. buffer' \in [Pubs -> Seq(Nat)] /\ \A q \in Pubs : Len(buffer'[q]) <= Capacity
      BY <3>3, <3>4, TrimmedLen DEF PubSubTypeOK
    <3> QED
      BY <1>1, <2>1, <3>2, <3>6, <3>5 DEF StartTask, PubSubTypeOK, inputs
  <2>3. CASE Head(tasks[p]).op # "publish"
    <3>1. run' \in [Pubs -> Running]
      BY <1>1, <2>1, <2>3 DEF StartTask, PubSubTypeOK, Running
    <3> QED
      BY <1>1, <2>1, <2>3, <3>1 DEF StartTask, PubSubTypeOK, inputs
  <2> QED
    BY <2>2, <2>3
<1>2. ASSUME NEW p \in Pubs, NotifyNext(p) PROVE PubSubTypeOK'
  <2>1. /\ run[p] \in Publishing /\ run[p].todo # <<>>
    BY <1>2, RunningShape DEF NotifyNext, PubSubTypeOK
  <2>2. Head(run[p].todo) \in Subs /\ Tail(run[p].todo) \in Seq(Subs)
    BY <2>1 DEF Publishing
  <2>3. \A first \in BOOLEAN :
          [run[p] EXCEPT !.todo = Tail(@), !.first = first] \in Publishing
    BY <2>1, <2>2 DEF Publishing
  <2>4. [run[p] EXCEPT !.todo = Tail(@)] \in Publishing
    BY <2>1, <2>2 DEF Publishing
  <2>5. run' \in [Pubs -> Running]
    <3>1. \/ run' = [run EXCEPT ![p].todo = Tail(@)]
          \/ run' = [run EXCEPT ![p].todo = Tail(@), ![p].first = TRUE]
      BY <1>2 DEF NotifyNext
    <3> QED
      BY <2>3, <2>4, <3>1 DEF Running, PubSubTypeOK
  <2>6. offered' \in [Pubs -> [Subs -> Seq(Nat)]]
    BY <1>2, <2>2, OfferTypes DEF NotifyNext, PubSubTypeOK
  <2>7. failures' \in [Pubs -> Seq(Failures)] /\ thrown' \in [Pubs -> Seq(Failures)]
    <3>1. CASE UNCHANGED <<failures, thrown>>
      BY <3>1 DEF PubSubTypeOK
    <3>2. CASE \E kind \in {"notify", "filter"} : Threw(p, Head(run[p].todo), kind)
      BY <2>2, <3>2, ThrewTypes
    <3> QED
      BY <1>2, <3>1, <3>2 DEF NotifyNext
  <2>8. outcome' \in [Pubs -> Seq(BOOLEAN)]
    <3>1. outcome \in [Pubs -> Seq(BOOLEAN)] /\ outcome[p] \in Seq(BOOLEAN)
      BY DEF PubSubTypeOK
    <3>2. [outcome[p] EXCEPT ![published[p]] = TRUE] \in Seq(BOOLEAN)
      BY <3>1, PutAt
    <3>3. \/ outcome' = outcome
          \/ outcome' = [outcome EXCEPT ![p] = [outcome[p] EXCEPT ![published[p]] = TRUE]]
      BY <1>2 DEF NotifyNext
    <3> QED
      BY <3>1, <3>2, <3>3, Put, ZenonT(40)
  <2> QED
    BY <1>2, <2>5, <2>6, <2>7, <2>8 DEF NotifyNext, PubSubTypeOK, inputs
<1>3. ASSUME NEW p \in Pubs, PublishDone(p) PROVE PubSubTypeOK'
  <2>1. run[p] \in Publishing
    BY <1>3, RunningShape DEF PublishDone, PubSubTypeOK
  <2>2. call' \in [Clients -> Calling] /\ run' \in [Pubs -> Running]
    BY <1>3, <2>1 DEF PublishDone, PubSubTypeOK, Calling, Publishing, Running
  <2> QED
    BY <1>3, <2>2 DEF PublishDone, PubSubTypeOK, inputs, pubVars, history
<1>4. ASSUME NEW p \in Pubs, Find(p) PROVE PubSubTypeOK'
  <2>1. run[p] \in [op: {"register", "unregister"}, by: Clients, sub: Subs]
    BY <1>4, RunningShape DEF Find, PubSubTypeOK
  <2>2. CASE Finish(p)
    <3>1. run' \in [Pubs -> Running] /\ call' \in [Clients -> Calling]
      BY <2>2, FinishTypes
    <3>2. assertFailed' \in BOOLEAN
      BY <1>4 DEF Find, PubSubTypeOK
    <3> QED
      BY <1>4, <3>1, <3>2 DEF Find, PubSubTypeOK, inputs, pubVars, history
  <2>3. CASE ~Finish(p)
    <3>1. run' \in [Pubs -> Running]
      <4>1. PICK o \in {"registerFound", "unregisterFound"} :
              run' = [run EXCEPT ![p] = [op |-> o, by |-> run[p].by, sub |-> run[p].sub,
                                         found |-> pubsOf[run[p].sub]]]
        BY <1>4, <2>3 DEF Find
      <4>2. [op |-> o, by |-> run[p].by, sub |-> run[p].sub, found |-> pubsOf[run[p].sub]] \in Linking
        BY <2>1 DEF PubSubTypeOK, Linking
      <4> QED
        BY <4>1, <4>2, RunPut
    <3> QED
      BY <1>4, <2>3, <3>1 DEF Find, PubSubTypeOK, inputs, pubVars, history
  <2> QED
    BY <2>2, <2>3
<1>5. ASSUME NEW p \in Pubs, Register(p) PROVE PubSubTypeOK'
  <2>1. run[p] \in Linking
    BY <1>5, RunningShape DEF Register, PubSubTypeOK
  <2> DEFINE s == run[p].sub
             todo == SubSeq(buffer[p], Skipped(s, Len(buffer[p])) + 1, Len(buffer[p]))
  <2>2. /\ s \in Subs /\ run[p].found \in Seq(Pubs) /\ run[p].by \in Clients
        /\ buffer[p] \in Seq(Nat) /\ Len(buffer[p]) \in Nat
    BY <2>1 DEF PubSubTypeOK, Linking
  <2>3. Skipped(s, Len(buffer[p])) \in Int /\ Skipped(s, Len(buffer[p])) >= 0
    BY <2>2, PubSubAssumption DEF Skipped
  <2>4. todo \in Seq(Nat)
    BY <2>2, <2>3, SubSeqProperties
  <2>5. run' \in [Pubs -> Running]
    <3>1. run' = [run EXCEPT ![p] = [op |-> "replay", by |-> run[p].by, sub |-> s, todo |-> todo]]
      BY <1>5 DEF Register
    <3>2. [op |-> "replay", by |-> run[p].by, sub |-> s, todo |-> todo] \in Replaying
      BY <2>2, <2>4 DEF Replaying
    <3> QED
      BY <3>1, <3>2 DEF PubSubTypeOK, Running
  <2>6. /\ pubsOf' \in [Subs -> Seq(Pubs)] /\ subscribers' \in [Pubs -> Seq(Subs)]
        /\ joined' \in [Pubs -> [Subs -> Nat]] /\ offered' \in [Pubs -> [Subs -> Seq(Nat)]]
    <3>1. /\ pubsOf' = [pubsOf EXCEPT ![s] = Append(run[p].found, p)]
          /\ subscribers' = [subscribers EXCEPT ![p] = Append(@, s)]
          /\ joined' = [joined EXCEPT ![p][s] = published[p]]
          /\ offered' = [offered EXCEPT ![p][s] = <<>>]
      BY <1>5 DEF Register
    <3>2. Append(run[p].found, p) \in Seq(Pubs) /\ <<>> \in Seq(Nat)
      BY <2>2
    <3>3. pubsOf' \in [Subs -> Seq(Pubs)] /\ subscribers' \in [Pubs -> Seq(Subs)]
      BY <2>2, <3>1, <3>2, SMTT(30) DEF PubSubTypeOK
    <3>4. joined' \in [Pubs -> [Subs -> Nat]] /\ offered' \in [Pubs -> [Subs -> Seq(Nat)]]
      <4>1. /\ joined \in [Pubs -> [Subs -> Nat]] /\ offered \in [Pubs -> [Subs -> Seq(Nat)]]
            /\ published[p] \in Nat
        BY DEF PubSubTypeOK
      <4>2. joined' \in [Pubs -> [Subs -> Nat]]
        BY <2>2, <3>1, <4>1, PutIn
      <4>3. offered' \in [Pubs -> [Subs -> Seq(Nat)]]
        BY <2>2, <3>1, <3>2, <4>1, PutIn
      <4> QED
        BY <4>2, <4>3
    <3> QED
      BY <3>3, <3>4
  <2> QED
    BY <1>5, <2>5, <2>6 DEF Register, PubSubTypeOK, inputs
<1>6. ASSUME NEW p \in Pubs, ReplayNext(p) PROVE PubSubTypeOK'
  <2>1. run[p] \in Replaying /\ run[p].todo # <<>>
    BY <1>6, RunningShape DEF ReplayNext, PubSubTypeOK
  <2>2. run[p].sub \in Subs /\ Head(run[p].todo) \in Nat /\ Tail(run[p].todo) \in Seq(Nat)
    BY <2>1 DEF Replaying
  <2>5. [run[p] EXCEPT !.todo = Tail(@)] \in Replaying
    BY <2>1, <2>2 DEF Replaying
  <2>6. run' = [run EXCEPT ![p] = [run[p] EXCEPT !.todo = Tail(@)]]
    BY <1>6 DEF ReplayNext
  <2>7. run' \in [Pubs -> Running]
    BY <2>5, <2>6, RunPut
  <2>3. run' \in [Pubs -> Running] /\ offered' \in [Pubs -> [Subs -> Seq(Nat)]]
    BY <1>6, <2>2, <2>7, OfferTypes DEF ReplayNext
  <2>4. failures' \in [Pubs -> Seq(Failures)] /\ thrown' \in [Pubs -> Seq(Failures)]
    <3>1. CASE UNCHANGED <<failures, thrown>>
      BY <3>1 DEF PubSubTypeOK
    <3>2. CASE Threw(p, run[p].sub, "notify")
      BY <2>2, <3>2, ThrewTypes
    <3> QED
      BY <1>6, <3>1, <3>2 DEF ReplayNext
  <2> QED
    BY <1>6, <2>3, <2>4 DEF ReplayNext, PubSubTypeOK, inputs
<1>7. ASSUME NEW p \in Pubs, ReplayDone(p) PROVE PubSubTypeOK'
  <2>1. run' \in [Pubs -> Running] /\ call' \in [Clients -> Calling]
    BY <1>7, FinishTypes DEF ReplayDone
  <2> QED
    BY <1>7, <2>1 DEF ReplayDone, PubSubTypeOK, inputs, pubVars, history
<1>8. ASSUME NEW p \in Pubs, Unregister(p) PROVE PubSubTypeOK'
  <2>1. run' \in [Pubs -> Running] /\ call' \in [Clients -> Calling]
    BY <1>8, FinishTypes DEF Unregister
  <2>2. run[p] \in Linking
    BY <1>8, RunningShape DEF Unregister, PubSubTypeOK
  <2>3. /\ run[p].sub \in Subs /\ RemoveFirst(run[p].found, p) \in Seq(Pubs)
        /\ \A others \in Others(subscribers[p], run[p].sub) : others \in Seq(Subs)
    BY <2>2, FirstRemoved, OthersOf DEF Linking, PubSubTypeOK
  <2>4. pubsOf' \in [Subs -> Seq(Pubs)] /\ subscribers' \in [Pubs -> Seq(Subs)]
    BY <1>8, <2>3 DEF Unregister, PubSubTypeOK
  <2> QED
    BY <1>8, <2>1, <2>4 DEF Unregister, PubSubTypeOK, inputs, history
<1>9. ASSUME NEW p \in Pubs, Take(p) PROVE PubSubTypeOK'
  <2>1. run' \in [Pubs -> Running] /\ call' \in [Clients -> Calling]
    BY <1>9, FinishTypes DEF Take
  <2>2. failures' \in [Pubs -> Seq(Failures)] /\ thrown' \in [Pubs -> Seq(Failures)]
    BY <1>9 DEF Take, PubSubTypeOK
  <2> QED
    BY <1>9, <2>1, <2>2 DEF Take, PubSubTypeOK, inputs
<1>10. ASSUME NEW p \in Pubs, Unlink(p) PROVE PubSubTypeOK'
  <2>1. run' \in [Pubs -> Running] /\ call' \in [Clients -> Calling]
    BY <1>10, FinishTypes DEF Unlink
  <2>2. \A s \in Subs : RemoveFirst(pubsOf[s], p) \in Seq(Pubs)
    BY FirstRemoved DEF PubSubTypeOK
  <2>3. /\ pubsOf' \in [Subs -> Seq(Pubs)] /\ subscribers' \in [Pubs -> Seq(Subs)]
        /\ alive' \subseteq Pubs /\ assertFailed' \in BOOLEAN
    BY <1>10, <2>2 DEF Unlink, PubSubTypeOK
  <2> QED
    BY <1>10, <2>1, <2>3 DEF Unlink, PubSubTypeOK, inputs, history
<1>11. ASSUME NEW p \in Pubs, Publish(p) PROVE PubSubTypeOK'
  <2>1. [op |-> "publish", by |-> Nobody] \in Waiting
    BY DEF Waiting
  <2>2. tasks' \in [Pubs -> Seq(Waiting)] /\ issued' \in [Pubs -> 0 .. MaxItems]
    BY <1>11, <2>1, PubSubAssumption DEF Publish, Enqueue, PubSubTypeOK
  <2> QED
    BY <1>11, <2>2 DEF Publish, PubSubTypeOK, pubVars, history
<1>12. ASSUME NEW c \in Clients, NEW p \in Pubs, ClientStep(c, p) PROVE PubSubTypeOK'
  <2>1. /\ \A s \in Subs, o \in {"register", "unregister"} : [op |-> o, by |-> c, sub |-> s] \in Waiting
        /\ \A o \in {"take", "destroy", "publish"} : [op |-> o, by |-> c] \in Waiting
    BY DEF Waiting
  <2>2. tasks' \in [Pubs -> Seq(Waiting)] /\ call' \in [Clients -> Calling]
    BY <1>12, <2>1, BeginTypes
       DEF ClientStep, PublishAndWait, TakeCallbackFailures, DestroyPub, RegisterSubscriber,
           UnregisterSubscriber
  <2>4. /\ \/ issued' = issued
           \/ issued[p] < MaxItems /\ issued' = [issued EXCEPT ![p] = @ + 1]
        /\ \/ registrations' = registrations
           \/ registrations < MaxRegistrations /\ registrations' = registrations + 1
    BY <1>12 DEF ClientStep, PublishAndWait, TakeCallbackFailures, DestroyPub, RegisterSubscriber,
           UnregisterSubscriber, inputs
  <2>3. issued' \in [Pubs -> 0 .. MaxItems] /\ registrations' \in 0 .. MaxRegistrations
    <3>1. /\ issued \in [Pubs -> 0 .. MaxItems] /\ registrations \in 0 .. MaxRegistrations
          /\ MaxItems \in Nat /\ MaxRegistrations \in Nat
      BY PubSubAssumption DEF PubSubTypeOK
    <3>2. issued[p] < MaxItems => issued[p] + 1 \in 0 .. MaxItems
      BY <3>1
    <3>3. registrations' \in 0 .. MaxRegistrations
      BY <2>4, <3>1
    <3>4. issued' \in [Pubs -> 0 .. MaxItems]
      BY <2>4, <3>1, <3>2
    <3> QED
      BY <3>3, <3>4
  <2> QED
    BY <1>12, <2>2, <2>3 DEF ClientStep, PublishAndWait, TakeCallbackFailures, DestroyPub,
       RegisterSubscriber, UnregisterSubscriber, PubSubTypeOK, pubVars, history
<1>13. ASSUME NEW c \in Clients, Return(c) PROVE PubSubTypeOK'
  <2>1. call' \in [Clients -> Calling]
    BY <1>13 DEF Return, PubSubTypeOK, Calling
  <2> QED
    BY <1>13, <2>1 DEF Return, PubSubTypeOK, inputs, pubVars, history
<1>14. CASE UNCHANGED pubSubVars
  BY <1>14 DEF pubSubVars, inputs, pubVars, history, PubSubTypeOK
<1> QED
  BY <1>1, <1>2, <1>3, <1>4, <1>5, <1>6, <1>7, <1>8, <1>9, <1>10, <1>11, <1>12, <1>13, <1>14
     DEF PubSubNext, WorkerStep

-----------------------------------------------------------------------------
(* The list of failures.                                                   *)

\* How many failures are kept, and which.
LEMMA KeptBound ==
  ASSUME NEW n \in Nat
  PROVE  /\ Kept(n) \in 0 .. n
         /\ FailureCapacity < 0 => Kept(n) = n
         /\ FailureCapacity >= 0 /\ n < FailureCapacity => Kept(n) = n
         /\ FailureCapacity >= 0 /\ n >= FailureCapacity => Kept(n) = FailureCapacity
  BY PubSubAssumption DEF Kept

LEMMA NewestItems ==
  ASSUME NEW S, NEW t \in Seq(S), NEW n, n = Len(t), NEW k, k = Kept(n)
  PROVE  /\ Newest(t) \in Seq(S) /\ Len(Newest(t)) = k
         /\ \A i \in 1 .. k : Newest(t)[i] = t[n - k + i]
<1>1. n \in Nat /\ k \in 0 .. n
  BY KeptBound
<1>2. PICK b \in 1 .. n + 1 : b = n - k + 1
  <2>1. n - k + 1 \in 1 .. n + 1
    BY <1>1
  <2> QED
    BY <2>1
<1>3. /\ SubSeq(t, b, n) \in Seq(S) /\ Len(SubSeq(t, b, n)) = n - b + 1
      /\ \A i \in 1 .. n - b + 1 : SubSeq(t, b, n)[i] = t[b - 1 + i]
  BY <1>2, RestOfSeq
<1>4. n - b + 1 = k /\ \A i \in 1 .. k : b - 1 + i = n - k + i
  BY <1>1, <1>2
<1>5. Newest(t) = SubSeq(t, b, n)
  BY <1>2 DEF Newest
<1> QED
  BY <1>3, <1>4, <1>5

\* recordCallbackFailure() drops the oldest failure, or none, or the new one.
LEMMA RecordedNewest ==
  ASSUME NEW t \in Seq(Failures), NEW f \in Failures
  PROVE  Recorded(Newest(t), f) = Newest(Append(t, f))
<1> DEFINE n == Len(t)
           k == Kept(n)
           u == Append(t, f)
           m == Kept(n + 1)
           r == Recorded(Newest(t), f)
<1>1. n \in Nat /\ FailureCapacity \in Int /\ u \in Seq(Failures) /\ Len(u) = n + 1
      /\ (\A i \in 1 .. n : u[i] = t[i]) /\ u[n + 1] = f
  BY PubSubAssumption
<1>2. /\ Newest(t) \in Seq(Failures) /\ Len(Newest(t)) = k
      /\ \A i \in 1 .. k : Newest(t)[i] = t[n - k + i]
  BY NewestItems
<1>3. /\ Newest(u) \in Seq(Failures) /\ Len(Newest(u)) = m
      /\ \A i \in 1 .. m : Newest(u)[i] = u[(n + 1) - m + i]
  <2> HIDE DEF u, n, m
  <2>1. n + 1 = Len(u) /\ m = Kept(n + 1)
    BY <1>1 DEF m
  <2> QED
    BY <1>1, <2>1, NewestItems
<1>4. k \in 0 .. n /\ m \in 0 .. n + 1
  BY <1>1, KeptBound
<1>5. CASE FailureCapacity = 0
  <2>1. k = 0 /\ m = 0
    BY <1>1, <1>5, KeptBound
  <2>2. r = Newest(t)
    BY <1>5 DEF Recorded
  <2> QED
    BY <1>2, <1>3, <2>1, <2>2, SeqEqual
<1>6. CASE FailureCapacity > 0 /\ n >= FailureCapacity
  <2>1. k = FailureCapacity /\ m = FailureCapacity
    BY <1>1, <1>6, KeptBound
  <2>2. r = Append(Tail(Newest(t)), f)
    BY <1>2, <1>6, <2>1 DEF Recorded
  <2>3. /\ Tail(Newest(t)) \in Seq(Failures) /\ Len(Tail(Newest(t))) = k - 1
        /\ \A i \in 1 .. k - 1 : Tail(Newest(t))[i] = Newest(t)[i + 1]
    BY <1>1, <1>2, <1>6, <2>1, TailRest
  <2>4. /\ r \in Seq(Failures) /\ Len(r) = k /\ r[k] = f
        /\ \A i \in 1 .. k - 1 : r[i] = Newest(t)[i + 1]
    <3> HIDE DEF r, k
    <3>1. \A i \in 1 .. k - 1 : i \in 1 .. Len(Tail(Newest(t)))
      BY <2>3
    <3> QED
      BY <1>1, <1>4, <1>6, <2>1, <2>2, <2>3, <3>1
  <2>5. ASSUME NEW i \in 1 .. m PROVE r[i] = Newest(u)[i]
    <3> HIDE DEF r, k, m, u, n
    <3>1. CASE i = k
      <4>1. (n + 1) - m + i = n + 1
        BY <1>1, <1>4, <2>1, <3>1
      <4> QED
        BY <1>1, <1>3, <2>4, <2>5, <3>1, <4>1
    <3>2. CASE i # k
      <4>1. i \in 1 .. k - 1 /\ i + 1 \in 1 .. k /\ n - k + (i + 1) \in 1 .. n
        BY <1>1, <1>4, <2>1, <2>5, <3>2
      <4>2. (n + 1) - m + i = n - k + (i + 1)
        BY <1>1, <1>4, <2>1, <4>1
      <4>3. r[i] = t[n - k + (i + 1)]
        BY <1>2, <2>4, <4>1
      <4> QED
        BY <1>1, <1>3, <2>5, <4>1, <4>2, <4>3
    <3> QED
      BY <3>1, <3>2
  <2> QED
    BY <1>3, <2>1, <2>4, <2>5, SeqEqual
<1>7. CASE FailureCapacity < 0 \/ n < FailureCapacity
  <2>1. k = n /\ m = n + 1
    BY <1>1, <1>7, KeptBound
  <2>2. r = Append(Newest(t), f)
    BY <1>1, <1>2, <1>7, <2>1 DEF Recorded
  <2>3. /\ r \in Seq(Failures) /\ Len(r) = n + 1 /\ r[n + 1] = f
        /\ \A i \in 1 .. n : r[i] = Newest(t)[i]
    <3> HIDE DEF r, k, n
    <3> QED
      BY <1>1, <1>2, <2>1, <2>2
  <2>4. ASSUME NEW i \in 1 .. n + 1 PROVE r[i] = Newest(u)[i]
    <3> HIDE DEF r, k, m, u, n
    <3>1. i \in 1 .. m /\ (n + 1) - m + i = i
      BY <1>1, <2>1, <2>4
    <3>2. Newest(u)[i] = u[i]
      BY <1>3, <3>1
    <3>3. CASE i = n + 1
      BY <1>1, <2>3, <3>2, <3>3
    <3>4. CASE i # n + 1
      <4>1. i \in 1 .. n /\ i \in 1 .. k /\ n - k + i = i
        BY <1>1, <2>1, <2>4, <3>4
      <4> QED
        BY <1>1, <1>2, <2>3, <3>2, <4>1
    <3> QED
      BY <3>3, <3>4
  <2> QED
    BY <1>3, <2>1, <2>3, <2>4, SeqEqual
<1> QED
  BY <1>1, <1>5, <1>6, <1>7

\* Every step keeps the newest failures.
LEMMA FailuresStep ==
  ASSUME PubSubTypeOK, FailuresKept, [PubSubNext]_pubSubVars
  PROVE  FailuresKept'
<1>1. ASSUME UNCHANGED <<failures, thrown>> PROVE FailuresKept'
  BY <1>1 DEF FailuresKept
<1>2. ASSUME NEW p \in Pubs, NEW s \in Subs, \E kind \in {"notify", "filter"} : Threw(p, s, kind)
      PROVE  FailuresKept'
  <2>1. PICK f \in Failures : /\ failures' = [failures EXCEPT ![p] = Recorded(failures[p], f)]
                              /\ thrown' = [thrown EXCEPT ![p] = Append(thrown[p], f)]
    BY <1>2 DEF Threw, Failures
  <2>2. /\ failures \in [Pubs -> Seq(Failures)] /\ thrown \in [Pubs -> Seq(Failures)]
        /\ thrown[p] \in Seq(Failures)
    BY DEF PubSubTypeOK
  <2>3. Recorded(failures[p], f) = Newest(Append(thrown[p], f))
    BY <2>2, RecordedNewest DEF FailuresKept
  <2> QED
    BY <2>1, <2>2, <2>3 DEF FailuresKept
<1>3. ASSUME NEW p \in Pubs, NotifyNext(p) PROVE FailuresKept'
  <2>1. Head(run[p].todo) \in Subs
    <3>1. run[p] \in Publishing /\ run[p].todo # <<>>
      BY <1>3, RunningShape DEF NotifyNext, PubSubTypeOK
    <3> QED
      BY <3>1 DEF Publishing
  <2> QED
    BY <1>1, <1>2, <1>3, <2>1 DEF NotifyNext
<1>4. ASSUME NEW p \in Pubs, ReplayNext(p) PROVE FailuresKept'
  <2>1. run[p].sub \in Subs
    <3>1. run[p] \in Replaying
      BY <1>4, RunningShape DEF ReplayNext, PubSubTypeOK
    <3> QED
      BY <3>1 DEF Replaying
  <2> QED
    BY <1>1, <1>2, <1>4, <2>1 DEF ReplayNext
<1>5. ASSUME NEW p \in Pubs, Take(p) PROVE FailuresKept'
  <2>1. Newest(<<>>) = <<>>
    <3>1. <<>> \in Seq(Failures) /\ Len(<<>>) = 0 /\ Kept(0) = 0
      BY KeptBound
    <3>2. Newest(<<>>) \in Seq(Failures) /\ Len(Newest(<<>>)) = 0
      BY <3>1, NewestItems
    <3> QED
      BY <3>2
  <2> QED
    BY <1>5, <2>1 DEF Take, FailuresKept, PubSubTypeOK
<1>6. ASSUME NEW p \in Pubs,
             StartTask(p) \/ PublishDone(p) \/ Find(p) \/ Register(p) \/ ReplayDone(p)
               \/ Unregister(p) \/ Unlink(p) \/ Publish(p)
      PROVE  FailuresKept'
  BY <1>1, <1>6 DEF StartTask, PublishDone, Find, Register, ReplayDone, Unregister, Unlink, Publish,
     pubVars, history
<1>7. ASSUME NEW c \in Clients, NEW p \in Pubs, ClientStep(c, p) PROVE FailuresKept'
  BY <1>1, <1>7 DEF ClientStep, PublishAndWait, TakeCallbackFailures, DestroyPub,
     RegisterSubscriber, UnregisterSubscriber, pubVars, history
<1>8. CASE \E c \in Clients : Return(c)
  BY <1>1, <1>8 DEF Return, pubVars, history
<1>9. CASE UNCHANGED pubSubVars
  BY <1>1, <1>9 DEF pubSubVars, pubVars, history
<1> QED
  BY <1>3, <1>4, <1>5, <1>6, <1>7, <1>8, <1>9 DEF PubSubNext, WorkerStep

-----------------------------------------------------------------------------
(* The history.                                                            *)

\* The history after one more publication.
LEMMA TrimmedRecent ==
  ASSUME NEW n \in Nat
  PROVE  Trimmed(Append(Recent(n), n + 1)) = Recent(n + 1)
<1> DEFINE k == IF n < Capacity THEN n ELSE Capacity
           b == Append(Recent(n), n + 1)
           m == IF n + 1 < Capacity THEN n + 1 ELSE Capacity
<1>1. Capacity \in Nat /\ k \in 0 .. n /\ m \in 0 .. n + 1
  BY PubSubAssumption
<1>2. /\ Recent(n) \in Seq(Nat) /\ Len(Recent(n)) = k
      /\ \A i \in 1 .. k : Recent(n)[i] = n - k + i
  <2> HIDE DEF k
  <2>1. Recent(n) = [i \in 1 .. k |-> n - k + i]
    BY DEF Recent, k
  <2>2. \A i \in 1 .. k : n - k + i \in Nat
    BY <1>1
  <2> QED
    BY <1>1, <2>1, <2>2
<1>3. /\ Recent(n + 1) \in Seq(Nat) /\ Len(Recent(n + 1)) = m
      /\ \A i \in 1 .. m : Recent(n + 1)[i] = (n + 1) - m + i
  <2> HIDE DEF m
  <2>1. Recent(n + 1) = [i \in 1 .. m |-> (n + 1) - m + i]
    BY DEF Recent, m
  <2>2. \A i \in 1 .. m : (n + 1) - m + i \in Nat
    BY <1>1
  <2> QED
    BY <1>1, <2>1, <2>2
<1>4. /\ b \in Seq(Nat) /\ Len(b) = k + 1 /\ b[k + 1] = n + 1
      /\ \A i \in 1 .. k + 1 : b[i] = n - k + i
  <2> HIDE DEF k
  <2>1. n + 1 \in Nat /\ n - k + (k + 1) = n + 1
    BY <1>1
  <2>2. /\ b \in Seq(Nat) /\ Len(b) = k + 1 /\ b[k + 1] = n + 1
        /\ \A i \in 1 .. k : b[i] = Recent(n)[i]
    BY <1>1, <1>2, <2>1
  <2>3. \A i \in 1 .. k + 1 : i = k + 1 \/ i \in 1 .. k
    BY <1>1
  <2> QED
    BY <1>2, <2>1, <2>2, <2>3
<1>5. CASE n < Capacity
  <2>1. k = n /\ m = n + 1 /\ ~(Len(b) > Capacity)
    BY <1>1, <1>4, <1>5
  <2>2. Trimmed(b) = b
    BY <2>1 DEF Trimmed
  <2>3. \A i \in 1 .. m : b[i] = Recent(n + 1)[i]
    <3> HIDE DEF b, k, m
    <3> QED
      BY <1>1, <1>3, <1>4, <2>1
  <2> HIDE DEF b, k, m
  <2>4. b = Recent(n + 1)
    BY <1>3, <1>4, <2>1, <2>3, SeqEqual
  <2> QED
    BY <2>2, <2>4 DEF b
<1>6. CASE ~(n < Capacity)
  <2>1. k = Capacity /\ m = Capacity /\ Len(b) = Capacity + 1 /\ Len(b) > Capacity
    BY <1>1, <1>4, <1>6
  <2>2. Trimmed(b) = SubSeq(b, 2, Len(b))
    <3>1. Len(b) - Capacity + 1 = 2
      BY <1>1, <2>1
    <3> QED
      BY <2>1, <3>1 DEF Trimmed
  <2> HIDE DEF b, k, m
  <2>3. /\ SubSeq(b, 2, Len(b)) \in Seq(Nat) /\ Len(SubSeq(b, 2, Len(b))) = Len(b) - 2 + 1
        /\ \A i \in 1 .. Len(b) - 2 + 1 : SubSeq(b, 2, Len(b))[i] = b[2 - 1 + i]
    <3>1. PICK j \in 1 .. Len(b) + 1 : j = 2
      BY <1>1, <2>1
    <3>2. /\ SubSeq(b, j, Len(b)) \in Seq(Nat) /\ Len(SubSeq(b, j, Len(b))) = Len(b) - j + 1
          /\ \A i \in 1 .. Len(b) - j + 1 : SubSeq(b, j, Len(b))[i] = b[j - 1 + i]
      BY <1>4, RestOfSeq, SMTT(30)
    <3> QED
      BY <3>1, <3>2
  <2>4. Len(b) - 2 + 1 = m
    BY <1>1, <2>1
  <2>5. ASSUME NEW i \in 1 .. m PROVE SubSeq(b, 2, Len(b))[i] = Recent(n + 1)[i]
    <3>1. 2 - 1 + i \in 1 .. k + 1 /\ n - k + (2 - 1 + i) = (n + 1) - m + i
      BY <1>1, <2>1, <2>5
    <3> QED
      BY <1>3, <1>4, <2>3, <2>4, <2>5, <3>1
  <2>6. Trimmed(b) = Recent(n + 1)
    BY <1>3, <2>2, <2>3, <2>4, <2>5, SeqEqual, ZenonT(40)
  <2> QED
    BY <2>6 DEF b
<1> QED
  BY <1>5, <1>6

\* What starting a publication does.
LEMMA StartPublish ==
  ASSUME PubSubTypeOK, NEW p \in Pubs, StartTask(p), Head(tasks[p]).op = "publish"
  PROVE  /\ published'[p] = published[p] + 1 /\ outcome'[p] = Append(outcome[p], FALSE)
         /\ buffer'[p] = Trimmed(Append(buffer[p], published[p] + 1))
         /\ run'[p] = [op |-> "publish", by |-> Head(tasks[p]).by,
                       todo |-> subscribers[p], first |-> FALSE]
         /\ \A q \in Pubs : q # p => UNCHANGED <<buffer[q], published[q], outcome[q], run[q]>>
         /\ UNCHANGED <<subscribers, joined, offered, call>>
<1>1. /\ published' = [published EXCEPT ![p] = published[p] + 1]
      /\ buffer' = [buffer EXCEPT ![p] = Trimmed(Append(buffer[p], published'[p]))]
      /\ outcome' = [outcome EXCEPT ![p] = Append(outcome[p], FALSE)]
      /\ run' = [run EXCEPT ![p] = [op |-> "publish", by |-> Head(tasks[p]).by,
                                    todo |-> subscribers[p], first |-> FALSE]]
      /\ UNCHANGED <<subscribers, joined, offered, call>>
  BY DEF StartTask
<1> QED
  BY <1>1 DEF PubSubTypeOK

\* Every step keeps the history exact.
LEMMA HistoryStep ==
  ASSUME PubSubTypeOK, HistoryExact, [PubSubNext]_pubSubVars
  PROVE  HistoryExact'
<1>1. ASSUME UNCHANGED <<buffer, published, outcome, joined>> PROVE HistoryExact'
  BY <1>1 DEF HistoryExact
<1>2. ASSUME NEW p \in Pubs, StartTask(p) PROVE HistoryExact'
  <2>1. CASE Head(tasks[p]).op = "publish"
    <3>1. /\ published'[p] = published[p] + 1
          /\ buffer'[p] = Trimmed(Append(buffer[p], published[p] + 1))
          /\ outcome'[p] = Append(outcome[p], FALSE) /\ joined' = joined
          /\ \A q \in Pubs : q # p => UNCHANGED <<buffer[q], published[q], outcome[q]>>
      BY <1>2, <2>1, StartPublish
    <3>2. published[p] \in Nat /\ outcome[p] \in Seq(BOOLEAN) /\ joined[p] \in [Subs -> Nat]
      BY DEF PubSubTypeOK
    <3>3. buffer[p] = Recent(published[p]) /\ Len(outcome[p]) = published[p]
      BY DEF HistoryExact
    <3>4. buffer'[p] = Recent(published'[p])
      BY <3>1, <3>2, <3>3, TrimmedRecent
    <3>5. Len(outcome'[p]) = published'[p]
      BY <3>1, <3>2, <3>3
    <3>6. \A s \in Subs : joined'[p][s] <= published'[p]
      BY <3>1, <3>2 DEF HistoryExact
    <3> QED
      BY <3>1, <3>4, <3>5, <3>6 DEF HistoryExact
  <2>2. CASE Head(tasks[p]).op # "publish"
    BY <1>1, <1>2, <2>2 DEF StartTask
  <2> QED
    BY <2>1, <2>2
<1>3. ASSUME NEW p \in Pubs, NotifyNext(p) PROVE HistoryExact'
  <2>1. outcome \in [Pubs -> Seq(BOOLEAN)] /\ outcome[p] \in Seq(BOOLEAN)
    BY DEF PubSubTypeOK
  <2>2. \/ outcome' = outcome
        \/ outcome' = [outcome EXCEPT ![p] = [outcome[p] EXCEPT ![published[p]] = TRUE]]
    BY <1>3 DEF NotifyNext
  <2>3. Len([outcome[p] EXCEPT ![published[p]] = TRUE]) = Len(outcome[p])
    BY <2>1, PutAt
  <2>4. \A q \in Pubs : Len(outcome'[q]) = Len(outcome[q])
    BY <2>1, <2>2, <2>3
  <2> QED
    BY <1>3, <2>4 DEF NotifyNext, HistoryExact
<1>4. ASSUME NEW p \in Pubs, Register(p) PROVE HistoryExact'
  <2>1. run[p].sub \in Subs
    <3>1. run[p] \in Linking
      BY <1>4, RunningShape DEF Register, PubSubTypeOK
    <3> QED
      BY <3>1 DEF Linking
  <2>2. joined' = [joined EXCEPT ![p][run[p].sub] = published[p]] /\ UNCHANGED <<buffer, published, outcome>>
    BY <1>4 DEF Register
  <2>3. joined \in [Pubs -> [Subs -> Nat]] /\ published[p] \in Nat
    BY DEF PubSubTypeOK
  <2>4. \A q \in Pubs, s \in Subs : joined'[q][s] = joined[q][s] \/ (q = p /\ joined'[q][s] = published[p])
    BY <2>1, <2>2, <2>3, PutIn
  <2> QED
    BY <2>2, <2>3, <2>4 DEF HistoryExact
<1>5. ASSUME NEW p \in Pubs,
             PublishDone(p) \/ Find(p) \/ ReplayNext(p) \/ ReplayDone(p) \/ Unregister(p) \/ Take(p)
               \/ Unlink(p) \/ Publish(p)
      PROVE  HistoryExact'
  BY <1>1, <1>5 DEF PublishDone, Find, ReplayNext, ReplayDone, Unregister, Take, Unlink, Publish,
     pubVars, history
<1>6. ASSUME NEW c \in Clients, NEW p \in Pubs, ClientStep(c, p) PROVE HistoryExact'
  BY <1>1, <1>6 DEF ClientStep, PublishAndWait, TakeCallbackFailures, DestroyPub,
     RegisterSubscriber, UnregisterSubscriber, pubVars, history
<1>7. CASE \E c \in Clients : Return(c)
  BY <1>1, <1>7 DEF Return, pubVars, history
<1>8. CASE UNCHANGED pubSubVars
  BY <1>1, <1>8 DEF pubSubVars, pubVars, history
<1> QED
  BY <1>2, <1>3, <1>4, <1>5, <1>6, <1>7, <1>8 DEF PubSubNext, WorkerStep

-----------------------------------------------------------------------------
(* What publish() returns.                                                 *)

\* The end of a task, of which only its caller hears.
LEMMA Finished ==
  ASSUME PubSubTypeOK, NEW p \in Pubs, Finish(p)
  PROVE  /\ run'[p] = NoTask /\ \A q \in Pubs : q # p => run'[q] = run[q]
         /\ \A c \in Clients : call'[c] = IF run[p].by = c THEN Free ELSE call[c]
  BY DEF Finish, PubSubTypeOK

\* What changes in the run and the calls when no publication starts, delivers or ends.
LEMMA QuietStep ==
  ASSUME PubSubTypeOK, [PubSubNext]_pubSubVars,
         \A p \in Pubs : /\ ~NotifyNext(p) /\ ~PublishDone(p)
                         /\ ~(StartTask(p) /\ Head(tasks[p]).op = "publish")
  PROVE  /\ UNCHANGED <<published, outcome>>
         /\ \A p \in Pubs : run[p].op = "publish" \/ run'[p].op = "publish" => run'[p] = run[p]
         /\ \A c \in Clients : call'[c].op = "returned" => call'[c] = call[c]
<1> DEFINE Untold == /\ UNCHANGED <<published, outcome>>
                     /\ \A p \in Pubs : run[p].op = "publish" \/ run'[p].op = "publish"
                                          => run'[p] = run[p]
                     /\ \A c \in Clients : call'[c].op = "returned" => call'[c] = call[c]
<1>1. ASSUME UNCHANGED <<published, outcome>>, NEW p \in Pubs,
             run[p].op # "publish", run'[p].op # "publish",
             \A q \in Pubs : q # p => run'[q] = run[q],
             \A c \in Clients : call'[c] \in {call[c], Free}
      PROVE  Untold
  BY <1>1 DEF Free
<1>2. ASSUME NEW p \in Pubs, Finish(p), run[p].op # "publish", UNCHANGED <<published, outcome>>
      PROVE  Untold
  BY <1>1, <1>2, Finished DEF NoTask
<1>3. ASSUME NEW p \in Pubs, WorkerStep(p) PROVE Untold
  <2>1. ASSUME StartTask(p) PROVE Untold
    <3>1. /\ run' = [run EXCEPT ![p] = Head(tasks[p])] /\ Head(tasks[p]).op # "publish"
          /\ UNCHANGED <<published, outcome, call>> /\ run[p].op = "none"
      BY <2>1 DEF StartTask, Idle
    <3> QED
      BY <1>1, <3>1 DEF PubSubTypeOK
  <2>2. ASSUME Find(p) PROVE Untold
    <3>1. CASE Finish(p)
      BY <1>2, <2>2, <3>1 DEF Find, history
    <3>2. CASE ~Finish(p)
      <4>1. /\ run'[p].op \in {"registerFound", "unregisterFound"}
            /\ \A q \in Pubs : q # p => run'[q] = run[q]
        <5>1. PICK o \in {"registerFound", "unregisterFound"} :
                run' = [run EXCEPT ![p] = [op |-> o, by |-> run[p].by, sub |-> run[p].sub,
                                           found |-> pubsOf[run[p].sub]]]
          BY <2>2, <3>2 DEF Find
        <5> QED
          BY <5>1 DEF PubSubTypeOK
      <4>2. run[p].op # "publish" /\ UNCHANGED <<published, outcome, call>>
        BY <2>2, <3>2 DEF Find, history
      <4> QED
        BY <1>1, <4>1, <4>2
    <3> QED
      BY <3>1, <3>2
  <2>3. ASSUME Register(p) PROVE Untold
    <3>1. PICK t : t.op = "replay" /\ run' = [run EXCEPT ![p] = t]
      BY <2>3 DEF Register
    <3> QED
      BY <1>1, <2>3, <3>1 DEF Register, PubSubTypeOK
  <2>4. ASSUME ReplayNext(p) PROVE Untold
    <3>1. run' = [run EXCEPT ![p] = [run[p] EXCEPT !.todo = Tail(@)]] /\ run[p] \in Replaying
      BY <2>4, RunningShape DEF ReplayNext, PubSubTypeOK
    <3>2. run'[p].op = "replay" /\ \A q \in Pubs : q # p => run'[q] = run[q]
      BY <3>1 DEF Replaying, PubSubTypeOK
    <3> QED
      BY <1>1, <2>4, <3>2 DEF ReplayNext
  <2>5. ASSUME ReplayDone(p) \/ Unregister(p) \/ Take(p) \/ Unlink(p) PROVE Untold
    BY <1>2, <2>5 DEF ReplayDone, Unregister, Take, Unlink, history
  <2> QED
    BY <1>3, <2>1, <2>2, <2>3, <2>4, <2>5 DEF WorkerStep
<1>4. ASSUME UNCHANGED <<published, outcome, run>>,
             \A c \in Clients : call'[c].op = "returned" => call'[c] = call[c]
      PROVE  Untold
  BY <1>4
<1>5. ASSUME NEW p \in Pubs, Publish(p) PROVE Untold
  BY <1>5 DEF Publish, history
<1>6. ASSUME NEW c \in Clients, NEW p \in Pubs, ClientStep(c, p) PROVE Untold
  <2>1. UNCHANGED <<published, outcome, run>>
    BY <1>6 DEF ClientStep, PublishAndWait, TakeCallbackFailures, DestroyPub,
       RegisterSubscriber, UnregisterSubscriber, history
  <2>2. PICK op \in {"publish", "register", "unregister", "take", "destroy"} :
          call' = [call EXCEPT ![c] = [op |-> op, pub |-> p]]
    BY <1>6 DEF ClientStep, PublishAndWait, TakeCallbackFailures, DestroyPub,
       RegisterSubscriber, UnregisterSubscriber, Begin
  <2>3. \A d \in Clients : call'[d].op = "returned" => call'[d] = call[d]
    BY <2>2 DEF PubSubTypeOK
  <2> QED
    BY <1>4, <2>1, <2>3
<1>7. ASSUME NEW c \in Clients, Return(c) PROVE Untold
  <2>1. UNCHANGED <<published, outcome, run>> /\ call' = [call EXCEPT ![c] = Free]
    BY <1>7 DEF Return, history
  <2>2. \A d \in Clients : call'[d].op = "returned" => call'[d] = call[d]
    BY <2>1 DEF PubSubTypeOK, Free
  <2> QED
    BY <1>4, <2>1, <2>2
<1>8. CASE UNCHANGED pubSubVars
  BY <1>8 DEF pubSubVars, history
<1> QED
  BY <1>3, <1>5, <1>6, <1>7, <1>8 DEF PubSubNext

\* The callback of the next subscriber, and the end of a publication.
LEMMA NotifyFacts ==
  ASSUME PubSubTypeOK, HistoryExact, OutcomeAgrees, NEW p \in Pubs, NotifyNext(p)
  PROVE  /\ run[p] \in Publishing /\ run[p].todo # <<>> /\ published[p] \in 1 .. Len(outcome[p])
         /\ run'[p] \in Publishing /\ run'[p].by = run[p].by /\ run'[p].todo = Tail(run[p].todo)
         /\ \A q \in Pubs : q # p => run'[q] = run[q]
         /\ \/ run'[p].first = run[p].first /\ outcome' = outcome
            \/ /\ run'[p].first = TRUE /\ outcome'[p][published[p]] = TRUE
               /\ \A i \in 1 .. Len(outcome[p]) : i # published[p] => outcome'[p][i] = outcome[p][i]
               /\ \A q \in Pubs : q # p => outcome'[q] = outcome[q]
         /\ Head(run[p].todo) \in Subs /\ Offer(p, Head(run[p].todo), published[p])
         /\ UNCHANGED <<subscribers, published, joined, call>>
<1>1. run[p] \in Publishing /\ run[p].todo # <<>>
  BY RunningShape DEF NotifyNext, PubSubTypeOK
<1>2. Head(run[p].todo) \in Subs /\ Tail(run[p].todo) \in Seq(Subs)
  BY <1>1 DEF Publishing
<1>3. published[p] \in 1 .. Len(outcome[p])
  BY DEF PubSubTypeOK, HistoryExact, OutcomeAgrees, NotifyNext
<1>4. \/ run' = [run EXCEPT ![p] = [run[p] EXCEPT !.todo = Tail(@)]] /\ outcome' = outcome
      \/ /\ run' = [run EXCEPT ![p] = [run[p] EXCEPT !.todo = Tail(@), !.first = TRUE]]
         /\ outcome' = [outcome EXCEPT ![p] = [outcome[p] EXCEPT ![published[p]] = TRUE]]
  BY DEF NotifyNext
<1>5. /\ outcome \in [Pubs -> Seq(BOOLEAN)] /\ outcome[p] \in Seq(BOOLEAN)
      /\ run \in [Pubs -> Running]
  BY DEF PubSubTypeOK
<1>6. CASE run' = [run EXCEPT ![p] = [run[p] EXCEPT !.todo = Tail(@)]] /\ outcome' = outcome
  <2>1. /\ run'[p] \in Publishing /\ run'[p].by = run[p].by /\ run'[p].todo = Tail(run[p].todo)
        /\ run'[p].first = run[p].first /\ \A q \in Pubs : q # p => run'[q] = run[q]
    BY <1>1, <1>2, <1>5, <1>6 DEF Publishing
  <2> QED
    BY <1>1, <1>2, <1>3, <1>6, <2>1 DEF NotifyNext
<1>7. CASE /\ run' = [run EXCEPT ![p] = [run[p] EXCEPT !.todo = Tail(@), !.first = TRUE]]
           /\ outcome' = [outcome EXCEPT ![p] = [outcome[p] EXCEPT ![published[p]] = TRUE]]
  <2>1. /\ run'[p] \in Publishing /\ run'[p].by = run[p].by /\ run'[p].todo = Tail(run[p].todo)
        /\ run'[p].first = TRUE /\ \A q \in Pubs : q # p => run'[q] = run[q]
    BY <1>1, <1>2, <1>5, <1>7 DEF Publishing
  <2>2. /\ outcome'[p] = [outcome[p] EXCEPT ![published[p]] = TRUE]
        /\ \A q \in Pubs : q # p => outcome'[q] = outcome[q]
    BY <1>5, <1>7
  <2>3. \A i \in 1 .. Len(outcome[p]) :
          outcome'[p][i] = IF i = published[p] THEN TRUE ELSE outcome[p][i]
    <3>1. ASSUME NEW v \in BOOLEAN, outcome'[p] = [outcome[p] EXCEPT ![published[p]] = v]
          PROVE  \A i \in 1 .. Len(outcome[p]) :
                   outcome'[p][i] = IF i = published[p] THEN v ELSE outcome[p][i]
      BY <1>5, <3>1, PutAt
    <3> QED
      BY <2>2, <3>1, Zenon
  <2> QED
    BY <1>1, <1>2, <1>3, <2>1, <2>2, <2>3 DEF NotifyNext
<1> QED
  BY <1>4, <1>6, <1>7

LEMMA PublishDoneFacts ==
  ASSUME PubSubTypeOK, NEW p \in Pubs, PublishDone(p)
  PROVE  /\ run[p] \in Publishing /\ run[p].todo = <<>>
         /\ run'[p] = NoTask /\ \A q \in Pubs : q # p => run'[q] = run[q]
         /\ \A c \in Clients : call'[c] = IF run[p].by = c
              THEN [op |-> "returned", pub |-> p, item |-> published[p], threw |-> run[p].first]
              ELSE call[c]
         /\ UNCHANGED <<subscribers, published, joined, offered, outcome>>
  BY RunningShape DEF PublishDone, PubSubTypeOK, pubVars, history

\* Every step keeps the outcomes.
LEMMA OutcomeStep ==
  ASSUME PubSubTypeOK, HistoryExact, OutcomeAgrees, [PubSubNext]_pubSubVars
  PROVE  OutcomeAgrees'
<1>1. ASSUME NEW p \in Pubs, StartTask(p), Head(tasks[p]).op = "publish"
      PROVE  OutcomeAgrees'
  <2>1. /\ published'[p] = published[p] + 1 /\ outcome'[p] = Append(outcome[p], FALSE)
        /\ run'[p].first = FALSE /\ call' = call
        /\ \A q \in Pubs : q # p => UNCHANGED <<published[q], outcome[q], run[q]>>
    <3>1. /\ run'[p] = [op |-> "publish", by |-> Head(tasks[p]).by,
                       todo |-> subscribers[p], first |-> FALSE]
          /\ published'[p] = published[p] + 1 /\ outcome'[p] = Append(outcome[p], FALSE)
          /\ call' = call
          /\ \A q \in Pubs : q # p => UNCHANGED <<published[q], outcome[q], run[q]>>
      BY <1>1, StartPublish
    <3> QED
      BY <3>1
  <2>2. /\ published[p] \in Nat /\ outcome[p] \in Seq(BOOLEAN) /\ Len(outcome[p]) = published[p]
        /\ call \in [Clients -> Calling]
    BY DEF PubSubTypeOK, HistoryExact
  <2>3. /\ published'[p] > 0 /\ outcome'[p][published'[p]] = FALSE
        /\ \A i \in 1 .. published[p] : /\ i \in 1 .. published'[p] /\ i < published'[p]
                                        /\ outcome'[p][i] = outcome[p][i]
    <3>1. ASSUME NEW v \in BOOLEAN, outcome'[p] = Append(outcome[p], v)
          PROVE  /\ outcome'[p][published'[p]] = v
                 /\ \A i \in 1 .. published[p] : outcome'[p][i] = outcome[p][i]
      <4>1. published'[p] = Len(outcome[p]) + 1 /\ published[p] = Len(outcome[p])
        BY <2>1, <2>2
      <4>2. /\ Append(outcome[p], v)[Len(outcome[p]) + 1] = v
            /\ \A i \in 1 .. Len(outcome[p]) : Append(outcome[p], v)[i] = outcome[p][i]
        BY <2>2, AppendAt
      <4> QED
        BY <3>1, <4>1, <4>2, Zenon
    <3>2. /\ published'[p] > 0
          /\ \A i \in 1 .. published[p] : i \in 1 .. published'[p] /\ i < published'[p]
      BY <2>1, <2>2
    <3>3. outcome'[p] = Append(outcome[p], FALSE)
      BY <2>1
    <3>4. /\ outcome'[p][published'[p]] = FALSE
          /\ \A i \in 1 .. published[p] : outcome'[p][i] = outcome[p][i]
      BY <3>1, <3>3, Zenon
    <3> QED
      BY <3>2, <3>4
  <2>4. \A q \in Pubs : run'[q].op = "publish" =>
          published'[q] > 0 /\ run'[q].first = outcome'[q][published'[q]]
    BY <2>1, <2>3, ZenonT(40) DEF OutcomeAgrees
  <2>5. ASSUME NEW c \in Clients, call'[c].op = "returned"
        PROVE  LET q == call'[c].pub
               IN  /\ call'[c].item \in 1 .. published'[q]
                   /\ run'[q].op = "publish" => call'[c].item < published'[q]
                   /\ call'[c].threw = outcome'[q][call'[c].item]
    <3>1. call[c].op = "returned" /\ call'[c] = call[c] /\ call[c].pub \in Pubs
      BY <2>1, <2>2, <2>5 DEF Calling, Free
    <3>2. /\ call[c].item \in 1 .. published[call[c].pub]
          /\ run[call[c].pub].op = "publish" => call[c].item < published[call[c].pub]
          /\ call[c].threw = outcome[call[c].pub][call[c].item]
      BY <3>1 DEF OutcomeAgrees
    <3>3. CASE call[c].pub = p
      BY <2>3, <3>1, <3>2, <3>3
    <3>4. CASE call[c].pub # p
      BY <2>1, <3>1, <3>2, <3>4
    <3> QED
      BY <3>3, <3>4
  <2> QED
    BY <2>4, <2>5 DEF OutcomeAgrees
<1>2. ASSUME NEW p \in Pubs, NotifyNext(p) PROVE OutcomeAgrees'
  <2>1. /\ published' = published /\ call' = call /\ published[p] \in 1 .. Len(outcome[p])
        /\ run[p].op = "publish" /\ \A q \in Pubs : q # p => run'[q] = run[q]
        /\ \/ run'[p].first = run[p].first /\ outcome' = outcome
           \/ /\ run'[p].first = TRUE /\ outcome'[p][published[p]] = TRUE
              /\ \A i \in 1 .. Len(outcome[p]) : i # published[p] => outcome'[p][i] = outcome[p][i]
              /\ \A q \in Pubs : q # p => outcome'[q] = outcome[q]
    BY <1>2, NotifyFacts DEF Publishing
  <2>2. Len(outcome[p]) = published[p] /\ published[p] \in Nat /\ call \in [Clients -> Calling]
    BY DEF PubSubTypeOK, HistoryExact
  <2>3. \A q \in Pubs : run'[q].op = "publish" =>
          published'[q] > 0 /\ run'[q].first = outcome'[q][published'[q]]
    BY <2>1, ZenonT(40) DEF OutcomeAgrees
  <2>4. ASSUME NEW c \in Clients, call'[c].op = "returned"
        PROVE  LET q == call'[c].pub
               IN  /\ call'[c].item \in 1 .. published'[q]
                   /\ run'[q].op = "publish" => call'[c].item < published'[q]
                   /\ call'[c].threw = outcome'[q][call'[c].item]
    <3>1. call[c].op = "returned" /\ call'[c] = call[c] /\ call[c].pub \in Pubs
      BY <2>1, <2>2, <2>4 DEF Calling, Free
    <3>2. CASE call[c].pub = p
      <4>1. call[c].item \in 1 .. published[p] /\ call[c].item < published[p]
            /\ call[c].threw = outcome[p][call[c].item]
        BY <2>1, <3>1, <3>2 DEF OutcomeAgrees
      <4>2. outcome'[p][call[c].item] = outcome[p][call[c].item]
        BY <2>1, <2>2, <4>1
      <4> QED
        BY <2>1, <3>1, <3>2, <4>1, <4>2
    <3>3. CASE call[c].pub # p
      BY <2>1, <3>1, <3>3 DEF OutcomeAgrees
    <3> QED
      BY <3>2, <3>3
  <2> QED
    BY <2>3, <2>4 DEF OutcomeAgrees
<1>3. ASSUME NEW p \in Pubs, PublishDone(p) PROVE OutcomeAgrees'
  <2>1. /\ run[p].op = "publish" /\ run'[p].op = "none"
        /\ \A q \in Pubs : q # p => run'[q] = run[q]
        /\ \A c \in Clients : call'[c] = IF run[p].by = c
             THEN [op |-> "returned", pub |-> p, item |-> published[p], threw |-> run[p].first]
             ELSE call[c]
        /\ UNCHANGED <<published, outcome>>
    BY <1>3, PublishDoneFacts DEF Publishing, NoTask
  <2>2. /\ published[p] \in 1 .. published[p] /\ run[p].first = outcome[p][published[p]]
    BY <2>1 DEF OutcomeAgrees, PubSubTypeOK
  <2>3. \A q \in Pubs : run'[q].op = "publish" =>
          published'[q] > 0 /\ run'[q].first = outcome'[q][published'[q]]
    BY <2>1 DEF OutcomeAgrees
  <2>4. ASSUME NEW c \in Clients, call'[c].op = "returned"
        PROVE  LET q == call'[c].pub
               IN  /\ call'[c].item \in 1 .. published'[q]
                   /\ run'[q].op = "publish" => call'[c].item < published'[q]
                   /\ call'[c].threw = outcome'[q][call'[c].item]
    <3>1. CASE run[p].by = c
      BY <2>1, <2>2, <3>1
    <3>2. CASE run[p].by # c
      <4>1. call'[c] = call[c] /\ call[c].pub \in Pubs
        BY <2>1, <2>4, <3>2 DEF PubSubTypeOK, Calling, Free
      <4> QED
        BY <2>1, <2>4, <4>1 DEF OutcomeAgrees
    <3> QED
      BY <3>1, <3>2
  <2> QED
    BY <2>3, <2>4 DEF OutcomeAgrees
<1>4. CASE \A p \in Pubs : /\ ~NotifyNext(p) /\ ~PublishDone(p)
                           /\ ~(StartTask(p) /\ Head(tasks[p]).op = "publish")
  <2>1. /\ UNCHANGED <<published, outcome>>
        /\ \A p \in Pubs : run'[p].op = "publish" => run'[p] = run[p]
        /\ \A p \in Pubs : run[p].op = "publish" => run'[p] = run[p]
        /\ \A c \in Clients : call'[c].op = "returned" => call'[c] = call[c]
    BY <1>4, QuietStep
  <2>2. \A c \in Clients : call[c].op = "returned" => call[c].pub \in Pubs
    BY DEF PubSubTypeOK, Calling, Free
  <2> QED
    BY <2>1, <2>2 DEF OutcomeAgrees
<1> QED
  BY <1>1, <1>2, <1>3, <1>4

-----------------------------------------------------------------------------
(* Who was served.                                                         *)

\* What leaves the services alone: no publication starts, no subscriber joins.
LEMMA SameServed ==
  ASSUME Served, UNCHANGED <<published, joined>>,
         \A p \in Pubs : /\ Range(subscribers'[p]) \subseteq Range(subscribers[p])
                         /\ \A s \in Subs : Range(offered[p][s]) \subseteq Range(offered'[p][s])
                         /\ Range(subscribers[p]) \subseteq Subs
                         /\ run[p].op = "publish" => run[p].todo = <<>> \/ run'[p] = run[p]
  PROVE  Served'
<1>1. Range(<<>>) = {}
  BY NoItem
<1>2. ASSUME NEW p \in Pubs, NEW s \in Range(subscribers'[p]), NEW k \in joined'[p][s] + 1 .. published'[p]
      PROVE  \/ k \in Range(offered'[p][s])
             \/ run'[p].op = "publish" /\ k = published'[p] /\ s \in Range(run'[p].todo)
  <2>1. s \in Range(subscribers[p]) /\ s \in Subs /\ k \in joined[p][s] + 1 .. published[p]
    BY <1>2
  <2>2. \/ k \in Range(offered[p][s])
        \/ run[p].op = "publish" /\ k = published[p] /\ s \in Range(run[p].todo)
    BY <2>1 DEF Served
  <2> QED
    BY <1>1, <2>1, <2>2
<1> QED
  BY <1>2 DEF Served

\* What a step leaves of the offers when it does not register.
LEMMA Offered ==
  ASSUME PubSubTypeOK, NEW p \in Pubs, NEW s \in Subs, NEW k \in Nat, Offer(p, s, k)
  PROVE  /\ k \in Range(offered'[p][s])
         /\ \A q \in Pubs, r \in Subs : Range(offered[q][r]) \subseteq Range(offered'[q][r])
<1>1. /\ offered'[p][s] = Append(offered[p][s], k)
      /\ \A q \in Pubs, r \in Subs : q # p \/ r # s => offered'[q][r] = offered[q][r]
  BY OfferTypes
<1>3. offered[p][s] \in Seq(Nat)
  BY DEF PubSubTypeOK
<1>2. Range(offered'[p][s]) = Range(offered[p][s]) \cup {k}
  BY <1>1, <1>3, AppendNew
<1> QED
  BY <1>1, <1>2

\* The start of a registration's second half.
LEMMA RegisterFacts ==
  ASSUME PubSubTypeOK, NEW p \in Pubs, Register(p)
  PROVE  /\ run[p] \in Linking /\ run[p].op = "registerFound" /\ run[p].sub \in Subs
         /\ pubsOf'[run[p].sub] = Append(run[p].found, p)
         /\ \A s \in Subs : s # run[p].sub => pubsOf'[s] = pubsOf[s]
         /\ subscribers'[p] = Append(subscribers[p], run[p].sub)
         /\ joined'[p][run[p].sub] = published[p] /\ offered'[p][run[p].sub] = <<>>
         /\ run'[p] = [op |-> "replay", by |-> run[p].by, sub |-> run[p].sub,
                       todo |-> SubSeq(buffer[p], Skipped(run[p].sub, Len(buffer[p])) + 1,
                                       Len(buffer[p]))]
         /\ \A q \in Pubs : q # p => UNCHANGED <<subscribers[q], run[q]>>
         /\ \A q \in Pubs, s \in Subs : q # p \/ s # run[p].sub
              => UNCHANGED <<joined[q][s], offered[q][s]>>
         /\ UNCHANGED <<tasks, buffer, assertFailed, alive, call, published, outcome>>
<1>1. run[p] \in Linking /\ run[p].op = "registerFound"
  BY RunningShape DEF Register, PubSubTypeOK
<1>2. /\ run[p].sub \in Subs /\ run[p].found \in Seq(Pubs)
      /\ joined \in [Pubs -> [Subs -> Nat]] /\ offered \in [Pubs -> [Subs -> Seq(Nat)]]
      /\ published[p] \in Nat /\ <<>> \in Seq(Nat)
  BY <1>1 DEF Linking, PubSubTypeOK
<1>3. /\ joined' = [joined EXCEPT ![p][run[p].sub] = published[p]]
      /\ offered' = [offered EXCEPT ![p][run[p].sub] = <<>>]
  BY DEF Register
<1>4. /\ joined'[p][run[p].sub] = published[p]
      /\ \A q \in Pubs, s \in Subs : q # p \/ s # run[p].sub => joined'[q][s] = joined[q][s]
  BY <1>2, <1>3, PutIn
<1>5. /\ offered'[p][run[p].sub] = <<>>
      /\ \A q \in Pubs, s \in Subs : q # p \/ s # run[p].sub => offered'[q][s] = offered[q][s]
  BY <1>2, <1>3, PutIn
<1>6. /\ pubsOf'[run[p].sub] = Append(run[p].found, p)
      /\ \A s \in Subs : s # run[p].sub => pubsOf'[s] = pubsOf[s]
      /\ subscribers'[p] = Append(subscribers[p], run[p].sub)
      /\ \A q \in Pubs : q # p => subscribers'[q] = subscribers[q]
      /\ UNCHANGED <<tasks, buffer, assertFailed, alive, call, published, outcome>>
  BY <1>2 DEF Register, PubSubTypeOK
<1>7. /\ run'[p] = [op |-> "replay", by |-> run[p].by, sub |-> run[p].sub,
                       todo |-> SubSeq(buffer[p], Skipped(run[p].sub, Len(buffer[p])) + 1,
                                       Len(buffer[p]))]
      /\ \A q \in Pubs : q # p => run'[q] = run[q]
  BY DEF Register, PubSubTypeOK
<1> QED
  BY <1>1, <1>2, <1>4, <1>5, <1>6, <1>7

\* Every step keeps the services.
LEMMA ServedStep ==
  ASSUME PubSubTypeOK, HistoryExact, OutcomeAgrees, Served, [PubSubNext]_pubSubVars
  PROVE  Served'
<1>1. \A p \in Pubs : subscribers[p] \in Seq(Subs) /\ Range(subscribers[p]) \subseteq Subs
  BY RangeOf DEF PubSubTypeOK
<1>2. ASSUME NEW p \in Pubs, StartTask(p), Head(tasks[p]).op = "publish"
      PROVE  Served'
  <2>1. /\ published'[p] = published[p] + 1 /\ published[p] \in Nat
        /\ UNCHANGED <<subscribers, joined, offered>>
        /\ \A q \in Pubs : q # p => UNCHANGED <<published[q], run[q]>>
    BY <1>2, StartPublish DEF PubSubTypeOK
  <2>2. run[p].op # "publish" /\ run'[p].op = "publish" /\ run'[p].todo = subscribers[p]
    <3>1. run'[p] = [op |-> "publish", by |-> Head(tasks[p]).by, todo |-> subscribers[p], first |-> FALSE]
      BY <1>2, StartPublish
    <3> QED
      BY <1>2, <3>1 DEF StartTask, Idle
  <2>3. ASSUME NEW q \in Pubs, NEW s \in Range(subscribers'[q]),
               NEW k \in joined'[q][s] + 1 .. published'[q]
        PROVE  \/ k \in Range(offered'[q][s])
               \/ run'[q].op = "publish" /\ k = published'[q] /\ s \in Range(run'[q].todo)
    <3>1. CASE q # p
      BY <2>1, <2>3, <3>1 DEF Served
    <3>2. CASE q = p /\ k = published'[p]
      BY <2>1, <2>2, <2>3, <3>2
    <3>3. CASE q = p /\ k # published'[p]
      <4>1. s \in Range(subscribers[p]) /\ joined[p][s] \in Nat /\ k \in joined[p][s] + 1 .. published[p]
        BY <1>1, <2>1, <2>3, <3>3 DEF PubSubTypeOK
      <4> QED
        BY <2>1, <2>2, <3>3, <4>1 DEF Served
    <3> QED
      BY <3>1, <3>2, <3>3
  <2> QED
    BY <2>3 DEF Served
<1>3. ASSUME NEW p \in Pubs, NotifyNext(p) PROVE Served'
  <2>1. /\ run[p] \in Publishing /\ run[p].todo # <<>> /\ run'[p].op = "publish"
        /\ run'[p].todo = Tail(run[p].todo) /\ Head(run[p].todo) \in Subs
        /\ \A q \in Pubs : q # p => run'[q] = run[q]
        /\ Offer(p, Head(run[p].todo), published[p])
        /\ UNCHANGED <<subscribers, published, joined>>
    BY <1>3, NotifyFacts DEF Publishing
  <2>2. Range(run[p].todo) = Range(Tail(run[p].todo)) \cup {Head(run[p].todo)}
    BY <2>1, TailRest DEF Publishing
  <2>3. /\ published[p] \in Range(offered'[p][Head(run[p].todo)])
        /\ \A q \in Pubs, r \in Subs : Range(offered[q][r]) \subseteq Range(offered'[q][r])
    <3>1. published[p] \in Nat
      BY DEF PubSubTypeOK
    <3> QED
      BY <2>1, <3>1, Offered
  <2>4. ASSUME NEW q \in Pubs, NEW s \in Range(subscribers'[q]),
               NEW k \in joined'[q][s] + 1 .. published'[q]
        PROVE  \/ k \in Range(offered'[q][s])
               \/ run'[q].op = "publish" /\ k = published'[q] /\ s \in Range(run'[q].todo)
    <3>1. s \in Range(subscribers[q]) /\ s \in Subs /\ k \in joined[q][s] + 1 .. published[q]
      BY <1>1, <2>1, <2>4
    <3>2. CASE k \in Range(offered[q][s])
      BY <2>3, <3>1, <3>2
    <3>3. CASE run[q].op = "publish" /\ k = published[q] /\ s \in Range(run[q].todo)
      BY <2>1, <2>2, <2>3, <3>3
    <3> QED
      BY <3>1, <3>2, <3>3 DEF Served
  <2> QED
    BY <2>4 DEF Served
<1>4. ASSUME NEW p \in Pubs, Register(p) PROVE Served'
  <2>1. /\ run[p].op = "registerFound" /\ run[p].sub \in Subs
        /\ subscribers'[p] = Append(subscribers[p], run[p].sub)
        /\ joined'[p][run[p].sub] = published[p] /\ published' = published
        /\ \A q \in Pubs : q # p => UNCHANGED <<subscribers[q], run[q]>>
        /\ \A q \in Pubs, s \in Subs : q # p \/ s # run[p].sub
              => UNCHANGED <<joined[q][s], offered[q][s]>>
    BY <1>4, RegisterFacts
  <2>2. Range(subscribers'[p]) = Range(subscribers[p]) \cup {run[p].sub}
    BY <1>1, <2>1, AppendNew
  <2>3. ASSUME NEW q \in Pubs, NEW s \in Range(subscribers'[q]),
               NEW k \in joined'[q][s] + 1 .. published'[q]
        PROVE  \/ k \in Range(offered'[q][s])
               \/ run'[q].op = "publish" /\ k = published'[q] /\ s \in Range(run'[q].todo)
    <3>1. CASE q = p /\ s = run[p].sub
      <4>1. k \in published[p] + 1 .. published[p] /\ published[p] \in Nat
        BY <2>1, <2>3, <3>1 DEF PubSubTypeOK
      <4> QED
        BY <4>1
    <3>2. CASE q # p \/ s # run[p].sub
      <4>1. s \in Range(subscribers[q]) /\ s \in Subs
        BY <1>1, <2>1, <2>2, <2>3, <3>2
      <4>2. joined'[q][s] = joined[q][s] /\ offered'[q][s] = offered[q][s]
        BY <2>1, <3>2, <4>1
      <4>3. \/ k \in Range(offered[q][s])
            \/ run[q].op = "publish" /\ k = published[q] /\ s \in Range(run[q].todo)
        BY <2>1, <2>3, <4>1, <4>2 DEF Served
      <4> QED
        BY <2>1, <4>2, <4>3
    <3> QED
      BY <3>1, <3>2
  <2> QED
    BY <2>3 DEF Served
<1>5. CASE \A p \in Pubs : /\ ~NotifyNext(p) /\ ~Register(p)
                           /\ ~(StartTask(p) /\ Head(tasks[p]).op = "publish")
  <2>1. UNCHANGED <<published, joined>>
    BY <1>5, ZenonT(40) DEF PubSubNext, WorkerStep, ClientStep, StartTask, PublishDone, Find, ReplayNext, ReplayDone,
       Unregister, Take, Unlink, Publish, PublishAndWait, TakeCallbackFailures, DestroyPub,
       RegisterSubscriber, UnregisterSubscriber, Return, pubSubVars, history
  <2>2. \A p \in Pubs : run[p].op = "publish" => run[p].todo = <<>> \/ run'[p] = run[p]
    <3>1. CASE \A p \in Pubs : ~PublishDone(p)
      BY <1>5, <3>1, QuietStep
    <3>2. ASSUME NEW p \in Pubs, PublishDone(p)
          PROVE  \A q \in Pubs : run[q].op = "publish" => run[q].todo = <<>> \/ run'[q] = run[q]
      BY <3>2, PublishDoneFacts
    <3> QED
      BY <3>1, <3>2
  <2>3. \A p \in Pubs : Range(subscribers'[p]) \subseteq Range(subscribers[p])
    <3>1. CASE UNCHANGED subscribers
      BY <3>1
    <3>2. ASSUME NEW p \in Pubs, Unregister(p)
          PROVE  \A q \in Pubs : Range(subscribers'[q]) \subseteq Range(subscribers[q])
      <4>1. PICK t \in Others(subscribers[p], run[p].sub) : subscribers' = [subscribers EXCEPT ![p] = t]
        BY <3>2 DEF Unregister
      <4>2. Range(t) \subseteq Range(subscribers[p])
        BY <1>1, OthersOf
      <4> QED
        BY <4>1, <4>2 DEF PubSubTypeOK
    <3>3. ASSUME NEW p \in Pubs, Unlink(p)
          PROVE  \A q \in Pubs : Range(subscribers'[q]) \subseteq Range(subscribers[q])
      <4>1. subscribers' = [subscribers EXCEPT ![p] = <<>>] /\ Range(<<>>) = {}
        BY <3>3, NoItem DEF Unlink
      <4> QED
        BY <4>1 DEF PubSubTypeOK
    <3>4. UNCHANGED subscribers \/ \E p \in Pubs : Unregister(p) \/ Unlink(p)
      BY <1>5 DEF PubSubNext, WorkerStep, ClientStep, StartTask, PublishDone, Find, ReplayNext, ReplayDone,
         Take, Publish, PublishAndWait, TakeCallbackFailures, DestroyPub, RegisterSubscriber,
         UnregisterSubscriber, Return, pubSubVars, pubVars
    <3> QED
      BY <3>1, <3>2, <3>3, <3>4
  <2>4. \A p \in Pubs, s \in Subs : Range(offered[p][s]) \subseteq Range(offered'[p][s])
    <3>1. ASSUME NEW p \in Pubs, ReplayNext(p)
          PROVE  \A q \in Pubs, s \in Subs : Range(offered[q][s]) \subseteq Range(offered'[q][s])
      <4>1. run[p].sub \in Subs /\ Head(run[p].todo) \in Nat
        <5>1. run[p] \in Replaying /\ run[p].todo # <<>>
          BY <3>1, RunningShape DEF ReplayNext, PubSubTypeOK
        <5> QED
          BY <5>1 DEF Replaying
      <4>2. Offer(p, run[p].sub, Head(run[p].todo))
        BY <3>1 DEF ReplayNext
      <4> QED
        BY <4>1, <4>2, Offered
    <3>2. UNCHANGED offered \/ \E p \in Pubs : ReplayNext(p)
      BY <1>5, ZenonT(40) DEF PubSubNext, WorkerStep, ClientStep, StartTask, PublishDone, Find, ReplayDone,
         Unregister, Unlink, Take, Publish, PublishAndWait, TakeCallbackFailures, DestroyPub,
         RegisterSubscriber, UnregisterSubscriber, Return, pubSubVars, history
    <3> QED
      BY <3>1, <3>2
  <2> QED
    BY <1>1, <2>1, <2>2, <2>3, <2>4, SameServed
<1> QED
  BY <1>2, <1>3, <1>4, <1>5

-----------------------------------------------------------------------------
(* The tasks and the calls.                                                *)

\* What a publisher may hold.
LEMMA HeldShape ==
  ASSUME PubSubTypeOK, NEW p \in Pubs, NEW i \in Held(p)
  PROVE  /\ i \in 0 .. Len(tasks[p]) /\ i + 0 = i
         /\ i # 0 => TaskAt(p, i) = tasks[p][i] /\ tasks[p][i] \in Waiting
         /\ i = 0 => TaskAt(p, i) = run[p] /\ ~Idle(p)
         /\ TaskAt(p, i).by \in Clients \cup {Nobody}
         /\ Origin(TaskAt(p, i).op) \in {"publish", "register", "unregister", "take", "destroy"}
         /\ Origin(TaskAt(p, i).op) = "destroy" <=> TaskAt(p, i).op = "destroy"
         /\ TaskAt(p, i).op = "destroy" => TaskAt(p, i).by # Nobody
<1>1. tasks[p] \in Seq(Waiting) /\ run[p] \in Running /\ Nobody \notin Clients
  BY PubSubAssumption DEF PubSubTypeOK
<1>2. CASE i = 0
  <2>1. 0 \notin DOMAIN tasks[p]
    BY <1>1
  <2>2. run[p].op # "none" /\ TaskAt(p, i) = run[p]
    BY <1>2, <2>1 DEF Held, TaskAt, Idle
  <2>3. /\ run[p].op \in {"publish", "register", "unregister", "take", "destroy",
                          "registerFound", "unregisterFound", "replay"}
        /\ run[p].op = "destroy" => run[p].by \in Clients
        /\ run[p].by \in Clients \cup {Nobody}
    BY <1>1, <2>2 DEF Running, Waiting, NoTask, Publishing, Linking, Replaying
  <2> QED
    BY <1>1, <1>2, <2>2, <2>3 DEF Origin, Idle
<1>3. CASE i # 0
  <2>1. i \in 1 .. Len(tasks[p]) /\ TaskAt(p, i) = tasks[p][i] /\ tasks[p][i] \in Waiting
    BY <1>1, <1>3 DEF Held, TaskAt
  <2>2. /\ tasks[p][i].op \in {"publish", "register", "unregister", "take", "destroy"}
        /\ tasks[p][i].op = "destroy" => tasks[p][i].by \in Clients
        /\ tasks[p][i].by \in Clients \cup {Nobody}
    BY <2>1 DEF Waiting
  <2> QED
    BY <1>1, <1>3, <2>1, <2>2 DEF Origin
<1> QED
  BY <1>2, <1>3

\* Two tasks of one call, about one subscriber if about any.
Alike(t, u) ==
  /\ t.by = u.by /\ Origin(t.op) = Origin(u.op)
  /\ "sub" \in DOMAIN t <=> "sub" \in DOMAIN u
  /\ "sub" \in DOMAIN t => t.sub = u.sub

\* What leaves the calls and their tasks alone: no task enters a queue.
LEMMA SameTasks ==
  ASSUME PubSubTypeOK, PubSubTypeOK', TasksOfCalls,
         \A p \in Pubs : \E d \in {0, 1} : \A i \in Held(p)' :
            /\ i + d \in Held(p) /\ Alike(TaskAt(p, i)', TaskAt(p, i + d))
            /\ i + d = Len(tasks[p]) => i = Len(tasks'[p]),
         \A p \in Pubs : \A i \in Held(p)' :
            TaskAt(p, i)'.by # Nobody => call'[TaskAt(p, i)'.by] = call[TaskAt(p, i)'.by],
         \A p \in Pubs : p \notin alive' => Held(p)' = {}
  PROVE  TasksOfCalls'
<1> SUFFICES ASSUME NEW p \in Pubs
             PROVE  /\ \A i \in Held(p)' : TaskAt(p, i)'.by # Nobody =>
                         call'[TaskAt(p, i)'.by] = [op |-> Origin(TaskAt(p, i)'.op), pub |-> p]
                    /\ \A i, j \in Held(p)' :
                         TaskAt(p, i)'.by = TaskAt(p, j)'.by => i = j \/ TaskAt(p, i)'.by = Nobody
                    /\ \A i, j \in Held(p)' :
                         /\ "sub" \in DOMAIN TaskAt(p, i)' /\ "sub" \in DOMAIN TaskAt(p, j)'
                         /\ TaskAt(p, i)'.sub = TaskAt(p, j)'.sub
                         => i = j
                    /\ \A i \in Held(p)' : TaskAt(p, i)'.op = "destroy" => i = Len(tasks'[p])
                    /\ p \notin alive' => Held(p)' = {}
  BY DEF TasksOfCalls
<1>1. PICK d \in {0, 1} : \A i \in Held(p)' :
        /\ i + d \in Held(p) /\ Alike(TaskAt(p, i)', TaskAt(p, i + d))
        /\ i + d = Len(tasks[p]) => i = Len(tasks'[p])
  OBVIOUS
<1>2. \A i \in Held(p)' : i \in Nat
  <2>1. \A i \in Held(p)' : i = 0 \/ i \in DOMAIN tasks'[p]
    BY DEF Held
  <2>2. tasks'[p] \in Seq(Waiting)
    BY DEF PubSubTypeOK
  <2> QED
    BY <2>1, <2>2
<1>3. \A i, j \in Held(p)' : i + d = j + d => i = j
  BY <1>2
<1>4. \A i \in Held(p) : Origin(TaskAt(p, i).op) = "destroy" <=> TaskAt(p, i).op = "destroy"
  BY HeldShape
<1>5. \A i \in Held(p)' : TaskAt(p, i)'.op = "destroy" => Origin(TaskAt(p, i)'.op) = "destroy"
  BY DEF Origin
<1>6. ASSUME NEW i \in Held(p)', TaskAt(p, i)'.by # Nobody
      PROVE  call'[TaskAt(p, i)'.by] = [op |-> Origin(TaskAt(p, i)'.op), pub |-> p]
  BY <1>1, <1>6 DEF TasksOfCalls, Alike
<1>7. ASSUME NEW i \in Held(p)', NEW j \in Held(p)', TaskAt(p, i)'.by = TaskAt(p, j)'.by
      PROVE  i = j \/ TaskAt(p, i)'.by = Nobody
  BY <1>1, <1>3, <1>7 DEF TasksOfCalls, Alike
<1>8. ASSUME NEW i \in Held(p)', NEW j \in Held(p)',
             "sub" \in DOMAIN TaskAt(p, i)', "sub" \in DOMAIN TaskAt(p, j)',
             TaskAt(p, i)'.sub = TaskAt(p, j)'.sub
      PROVE  i = j
  BY <1>1, <1>3, <1>8 DEF TasksOfCalls, Alike
<1>9. ASSUME NEW i \in Held(p)', TaskAt(p, i)'.op = "destroy" PROVE i = Len(tasks'[p])
  BY <1>1, <1>4, <1>5, <1>9 DEF TasksOfCalls, Alike
<1> QED
  BY <1>6, <1>7, <1>8, <1>9

\* A call submits its task.
LEMMA NewTask ==
  ASSUME PubSubTypeOK, TasksOfCalls, NEW p \in Pubs, NEW t \in Waiting,
         Open(p), Enqueue(p, t), run' = run, alive' = alive,
         "sub" \in DOMAIN t => Settled(p, t.sub),
         \/ t.by = Nobody /\ call' = call
         \/ /\ t.by \in Clients /\ call[t.by] = Free
            /\ call' = [call EXCEPT ![t.by] = [op |-> t.op, pub |-> p]]
  PROVE  TasksOfCalls'
<1>0. PICK n \in Nat : n = Len(tasks[p]) + 1
  BY DEF PubSubTypeOK
<1>1. /\ tasks \in [Pubs -> Seq(Waiting)] /\ tasks[p] \in Seq(Waiting) /\ call \in [Clients -> Calling]
      /\ n # 0 /\ n \notin DOMAIN tasks[p] /\ Nobody \notin Clients /\ Nobody \notin Pubs
  BY <1>0, PubSubAssumption DEF PubSubTypeOK
<1>2. /\ tasks'[p] = Append(tasks[p], t) /\ Len(tasks'[p]) = n /\ DOMAIN tasks'[p] = 1 .. n
      /\ tasks'[p][n] = t /\ \A i \in DOMAIN tasks[p] : tasks'[p][i] = tasks[p][i] /\ i \in 1 .. n
      /\ \A i \in 1 .. n : i = n \/ i \in DOMAIN tasks[p]
      /\ \A q \in Pubs : q # p => tasks'[q] = tasks[q]
  <2>1. tasks'[p] = Append(tasks[p], t) /\ \A q \in Pubs : q # p => tasks'[q] = tasks[q]
    BY <1>1 DEF Enqueue
  <2> QED
    BY <1>0, <1>1, <2>1
<1>3. \A q \in Pubs : \A i \in Held(q) :
        /\ TaskAt(q, i).by \in Clients \cup {Nobody}
        /\ TaskAt(q, i).by # Nobody => call[TaskAt(q, i).by] # Free /\ TaskAt(q, i).by # t.by
        /\ TaskAt(q, i).by # Nobody => call'[TaskAt(q, i).by] = call[TaskAt(q, i).by]
  <2> SUFFICES ASSUME NEW q \in Pubs, NEW i \in Held(q)
               PROVE  /\ TaskAt(q, i).by \in Clients \cup {Nobody}
                      /\ TaskAt(q, i).by # Nobody =>
                           /\ call[TaskAt(q, i).by] # Free /\ TaskAt(q, i).by # t.by
                           /\ call'[TaskAt(q, i).by] = call[TaskAt(q, i).by]
    OBVIOUS
  <2>1. TaskAt(q, i).by \in Clients \cup {Nobody}
    BY HeldShape
  <2>2. TaskAt(q, i).by # Nobody => call[TaskAt(q, i).by].pub = q
    <3>1. TaskAt(q, i).by # Nobody =>
            call[TaskAt(q, i).by] = [op |-> Origin(TaskAt(q, i).op), pub |-> q]
      BY DEF TasksOfCalls
    <3> QED
      BY <3>1
  <2>3. TaskAt(q, i).by # Nobody => call[TaskAt(q, i).by] # Free
    BY <1>1, <2>2 DEF Free
  <2> QED
    BY <1>1, <2>1, <2>3
<1>4. \A i \in Held(p) : TaskAt(p, i).op # "destroy"
  <2> SUFFICES ASSUME NEW i \in Held(p), TaskAt(p, i).op = "destroy" PROVE FALSE
    OBVIOUS
  <2>1. TaskAt(p, i).by \in Clients
    BY HeldShape
  <2>2. call[TaskAt(p, i).by] = [op |-> "destroy", pub |-> p]
    BY <1>1, <2>1 DEF TasksOfCalls, Origin
  <2> QED
    BY <2>1, <2>2 DEF Open
<1>5. \A i \in Held(p) : /\ "sub" \in DOMAIN t /\ "sub" \in DOMAIN TaskAt(p, i)
                         => TaskAt(p, i).sub # t.sub
  <2>1. \A i \in Held(p) : TaskAt(p, i) = run[p] \/ TaskAt(p, i) \in Range(tasks[p])
    BY <1>1, RangeOf DEF Held, TaskAt
  <2> QED
    BY <2>1 DEF Settled
<1>6. Origin(t.op) = t.op
  BY WaitingShape DEF Origin
<1>7. /\ Held(p)' = Held(p) \cup {n} /\ n \notin Held(p) /\ TaskAt(p, n)' = t
      /\ \A i \in Held(p) : TaskAt(p, i)' = TaskAt(p, i)
  <2>1. \A i \in Held(p) : i = 0 \/ i \in DOMAIN tasks[p]
    BY DEF Held
  <2>2. Held(p)' = Held(p) \cup {n} /\ n \notin Held(p)
    BY <1>1, <1>2, <2>1 DEF Held, Idle
  <2>3. TaskAt(p, n)' = t
    BY <1>1, <1>2 DEF TaskAt
  <2>4. \A i \in Held(p) : TaskAt(p, i)' = TaskAt(p, i)
    BY <1>2, <2>1 DEF TaskAt
  <2> QED
    BY <2>2, <2>3, <2>4
<1>8. \A q \in Pubs : q # p => /\ Held(q)' = Held(q) /\ Len(tasks'[q]) = Len(tasks[q])
                               /\ \A i \in Held(q) : TaskAt(q, i)' = TaskAt(q, i)
  BY <1>2 DEF Held, TaskAt, Idle
<1>9. p \in alive
  BY DEF Open
<1>10. t.by # Nobody => call'[t.by] = [op |-> t.op, pub |-> p]
  BY <1>1
<1>11. ASSUME NEW q \in Pubs, q # p
       PROVE  /\ \A i \in Held(q)' : TaskAt(q, i)'.by # Nobody =>
                   call'[TaskAt(q, i)'.by] = [op |-> Origin(TaskAt(q, i)'.op), pub |-> q]
              /\ \A i, j \in Held(q)' :
                   TaskAt(q, i)'.by = TaskAt(q, j)'.by => i = j \/ TaskAt(q, i)'.by = Nobody
              /\ \A i, j \in Held(q)' :
                   /\ "sub" \in DOMAIN TaskAt(q, i)' /\ "sub" \in DOMAIN TaskAt(q, j)'
                   /\ TaskAt(q, i)'.sub = TaskAt(q, j)'.sub
                   => i = j
              /\ \A i \in Held(q)' : TaskAt(q, i)'.op = "destroy" => i = Len(tasks'[q])
              /\ q \notin alive' => Held(q)' = {}
  BY <1>3, <1>8, <1>11 DEF TasksOfCalls
<1>12. \A i \in Held(p)' : TaskAt(p, i)'.by # Nobody =>
         call'[TaskAt(p, i)'.by] = [op |-> Origin(TaskAt(p, i)'.op), pub |-> p]
  BY <1>3, <1>6, <1>7, <1>10 DEF TasksOfCalls
<1>13. \A i, j \in Held(p)' :
         TaskAt(p, i)'.by = TaskAt(p, j)'.by => i = j \/ TaskAt(p, i)'.by = Nobody
  BY <1>3, <1>7 DEF TasksOfCalls
<1>14. \A i, j \in Held(p)' :
         /\ "sub" \in DOMAIN TaskAt(p, i)' /\ "sub" \in DOMAIN TaskAt(p, j)'
         /\ TaskAt(p, i)'.sub = TaskAt(p, j)'.sub
         => i = j
  BY <1>5, <1>7 DEF TasksOfCalls
<1>15. \A i \in Held(p)' : TaskAt(p, i)'.op = "destroy" => i = Len(tasks'[p])
  BY <1>2, <1>4, <1>7
<1> QED
  BY <1>9, <1>11, <1>12, <1>13, <1>14, <1>15 DEF TasksOfCalls

\* A task ends; the destructor's is the last.
LEMMA TaskEnds ==
  ASSUME PubSubTypeOK, PubSubTypeOK', TasksOfCalls, NEW p \in Pubs,
         run[p].op # "none", run'[p] = NoTask, tasks' = tasks,
         \A q \in Pubs : q # p => run'[q] = run[q],
         \A c \in Clients : run[p].by # c => call'[c] = call[c],
         alive' = alive \/ (alive' = alive \ {p} /\ run[p].op = "destroy")
  PROVE  TasksOfCalls'
<1>1. tasks[p] \in Seq(Waiting) /\ 0 \notin DOMAIN tasks[p]
  <2>1. tasks[p] \in Seq(Waiting)
    BY DEF PubSubTypeOK
  <2> QED
    BY <2>1
<1>2. /\ 0 \in Held(p) /\ TaskAt(p, 0) = run[p] /\ Held(p)' = DOMAIN tasks[p]
      /\ Held(p)' \subseteq Held(p) /\ 0 \notin Held(p)'
      /\ \A i \in Held(p)' : TaskAt(p, i)' = TaskAt(p, i)
  BY <1>1 DEF Held, Idle, TaskAt, NoTask
<1>3. \A q \in Pubs : q # p => /\ Held(q)' = Held(q) /\ \A i \in Held(q)' : TaskAt(q, i)' = TaskAt(q, i)
  BY DEF Held, Idle, TaskAt
<1>4. \A q \in Pubs : \A i \in Held(q)' :
        /\ i \in Held(q) /\ TaskAt(q, i)' = TaskAt(q, i) /\ i + 0 = i
        /\ TaskAt(q, i).by \in Clients \cup {Nobody}
  <2> SUFFICES ASSUME NEW q \in Pubs, NEW i \in Held(q)'
               PROVE  /\ i \in Held(q) /\ TaskAt(q, i)' = TaskAt(q, i) /\ i + 0 = i
                      /\ TaskAt(q, i).by \in Clients \cup {Nobody}
    OBVIOUS
  <2>1. i \in Held(q) /\ TaskAt(q, i)' = TaskAt(q, i)
    BY <1>2, <1>3
  <2>2. i \in 0 .. Len(tasks[q]) /\ TaskAt(q, i).by \in Clients \cup {Nobody}
    BY <2>1, HeldShape DEF Held
  <2>3. tasks[q] \in Seq(Waiting)
    BY DEF PubSubTypeOK
  <2> QED
    BY <2>1, <2>2, <2>3
<1>5. ASSUME NEW q \in Pubs, NEW i \in Held(q)', TaskAt(q, i).by # Nobody
      PROVE  TaskAt(q, i).by # run[p].by
  <2>1. i \in Held(q)
    BY <1>4
  <2>2. CASE q = p
    BY <1>2, <1>5, <2>1, <2>2 DEF TasksOfCalls
  <2>3. CASE q # p
    <3>1. /\ call[TaskAt(q, i).by] = [op |-> Origin(TaskAt(q, i).op), pub |-> q]
          /\ run[p].by # Nobody => call[run[p].by] = [op |-> Origin(run[p].op), pub |-> p]
      BY <1>2, <1>5, <2>1 DEF TasksOfCalls
    <3> QED
      BY <1>5, <2>3, <3>1
  <2> QED
    BY <2>2, <2>3
<1>6. ASSUME NEW q \in Pubs, q \notin alive' PROVE Held(q)' = {}
  <2>1. CASE q \notin alive
    BY <1>4, <2>1 DEF TasksOfCalls
  <2>2. CASE q = p /\ run[p].op = "destroy"
    <3>1. Len(tasks[p]) = 0
      BY <1>2, <2>2 DEF TasksOfCalls
    <3> QED
      BY <1>1, <1>2, <2>2, <3>1
  <2> QED
    BY <1>6, <2>1, <2>2
<1>7. \A q \in Pubs : \E d \in {0, 1} : \A i \in Held(q)' :
        /\ i + d \in Held(q) /\ Alike(TaskAt(q, i)', TaskAt(q, i + d))
        /\ i + d = Len(tasks[q]) => i = Len(tasks'[q])
  <2> SUFFICES ASSUME NEW q \in Pubs
               PROVE  \A i \in Held(q)' :
                        /\ i + 0 \in Held(q) /\ Alike(TaskAt(q, i)', TaskAt(q, i + 0))
                        /\ i + 0 = Len(tasks[q]) => i = Len(tasks'[q])
    OBVIOUS
  <2> QED
    BY <1>4 DEF Alike
<1>8. \A q \in Pubs : \A i \in Held(q)' :
        TaskAt(q, i)'.by # Nobody => call'[TaskAt(q, i)'.by] = call[TaskAt(q, i)'.by]
  BY <1>4, <1>5
<1> QED
  BY <1>6, <1>7, <1>8, SameTasks

\* A task goes on.
LEMMA TaskGoesOn ==
  ASSUME PubSubTypeOK, PubSubTypeOK', TasksOfCalls,
         UNCHANGED <<tasks, alive>>,
         \A q \in Pubs : /\ Alike(run'[q], run[q])
                         /\ run'[q].op # "none" => run[q].op # "none",
         \A c \in Clients : call[c].op \in {"publish", "register", "unregister", "take", "destroy"}
                              => call'[c] = call[c]
  PROVE  TasksOfCalls'
<1>1. \A q \in Pubs : \A i \in Held(q)' :
        /\ i \in Held(q) /\ Alike(TaskAt(q, i)', TaskAt(q, i)) /\ i + 0 = i
        /\ TaskAt(q, i).by # Nobody => call'[TaskAt(q, i).by] = call[TaskAt(q, i).by]
  <2> SUFFICES ASSUME NEW q \in Pubs, NEW i \in Held(q)'
               PROVE  /\ i \in Held(q) /\ Alike(TaskAt(q, i)', TaskAt(q, i)) /\ i + 0 = i
                      /\ TaskAt(q, i).by # Nobody => call'[TaskAt(q, i).by] = call[TaskAt(q, i).by]
    OBVIOUS
  <2>1. i \in Held(q) /\ Alike(TaskAt(q, i)', TaskAt(q, i))
    BY DEF Held, Idle, TaskAt, Alike
  <2>2. i + 0 = i
    BY <2>1, HeldShape
  <2>3. /\ TaskAt(q, i).by \in Clients \cup {Nobody}
        /\ Origin(TaskAt(q, i).op) \in {"publish", "register", "unregister", "take", "destroy"}
    BY <2>1, HeldShape
  <2>4. TaskAt(q, i).by # Nobody =>
          call[TaskAt(q, i).by] = [op |-> Origin(TaskAt(q, i).op), pub |-> q]
    BY <2>1 DEF TasksOfCalls
  <2> QED
    BY <2>1, <2>2, <2>3, <2>4
<1>2. \A q \in Pubs : \E d \in {0, 1} : \A i \in Held(q)' :
        /\ i + d \in Held(q) /\ Alike(TaskAt(q, i)', TaskAt(q, i + d))
        /\ i + d = Len(tasks[q]) => i = Len(tasks'[q])
  <2> SUFFICES ASSUME NEW q \in Pubs
               PROVE  \A i \in Held(q)' :
                        /\ i + 0 \in Held(q) /\ Alike(TaskAt(q, i)', TaskAt(q, i + 0))
                        /\ i + 0 = Len(tasks[q]) => i = Len(tasks'[q])
    OBVIOUS
  <2> QED
    BY <1>1
<1>3. \A q \in Pubs : \A i \in Held(q)' :
        TaskAt(q, i)'.by # Nobody => call'[TaskAt(q, i)'.by] = call[TaskAt(q, i)'.by]
  BY <1>1 DEF Alike
<1>4. \A q \in Pubs : q \notin alive' => Held(q)' = {}
  BY <1>1 DEF TasksOfCalls
<1> QED
  BY <1>2, <1>3, <1>4, SameTasks

\* The executor takes the next task.
LEMMA TaskStarts ==
  ASSUME PubSubTypeOK, PubSubTypeOK', TasksOfCalls, NEW p \in Pubs, StartTask(p)
  PROVE  TasksOfCalls'
<1>1. /\ tasks[p] \in Seq(Waiting) /\ tasks[p] # <<>> /\ Head(tasks[p]) = tasks[p][1]
      /\ Head(tasks[p]) \in Waiting
      /\ Len(tasks[p]) \in Nat /\ Len(tasks[p]) > 0 /\ run[p].op = "none"
  BY DEF StartTask, PubSubTypeOK, Idle
<1>2. /\ tasks'[p] = Tail(tasks[p]) /\ UNCHANGED <<call, alive>>
      /\ \A q \in Pubs : q # p => tasks'[q] = tasks[q] /\ run'[q] = run[q]
      /\ \/ run'[p] = Head(tasks[p])
         \/ /\ Head(tasks[p]).op = "publish"
            /\ run'[p] = [op |-> "publish", by |-> Head(tasks[p]).by,
                          todo |-> subscribers[p], first |-> FALSE]
  BY ZenonT(40) DEF StartTask, PubSubTypeOK
<1>3. /\ Len(tasks'[p]) = Len(tasks[p]) - 1 /\ DOMAIN tasks'[p] = 1 .. Len(tasks[p]) - 1
      /\ \A i \in 1 .. Len(tasks[p]) - 1 : tasks'[p][i] = tasks[p][i + 1] /\ i + 1 \in 1 .. Len(tasks[p])
  BY <1>1, <1>2, TailRest
<1>4. Alike(run'[p], tasks[p][1]) /\ run'[p].op # "none"
  BY <1>1, <1>2, WaitingShape DEF Alike
<1>5. ASSUME NEW i \in Held(p)'
      PROVE  /\ i + 1 \in Held(p) /\ Alike(TaskAt(p, i)', TaskAt(p, i + 1))
             /\ i + 1 = Len(tasks[p]) => i = Len(tasks'[p])
  <2>1. CASE i = 0
    <3>1. 1 \in Held(p) /\ TaskAt(p, 1) = tasks[p][1] /\ TaskAt(p, i)' = run'[p]
      BY <1>1, <2>1 DEF Held, TaskAt
    <3> QED
      BY <1>1, <1>3, <1>4, <2>1, <3>1
  <2>2. CASE i # 0
    <3>1. i \in 1 .. Len(tasks[p]) - 1
      BY <1>3, <2>2 DEF Held
    <3>2. i + 1 \in Held(p) /\ TaskAt(p, i + 1) = tasks[p][i + 1] /\ TaskAt(p, i)' = tasks'[p][i]
      BY <1>1, <1>3, <2>2, <3>1 DEF Held, TaskAt
    <3> QED
      BY <1>1, <1>3, <3>1, <3>2 DEF Alike
  <2> QED
    BY <2>1, <2>2
<1>6. ASSUME NEW q \in Pubs, q # p, NEW i \in Held(q)'
      PROVE  /\ i + 0 \in Held(q) /\ Alike(TaskAt(q, i)', TaskAt(q, i + 0))
             /\ i + 0 = Len(tasks[q]) => i = Len(tasks'[q])
  <2>1. i \in Held(q) /\ TaskAt(q, i)' = TaskAt(q, i) /\ tasks'[q] = tasks[q]
    BY <1>2, <1>6 DEF Held, Idle, TaskAt
  <2>2. i + 0 = i
    BY <2>1, HeldShape
  <2> QED
    BY <2>1, <2>2 DEF Alike
<1>7. \A q \in Pubs : \E d \in {0, 1} : \A i \in Held(q)' :
        /\ i + d \in Held(q) /\ Alike(TaskAt(q, i)', TaskAt(q, i + d))
        /\ i + d = Len(tasks[q]) => i = Len(tasks'[q])
  BY <1>5, <1>6
<1>8. ASSUME NEW q \in Pubs, q \notin alive' PROVE Held(q)' = {}
  <2>1. Held(q) = {}
    BY <1>2, <1>8 DEF TasksOfCalls
  <2>2. q # p
    BY <1>1, <2>1 DEF Held
  <2> QED
    BY <1>6, <2>1, <2>2
<1>9. \A q \in Pubs : \A i \in Held(q)' :
        TaskAt(q, i)'.by # Nobody => call'[TaskAt(q, i)'.by] = call[TaskAt(q, i)'.by]
  BY <1>2
<1> QED
  BY <1>7, <1>8, <1>9, SameTasks

\* Every step keeps the calls and their tasks.
LEMMA TasksStep ==
  ASSUME PubSubTypeOK, PubSubTypeOK', HistoryExact, OutcomeAgrees, TasksOfCalls,
         [PubSubNext]_pubSubVars
  PROVE  TasksOfCalls'
<1>1. ASSUME NEW p \in Pubs, Finish(p), run[p].op # "none", tasks' = tasks, alive' = alive
      PROVE  TasksOfCalls'
  BY <1>1, Finished, TaskEnds
<1>2. ASSUME NEW p \in Pubs, Alike(run'[p], run[p]), run[p].op # "none",
             \A q \in Pubs : q # p => run'[q] = run[q], UNCHANGED <<tasks, alive, call>>
      PROVE  TasksOfCalls'
  <2>1. \A q \in Pubs : Alike(run'[q], run[q]) /\ (run'[q].op # "none" => run[q].op # "none")
    BY <1>2 DEF Alike
  <2> QED
    BY <1>2, <2>1, TaskGoesOn
<1>3. ASSUME NEW p \in Pubs, NotifyNext(p) PROVE TasksOfCalls'
  <2>1. /\ run[p] \in Publishing /\ run'[p] \in Publishing /\ run'[p].by = run[p].by
        /\ \A q \in Pubs : q # p => run'[q] = run[q]
    BY <1>3, NotifyFacts
  <2>2. Alike(run'[p], run[p]) /\ run[p].op # "none"
    BY <2>1 DEF Publishing, Alike
  <2> QED
    BY <1>2, <1>3, <2>1, <2>2 DEF NotifyNext
<1>4. ASSUME NEW p \in Pubs, PublishDone(p) PROVE TasksOfCalls'
  <2>1. /\ run[p].op # "none" /\ run'[p] = NoTask /\ \A q \in Pubs : q # p => run'[q] = run[q]
        /\ \A c \in Clients : run[p].by # c => call'[c] = call[c]
    BY <1>4, PublishDoneFacts DEF Publishing
  <2> QED
    BY <1>4, <2>1, TaskEnds DEF PublishDone
<1>5. ASSUME NEW p \in Pubs, Find(p) PROVE TasksOfCalls'
  <2>1. CASE Finish(p)
    BY <1>1, <1>5, <2>1 DEF Find
  <2>2. CASE ~Finish(p)
    <3>1. PICK o : /\ o = (IF p \in Range(pubsOf[run[p].sub]) THEN "unregisterFound" ELSE "registerFound")
                   /\ run' = [run EXCEPT ![p] = [op |-> o, by |-> run[p].by, sub |-> run[p].sub,
                                                 found |-> pubsOf[run[p].sub]]]
                   /\ (run[p].op = "register") = ~(p \in Range(pubsOf[run[p].sub]))
                   /\ run[p].op \in {"register", "unregister"}
      BY <1>5, <2>2 DEF Find
    <3>2. /\ run'[p] = [op |-> o, by |-> run[p].by, sub |-> run[p].sub, found |-> pubsOf[run[p].sub]]
          /\ \A q \in Pubs : q # p => run'[q] = run[q]
      BY <3>1 DEF PubSubTypeOK
    <3>3. Origin(o) = Origin(run[p].op) /\ "sub" \in DOMAIN run[p]
      BY <3>1, RunningShape DEF Origin, PubSubTypeOK
    <3>4. Alike(run'[p], run[p])
      BY <3>2, <3>3 DEF Alike
    <3> QED
      BY <1>2, <1>5, <2>2, <3>1, <3>2, <3>4 DEF Find
  <2> QED
    BY <2>1, <2>2
<1>6. ASSUME NEW p \in Pubs, Register(p) PROVE TasksOfCalls'
  <2>1. /\ run[p].op = "registerFound" /\ "sub" \in DOMAIN run[p]
        /\ run'[p] = [op |-> "replay", by |-> run[p].by, sub |-> run[p].sub,
                       todo |-> SubSeq(buffer[p], Skipped(run[p].sub, Len(buffer[p])) + 1,
                                       Len(buffer[p]))]
        /\ \A q \in Pubs : q # p => run'[q] = run[q]
        /\ UNCHANGED <<tasks, alive, call>>
    BY <1>6, RegisterFacts DEF Linking
  <2>2. Alike(run'[p], run[p])
    BY <2>1 DEF Alike, Origin
  <2> QED
    BY <1>2, <2>1, <2>2
<1>7. ASSUME NEW p \in Pubs, ReplayNext(p) PROVE TasksOfCalls'
  <2>1. run' = [run EXCEPT ![p] = [run[p] EXCEPT !.todo = Tail(@)]] /\ run[p] \in Replaying
    BY <1>7, RunningShape DEF ReplayNext, PubSubTypeOK
  <2>2. run'[p] = [run[p] EXCEPT !.todo = Tail(@)] /\ \A q \in Pubs : q # p => run'[q] = run[q]
    BY <2>1 DEF PubSubTypeOK
  <2>3. Alike(run'[p], run[p]) /\ run[p].op # "none"
    BY <2>1, <2>2 DEF Replaying, Alike
  <2> QED
    BY <1>2, <1>7, <2>2, <2>3 DEF ReplayNext
<1>8. ASSUME NEW p \in Pubs, ReplayDone(p) \/ Unregister(p) \/ Take(p) PROVE TasksOfCalls'
  BY <1>1, <1>8 DEF ReplayDone, Unregister, Take
<1>9. ASSUME NEW p \in Pubs, Unlink(p) PROVE TasksOfCalls'
  <2>1. /\ run[p].op = "destroy" /\ alive' = alive \ {p} /\ tasks' = tasks
    BY <1>9 DEF Unlink
  <2>2. /\ run'[p] = NoTask /\ \A q \in Pubs : q # p => run'[q] = run[q]
        /\ \A c \in Clients : call'[c] = IF run[p].by = c THEN Free ELSE call[c]
    BY <1>9, Finished DEF Unlink
  <2> QED
    BY <2>1, <2>2, TaskEnds
<1>10. ASSUME NEW p \in Pubs, Publish(p) PROVE TasksOfCalls'
  <2>1. [op |-> "publish", by |-> Nobody] \in Waiting
    BY DEF Waiting
  <2> QED
    BY <1>10, <2>1, NewTask DEF Publish
<1>11. ASSUME NEW c \in Clients, NEW p \in Pubs, ClientStep(c, p) PROVE TasksOfCalls'
  <2>1. ASSUME NEW t \in Waiting, t.by = c, Begin(c, p, t), "sub" \in DOMAIN t => Settled(p, t.sub),
               run' = run, alive' = alive
        PROVE  TasksOfCalls'
    BY <2>1, NewTask DEF Begin
  <2>2. ASSUME NEW o \in {"publish", "take", "destroy"}, Begin(c, p, [op |-> o, by |-> c]),
               run' = run, alive' = alive
        PROVE  TasksOfCalls'
    <3>1. [op |-> o, by |-> c] \in Waiting
      BY DEF Waiting
    <3> QED
      BY <2>1, <2>2, <3>1
  <2>3. ASSUME NEW o \in {"register", "unregister"}, NEW s \in Subs, Settled(p, s),
               Begin(c, p, [op |-> o, by |-> c, sub |-> s]), run' = run, alive' = alive
        PROVE  TasksOfCalls'
    <3>1. [op |-> o, by |-> c, sub |-> s] \in Waiting
      BY DEF Waiting
    <3> QED
      BY <2>1, <2>3, <3>1
  <2> QED
    BY <1>11, <2>2, <2>3 DEF ClientStep, PublishAndWait, TakeCallbackFailures, DestroyPub,
       RegisterSubscriber, UnregisterSubscriber
<1>12. ASSUME NEW c \in Clients, Return(c) PROVE TasksOfCalls'
  <2>1. \A d \in Clients : call[d].op # "returned" => call'[d] = call[d]
    BY <1>12 DEF Return, PubSubTypeOK
  <2>2. UNCHANGED <<tasks, run, alive>>
    BY <1>12 DEF Return
  <2> QED
    BY <2>1, <2>2, TaskGoesOn DEF Alike
<1>13. CASE UNCHANGED pubSubVars
  BY <1>13, TaskGoesOn DEF pubSubVars, Alike
<1> QED
  BY <1>3, <1>4, <1>5, <1>6, <1>7, <1>8, <1>9, <1>10, <1>11, <1>12, <1>13, TaskStarts
     DEF PubSubNext, WorkerStep

-----------------------------------------------------------------------------
(* One publisher: the two sides of a registration.                         *)

\* What leaves them alone: no registration changes or is looked up, and no call
\* to unregister is added.
LEMMA SameLinks ==
  ASSUME NEW p \in Pubs, LinksExact(p), UNCHANGED <<subscribers, pubsOf, assertFailed, alive>>,
         run'[p].op \notin {"registerFound", "unregisterFound"},
         \A i \in Held(p)' : TaskAt(p, i)'.op = "unregister" =>
            \/ TaskAt(p, i)'.sub \in Range(subscribers[p])
            \/ \E j \in Held(p) : /\ TaskAt(p, j).op = "unregister"
                                  /\ TaskAt(p, i)'.sub = TaskAt(p, j).sub
  PROVE  LinksExact(p)'
  BY DEF LinksExact

\* The tasks of a publisher after a step that only changes the one that runs.
LEMMA SameQueue ==
  ASSUME PubSubTypeOK, NEW p \in Pubs, tasks' = tasks, run[p].op # "none",
         run'[p].op # "unregister"
  PROVE  /\ Held(p)' \subseteq Held(p)
         /\ \A i \in Held(p)' : TaskAt(p, i)'.op = "unregister" =>
              /\ TaskAt(p, i)' = TaskAt(p, i) /\ i # 0 /\ i \in Held(p)
<1>1. tasks[p] \in Seq(Waiting)
  BY DEF PubSubTypeOK
<1> QED
  BY <1>1 DEF Held, Idle, TaskAt

\* A task of one publisher that runs and ends or goes on, whose registrations stay.
LEMMA RunLinks ==
  ASSUME PubSubTypeOK, NEW p \in Pubs, LinksExact(p), tasks' = tasks, run[p].op # "none",
         run'[p].op \notin {"unregister", "registerFound", "unregisterFound"},
         UNCHANGED <<subscribers, pubsOf, assertFailed, alive>>
  PROVE  LinksExact(p)'
<1>1. \A i \in Held(p)' : TaskAt(p, i)'.op = "unregister" => TaskAt(p, i)' = TaskAt(p, i) /\ i \in Held(p)
  BY SameQueue
<1> QED
  BY <1>1, SameLinks

\* A call adds its task.
LEMMA CallLinks ==
  ASSUME PubSubTypeOK, NEW p \in Pubs, LinksExact(p), NEW t \in Waiting, Enqueue(p, t),
         UNCHANGED <<run, subscribers, pubsOf, assertFailed, alive>>,
         t.op = "unregister" => t.sub \in Range(subscribers[p])
  PROVE  LinksExact(p)'
<1>0. PICK n \in Nat : n = Len(tasks[p]) + 1
  BY DEF PubSubTypeOK
<1>1. /\ tasks'[p] = Append(tasks[p], t) /\ tasks[p] \in Seq(Waiting)
  BY DEF PubSubTypeOK, Enqueue
<1>2. /\ DOMAIN tasks'[p] = 1 .. n /\ tasks'[p][n] = t
      /\ \A i \in 1 .. n : i # n => i \in DOMAIN tasks[p] /\ tasks'[p][i] = tasks[p][i]
      /\ n # 0
  BY <1>0, <1>1
<1>3. ASSUME NEW i \in Held(p)', TaskAt(p, i)'.op = "unregister"
      PROVE  TaskAt(p, i)'.sub \in Range(subscribers[p])
  <2>1. CASE i = n
    <3>1. TaskAt(p, i)' = t
      BY <1>2, <2>1 DEF TaskAt
    <3> QED
      BY <1>3, <3>1
  <2>2. CASE i # n
    <3>1. i \in Held(p) /\ TaskAt(p, i)' = TaskAt(p, i)
      BY <1>2, <2>2 DEF Held, TaskAt, Idle
    <3> QED
      BY <1>3, <3>1 DEF LinksExact
  <2> QED
    BY <2>1, <2>2
<1> QED
  BY <1>3 DEF LinksExact

\* The change that follows find().
LEMMA RegisterLinks ==
  ASSUME PubSubTypeOK, TasksOfCalls, NEW p \in Pubs, LinksExact(p), Register(p)
  PROVE  LinksExact(p)'
<1> DEFINE s == run[p].sub
<1>1. /\ run[p].op = "registerFound" /\ s \in Subs /\ run'[p].op = "replay"
      /\ pubsOf'[s] = Append(run[p].found, p)
      /\ \A r \in Subs : r # s => pubsOf'[r] = pubsOf[r]
      /\ subscribers'[p] = Append(subscribers[p], s)
      /\ UNCHANGED <<tasks, assertFailed, alive>>
  <2>1. run'[p] = [op |-> "replay", by |-> run[p].by, sub |-> run[p].sub,
                       todo |-> SubSeq(buffer[p], Skipped(run[p].sub, Len(buffer[p])) + 1,
                                       Len(buffer[p]))]
    BY RegisterFacts
  <2>2. run'[p].op = "replay"
    BY <2>1
  <2> QED
    BY <2>2, RegisterFacts
<1>2. /\ run[p].found = <<>> /\ s \notin Range(subscribers[p]) /\ IsInjective(subscribers[p]) /\ ~assertFailed
      /\ \A r \in Subs : pubsOf[r] = IF r \in Range(subscribers[p]) THEN <<p>> ELSE <<>>
      /\ \A i \in Held(p) : TaskAt(p, i).op = "unregister" => TaskAt(p, i).sub \in Range(subscribers[p])
  BY <1>1 DEF LinksExact
<1>3. subscribers[p] \in Seq(Subs)
  BY DEF PubSubTypeOK
<1>4. /\ Range(subscribers'[p]) = Range(subscribers[p]) \cup {s}
      /\ IsInjective(subscribers'[p])
  BY <1>1, <1>2, <1>3, AppendNew
<1>5. Append(<<>>, p) = <<p>>
  OBVIOUS
<1>6. \A r \in Subs : pubsOf'[r] = IF r \in Range(subscribers'[p]) THEN <<p>> ELSE <<>>
  BY <1>1, <1>2, <1>4, <1>5
<1>7. \A i \in Held(p)' : TaskAt(p, i)'.op = "unregister" => TaskAt(p, i)'.sub \in Range(subscribers'[p])
  BY <1>1, <1>2, <1>4, SameQueue
<1>8. p \in alive
  BY <1>1 DEF TasksOfCalls, Held, Idle
<1> QED
  BY <1>1, <1>2, <1>4, <1>6, <1>7, <1>8 DEF LinksExact

LEMMA UnregisterLinks ==
  ASSUME PubSubTypeOK, TasksOfCalls, NEW p \in Pubs, LinksExact(p), Unregister(p)
  PROVE  LinksExact(p)'
<1>1. run[p] \in Linking /\ run[p].op = "unregisterFound" /\ subscribers[p] \in Seq(Subs)
  BY RunningShape DEF Unregister, PubSubTypeOK
<1>2. /\ run[p].sub \in Subs /\ run[p].found = <<p>> /\ run[p].sub \in Range(subscribers[p])
      /\ IsInjective(subscribers[p]) /\ ~assertFailed
      /\ \A r \in Subs : pubsOf[r] = IF r \in Range(subscribers[p]) THEN <<p>> ELSE <<>>
      /\ \A i \in Held(p) : TaskAt(p, i).op = "unregister" => TaskAt(p, i).sub \in Range(subscribers[p])
  BY <1>1 DEF LinksExact, Linking
<1>3. PICK t \in Others(subscribers[p], run[p].sub) : subscribers' = [subscribers EXCEPT ![p] = t]
  BY DEF Unregister
<1>4. /\ subscribers'[p] = t /\ Range(t) = Range(subscribers[p]) \ {run[p].sub} /\ IsInjective(t)
  BY <1>1, <1>2, <1>3, OthersOf DEF PubSubTypeOK
<1>5. RemoveFirst(<<p>>, p) = <<>>
  <2>1. <<p>> \in Seq(Pubs)
    OBVIOUS
  <2> QED
    BY <2>1, FirstRemoved
<1>6. \A r \in Subs : pubsOf'[r] = IF r \in Range(subscribers'[p]) THEN <<p>> ELSE <<>>
  <2>1. pubsOf' = [pubsOf EXCEPT ![run[p].sub] = <<>>]
    BY <1>2, <1>5 DEF Unregister
  <2> QED
    BY <1>2, <1>4, <2>1 DEF PubSubTypeOK
<1>7. run'[p].op = "none" /\ tasks' = tasks /\ UNCHANGED <<assertFailed, alive>>
  BY Finished DEF Unregister, NoTask
<1>8. ASSUME NEW i \in Held(p)', TaskAt(p, i)'.op = "unregister"
      PROVE  TaskAt(p, i)'.sub \in Range(subscribers'[p])
  <2>1. TaskAt(p, i)' = TaskAt(p, i) /\ i # 0 /\ i \in Held(p)
    BY <1>1, <1>7, <1>8, SameQueue
  <2>2. 0 \in Held(p) /\ TaskAt(p, 0) = run[p] /\ "sub" \in DOMAIN run[p]
    BY <1>1 DEF Held, Idle, TaskAt, Linking
  <2>3. "sub" \in DOMAIN TaskAt(p, i)
    BY <1>8, <2>1, HeldShape, WaitingShape
  <2>4. TaskAt(p, i).sub # run[p].sub
    BY <2>1, <2>2, <2>3 DEF TasksOfCalls
  <2> QED
    BY <1>2, <1>4, <1>8, <2>1, <2>4
<1>9. p \in alive
  BY <1>1 DEF TasksOfCalls, Held, Idle
<1> QED
  BY <1>2, <1>4, <1>6, <1>7, <1>8, <1>9 DEF LinksExact

\* The destructor of a publisher.
LEMMA UnlinkLinks ==
  ASSUME PubSubTypeOK, TasksOfCalls, NEW p \in Pubs, LinksExact(p), Unlink(p)
  PROVE  LinksExact(p)'
<1>1. /\ IsInjective(subscribers[p]) /\ ~assertFailed /\ subscribers[p] \in Seq(Subs)
      /\ \A r \in Subs : pubsOf[r] = IF r \in Range(subscribers[p]) THEN <<p>> ELSE <<>>
  BY DEF LinksExact, PubSubTypeOK
<1>2. /\ Range(<<p>>) = {p} /\ \A r \in Range(subscribers[p]) : r \in Subs
  BY <1>1, OneItem, RangeOf
<1>3. ~assertFailed'
  BY <1>1, <1>2 DEF Unlink
<1>4. RemoveFirst(<<p>>, p) = <<>>
  <2>1. <<p>> \in Seq(Pubs)
    OBVIOUS
  <2> QED
    BY <2>1, FirstRemoved
<1>5. subscribers'[p] = <<>> /\ Range(<<>>) = {} /\ IsInjective(<<>>)
  BY NoItem DEF Unlink, PubSubTypeOK
<1>6. \A r \in Subs : pubsOf'[r] = <<>>
  BY <1>1, <1>4 DEF Unlink
<1>7. run[p].op = "destroy" /\ run'[p].op = "none" /\ tasks' = tasks
  BY Finished DEF Unlink, NoTask
<1>8. Held(p)' = {}
  <2>1. 0 \in Held(p) /\ TaskAt(p, 0) = run[p]
    BY <1>7 DEF Held, Idle, TaskAt
  <2>2. Len(tasks[p]) = 0 /\ tasks[p] \in Seq(Waiting)
    BY <1>7, <2>1 DEF TasksOfCalls, PubSubTypeOK
  <2> QED
    BY <1>7, <2>2 DEF Held, Idle
<1> QED
  BY <1>3, <1>5, <1>6, <1>7, <1>8 DEF LinksExact

\* std::find() and what it finds.
LEMMA FindLinks ==
  ASSUME PubSubTypeOK, NEW p \in Pubs, LinksExact(p), Find(p)
  PROVE  LinksExact(p)'
<1> DEFINE s == run[p].sub
           here == p \in Range(pubsOf[s])
<1>1. /\ run[p] \in [op: {"register", "unregister"}, by: Clients, sub: Subs]
      /\ s \in Subs /\ run[p].op \in {"register", "unregister"}
  BY RunningShape DEF Find, PubSubTypeOK
<1>2. /\ Range(<<p>>) = {p} /\ Range(<<>>) = {}
  BY OneItem, NoItem
<1>3. /\ here <=> s \in Range(subscribers[p])
      /\ pubsOf[s] = IF here THEN <<p>> ELSE <<>>
  BY <1>1, <1>2 DEF LinksExact
<1>4. run[p].op = "unregister" => s \in Range(subscribers[p])
  <2>1. run[p].op # "none"
    BY <1>1
  <2>2. 0 \in Held(p) /\ TaskAt(p, 0) = run[p]
    BY <2>1 DEF Held, TaskAt, Idle
  <2> QED
    BY <2>2 DEF LinksExact
<1>5. UNCHANGED <<tasks, subscribers, pubsOf, alive>> /\ run[p].op # "none"
  BY <1>1 DEF Find, pubVars
<1>6. CASE (run[p].op = "register") = here
  <2>1. Finish(p) /\ assertFailed' = (assertFailed \/ run[p].op = "unregister")
    BY <1>6 DEF Find
  <2>2. run[p].op # "unregister"
    BY <1>3, <1>4, <1>6
  <2>3. assertFailed' = assertFailed
    BY <2>1, <2>2 DEF PubSubTypeOK
  <2>4. run'[p].op = "none"
    BY <2>1, Finished DEF NoTask
  <2> QED
    BY <1>5, <2>3, <2>4, RunLinks
<1>7. CASE (run[p].op = "register") # here
  <2>1. /\ run' = [run EXCEPT ![p] =
                     [op |-> IF here THEN "unregisterFound" ELSE "registerFound",
                      by |-> run[p].by, sub |-> s, found |-> pubsOf[s]]]
        /\ assertFailed' = assertFailed
    BY <1>7 DEF Find
  <2>2. run'[p] = [op |-> IF here THEN "unregisterFound" ELSE "registerFound",
                   by |-> run[p].by, sub |-> s, found |-> pubsOf[s]]
    BY <2>1 DEF PubSubTypeOK
  <2>3. /\ run'[p].sub = s /\ run'[p].found = pubsOf[s]
        /\ run'[p].op = IF here THEN "unregisterFound" ELSE "registerFound"
    BY <2>2
  <2>4. \A i \in Held(p)' : TaskAt(p, i)'.op = "unregister" => TaskAt(p, i)' = TaskAt(p, i) /\ i \in Held(p)
    BY <1>5, <2>3, SameQueue
  <2> HIDE DEF here
  <2> QED
    BY <1>3, <1>5, <2>1, <2>3, <2>4 DEF LinksExact
<1> QED
  BY <1>6, <1>7

\* Every step of the only publisher keeps its links.
LEMMA LinksStep ==
  ASSUME PubSubTypeOK, HistoryExact, OutcomeAgrees, TasksOfCalls,
         NEW p \in Pubs, \A q \in Pubs : q = p, LinksExact(p), [PubSubNext]_pubSubVars
  PROVE  LinksExact(p)'
<1>1. ASSUME StartTask(p) PROVE LinksExact(p)'
  <2>1. /\ tasks[p] \in Seq(Waiting) /\ tasks[p] # <<>> /\ Head(tasks[p]) = tasks[p][1]
        /\ Head(tasks[p]) \in Waiting /\ Len(tasks[p]) \in Nat /\ Len(tasks[p]) > 0
    BY <1>1 DEF StartTask, PubSubTypeOK
  <2>2. /\ tasks'[p] = Tail(tasks[p]) /\ UNCHANGED <<subscribers, pubsOf, assertFailed, alive>>
        /\ \/ run'[p] = Head(tasks[p])
           \/ run'[p] = [op |-> "publish", by |-> Head(tasks[p]).by,
                         todo |-> subscribers[p], first |-> FALSE]
    BY <1>1 DEF StartTask, PubSubTypeOK
  <2>3. /\ DOMAIN tasks'[p] = 1 .. Len(tasks[p]) - 1
        /\ \A i \in 1 .. Len(tasks[p]) - 1 : tasks'[p][i] = tasks[p][i + 1] /\ i + 1 \in 1 .. Len(tasks[p])
    BY <2>1, <2>2, TailRest
  <2>4. /\ run'[p].op \notin {"registerFound", "unregisterFound"}
        /\ run'[p].op = "unregister" => run'[p] = tasks[p][1]
    BY <2>1, <2>2, WaitingShape
  <2>5. ASSUME NEW i \in Held(p)', TaskAt(p, i)'.op = "unregister"
        PROVE  \E j \in Held(p) : TaskAt(p, i)' = TaskAt(p, j)
    <3>1. CASE i = 0
      <4>1. 1 \in Held(p) /\ TaskAt(p, 1) = tasks[p][1] /\ TaskAt(p, i)' = run'[p]
        BY <2>1, <3>1 DEF Held, TaskAt
      <4> QED
        BY <2>4, <2>5, <4>1
    <3>2. CASE i # 0
      <4>1. i \in 1 .. Len(tasks[p]) - 1
        BY <2>3, <3>2 DEF Held
      <4>2. i + 1 \in Held(p) /\ TaskAt(p, i + 1) = tasks[p][i + 1] /\ TaskAt(p, i)' = tasks'[p][i]
        BY <2>1, <2>3, <3>2, <4>1 DEF Held, TaskAt
      <4> QED
        BY <2>3, <4>1, <4>2
    <3> QED
      BY <3>1, <3>2
  <2> QED
    BY <2>2, <2>4, <2>5, SameLinks
<1>2. ASSUME NotifyNext(p) PROVE LinksExact(p)'
  <2>1. run[p].op = "publish" /\ run'[p].op = "publish"
    BY <1>2, NotifyFacts DEF Publishing
  <2> QED
    BY <1>2, <2>1, RunLinks DEF NotifyNext
<1>3. ASSUME PublishDone(p) PROVE LinksExact(p)'
  <2>1. run[p].op = "publish" /\ run'[p].op = "none"
    <3>1. run[p].op = "publish"
      BY <1>3 DEF PublishDone
    <3>2. run'[p] = NoTask
      BY <1>3, PublishDoneFacts
    <3> QED
      BY <3>1, <3>2 DEF NoTask
  <2>2. UNCHANGED <<tasks, subscribers, pubsOf, assertFailed, alive>>
    BY <1>3 DEF PublishDone, pubVars
  <2> QED
    BY <2>1, <2>2, RunLinks
<1>4. ASSUME ReplayNext(p) PROVE LinksExact(p)'
  <2>1. run[p].op = "replay" /\ run'[p].op = "replay"
    <3>1. run' = [run EXCEPT ![p] = [run[p] EXCEPT !.todo = Tail(@)]] /\ run[p] \in Replaying
      BY <1>4, RunningShape DEF ReplayNext, PubSubTypeOK
    <3> QED
      BY <3>1 DEF Replaying, PubSubTypeOK
  <2> QED
    BY <1>4, <2>1, RunLinks DEF ReplayNext
<1>5. ASSUME ReplayDone(p) \/ Take(p) PROVE LinksExact(p)'
  <2>1. run[p].op # "none" /\ run'[p].op = "none"
    BY <1>5, Finished DEF ReplayDone, Take, NoTask
  <2> QED
    BY <1>5, <2>1, RunLinks DEF ReplayDone, Take, pubVars
<1>6. ASSUME Publish(p) PROVE LinksExact(p)'
  <2>1. [op |-> "publish", by |-> Nobody] \in Waiting
    BY DEF Waiting
  <2> QED
    BY <1>6, <2>1, CallLinks DEF Publish, pubVars
<1>7. ASSUME NEW c \in Clients, ClientStep(c, p) PROVE LinksExact(p)'
  <2>1. UNCHANGED <<run, subscribers, pubsOf, assertFailed, alive>>
    BY <1>7 DEF ClientStep, PublishAndWait, TakeCallbackFailures, DestroyPub,
       RegisterSubscriber, UnregisterSubscriber, pubVars
  <2>2. PICK t \in Waiting : /\ Enqueue(p, t)
                             /\ t.op = "unregister" => t.sub \in Range(subscribers[p])
    <3>1. ASSUME NEW o \in {"publish", "take", "destroy"}, Begin(c, p, [op |-> o, by |-> c])
          PROVE  \E t \in Waiting : /\ Enqueue(p, t)
                                    /\ t.op = "unregister" => t.sub \in Range(subscribers[p])
      <4>1. [op |-> o, by |-> c] \in Waiting
        BY DEF Waiting
      <4> QED
        BY <3>1, <4>1 DEF Begin
    <3>2. ASSUME NEW o \in {"register", "unregister"}, NEW s \in Subs,
                 Begin(c, p, [op |-> o, by |-> c, sub |-> s]),
                 o = "unregister" => s \in Range(subscribers[p])
          PROVE  \E t \in Waiting : /\ Enqueue(p, t)
                                    /\ t.op = "unregister" => t.sub \in Range(subscribers[p])
      <4>1. [op |-> o, by |-> c, sub |-> s] \in Waiting
        BY DEF Waiting
      <4> QED
        BY <3>2, <4>1 DEF Begin
    <3> QED
      BY <1>7, <3>1, <3>2 DEF ClientStep, PublishAndWait, TakeCallbackFailures, DestroyPub,
         RegisterSubscriber, UnregisterSubscriber
  <2> QED
    BY <2>1, <2>2, CallLinks
<1>8. CASE UNCHANGED <<tasks, run, subscribers, pubsOf, assertFailed, alive>>
  BY <1>8 DEF LinksExact, Held, TaskAt, Idle
<1>9. ASSUME NEW c \in Clients, Return(c) PROVE LinksExact(p)'
  BY <1>8, <1>9 DEF Return, pubVars
<1>10. CASE UNCHANGED pubSubVars
  BY <1>8, <1>10 DEF pubSubVars, pubVars
<1> QED
  BY <1>1, <1>2, <1>3, <1>4, <1>5, <1>6, <1>7, <1>9, <1>10, RegisterLinks, UnregisterLinks, UnlinkLinks,
     FindLinks DEF PubSubNext, WorkerStep

-----------------------------------------------------------------------------
(* One publisher: the deliveries.                                          *)

\* How many items a subscriber is promised, and which of the history they are.
LEMMA PromisedItems ==
  ASSUME NEW s \in Subs, NEW n \in Nat
  PROVE  /\ Promised(s, n) \in 0 .. n
         /\ LET b == Recent(n)
            IN  SubSeq(b, Skipped(s, Len(b)) + 1, Len(b))
                  = [i \in 1 .. Promised(s, n) |-> n - Promised(s, n) + i]
<1> DEFINE kept == IF n < Capacity THEN n ELSE Capacity
           k == Promised(s, n)
           b == Recent(n)
<1>1. Capacity \in Nat /\ Replay[s] \in Int /\ kept \in 0 .. n
  BY PubSubAssumption
<1>2. k = IF Replay[s] < 0 \/ Replay[s] > kept THEN kept ELSE Replay[s]
  BY DEF Promised
<1>3. /\ b \in Seq(Nat) /\ Len(b) = kept
      /\ \A i \in 1 .. kept : b[i] = n - kept + i
  <2> HIDE DEF kept
  <2>1. b = [i \in 1 .. kept |-> n - kept + i]
    BY DEF Recent, kept
  <2>2. \A i \in 1 .. kept : n - kept + i \in Nat
    BY <1>1
  <2> QED
    BY <1>1, <2>1, <2>2
<1> HIDE DEF kept, k, b
<1>4. k \in 0 .. kept /\ Skipped(s, kept) = kept - k
  BY <1>1, <1>2 DEF Skipped
<1>5. PICK a \in 1 .. kept + 1 : a = Skipped(s, kept) + 1
  <2>1. Skipped(s, kept) + 1 \in 1 .. kept + 1
    BY <1>1, <1>4
  <2> QED
    BY <2>1
<1>6. /\ SubSeq(b, a, Len(b)) \in Seq(Nat) /\ Len(SubSeq(b, a, Len(b))) = kept - a + 1
      /\ \A i \in 1 .. kept - a + 1 : SubSeq(b, a, Len(b))[i] = b[a - 1 + i]
  BY <1>3, RestOfSeq
<1>7. kept - a + 1 = k /\ \A i \in 1 .. k : a - 1 + i \in 1 .. kept /\ n - kept + (a - 1 + i) = n - k + i
  BY <1>1, <1>4, <1>5
<1>8. SubSeq(b, a, Len(b)) = [i \in 1 .. k |-> n - k + i]
  <2>1. \A i \in 1 .. k : SubSeq(b, a, Len(b))[i] = n - k + i
    BY <1>3, <1>6, <1>7
  <2>2. /\ [i \in 1 .. k |-> n - k + i] \in Seq(Nat)
        /\ Len([i \in 1 .. k |-> n - k + i]) = k
        /\ \A i \in 1 .. k : [j \in 1 .. k |-> n - k + j][i] = n - k + i
    <3>1. k \in Nat /\ \A i \in 1 .. k : n - k + i \in Nat
      BY <1>1, <1>4
    <3> QED
      BY <3>1
  <2> DEFINE u == SubSeq(b, a, Len(b))
             v == [i \in 1 .. k |-> n - k + i]
  <2>3. u \in Seq(Nat) /\ Len(u) = k /\ v \in Seq(Nat) /\ Len(v) = k /\ \A i \in 1 .. k : u[i] = v[i]
    BY <1>6, <1>7, <2>1, <2>2
  <2> HIDE DEF u, v
  <2>4. u = v
    BY <2>3, SeqEqual
  <2> QED
    BY <2>4 DEF u, v
<1>9. SubSeq(b, Skipped(s, Len(b)) + 1, Len(b)) = [i \in 1 .. k |-> n - k + i]
  BY <1>3, <1>5, <1>8
<1>10. k \in 0 .. n
  BY <1>1, <1>4
<1> QED
  BY <1>9, <1>10 DEF k, b

\* One item more.
LEMMA AfterNext ==
  ASSUME NEW start \in Nat, NEW last \in Nat, start < last
  PROVE  Append(After(start, last - 1), last) = After(start, last)
<1>1. PICK n \in Nat : n = last - start - 1
  <2>1. last - start - 1 \in Nat
    OBVIOUS
  <2> QED
    BY <2>1
<1>2. last - start = n + 1 /\ (last - 1) - start = n /\ start + (n + 1) = last
  BY <1>1
<1>3. /\ After(start, last - 1) = [i \in 1 .. n |-> start + i]
      /\ After(start, last) = [i \in 1 .. n + 1 |-> start + i]
  BY <1>2 DEF After
<1>4. /\ After(start, last - 1) \in Seq(Nat) /\ Len(After(start, last - 1)) = n
      /\ After(start, last) \in Seq(Nat) /\ Len(After(start, last)) = n + 1
  BY <1>3
<1>5. /\ Append(After(start, last - 1), last) \in Seq(Nat)
      /\ Len(Append(After(start, last - 1), last)) = n + 1
      /\ Append(After(start, last - 1), last)[n + 1] = last
      /\ \A i \in 1 .. n : Append(After(start, last - 1), last)[i] = After(start, last - 1)[i]
  BY <1>4
<1>6. ASSUME NEW i \in 1 .. n + 1
      PROVE  Append(After(start, last - 1), last)[i] = After(start, last)[i]
  <2>1. CASE i = n + 1
    BY <1>2, <1>3, <1>5, <2>1
  <2>2. CASE i # n + 1
    <3>1. i \in 1 .. n
      BY <2>2
    <3> QED
      BY <1>3, <1>5, <3>1
  <2> QED
    BY <2>1, <2>2
<1> QED
  BY <1>4, <1>5, <1>6, SeqEqual

\* What a subscriber of the only publisher was and will be offered, unfolded.
LEMMA DeliveryOf ==
  ASSUME NEW p \in Pubs, DeliveryExactSoFar(p), NEW s \in Range(subscribers[p])
  PROVE  LET first == joined[p][s] - Promised(s, joined[p][s])
         IN  /\ run[p].op = "publish" /\ s \in Range(run[p].todo) =>
                  offered[p][s] = After(first, published[p] - 1)
             /\ run[p].op = "replay" /\ run[p].sub = s =>
                  offered[p][s] \o run[p].todo = After(first, published[p])
             /\ /\ ~(run[p].op = "publish" /\ s \in Range(run[p].todo))
                /\ ~(run[p].op = "replay" /\ run[p].sub = s)
                => offered[p][s] = After(first, published[p])
  BY DEF DeliveryExactSoFar

\* What leaves the deliveries alone: nothing is delivered, and nobody joins.
LEMMA SameDelivery ==
  ASSUME PubSubTypeOK, NEW p \in Pubs, DeliveryExactSoFar(p),
         UNCHANGED <<published[p], joined[p], offered[p]>>,
         Range(subscribers'[p]) \subseteq Range(subscribers[p]),
         \/ run'[p] = run[p] /\ subscribers'[p] = subscribers[p]
         \/ /\ run'[p].op \notin {"publish", "replay"}
            /\ run[p].op \in {"publish", "replay"} => run[p].todo = <<>>
  PROVE  DeliveryExactSoFar(p)'
<1>1. CASE run'[p] = run[p] /\ subscribers'[p] = subscribers[p]
  BY <1>1 DEF DeliveryExactSoFar
<1>2. CASE /\ run'[p].op \notin {"publish", "replay"}
           /\ run[p].op \in {"publish", "replay"} => run[p].todo = <<>>
  <2>1. ASSUME NEW s \in Range(subscribers'[p])
        PROVE  offered'[p][s] = After(joined'[p][s] - Promised(s, joined'[p][s]), published'[p])
    <3>1. s \in Range(subscribers[p]) /\ s \in Subs /\ offered[p][s] \in Seq(Nat)
      BY <2>1, RangeOf DEF PubSubTypeOK
    <3>2. Range(<<>>) = {} /\ offered[p][s] \o <<>> = offered[p][s]
      BY <3>1, NoItem
    <3>3. offered[p][s] = After(joined[p][s] - Promised(s, joined[p][s]), published[p])
      BY <1>2, <3>1, <3>2, DeliveryOf
    <3> QED
      BY <3>3
  <2> QED
    BY <1>2, <2>1 DEF DeliveryExactSoFar
<1> QED
  BY <1>1, <1>2

\* A publication starts.
LEMMA StartDelivery ==
  ASSUME PubSubTypeOK, HistoryExact, NEW p \in Pubs, LinksExact(p),
         DeliveryExactSoFar(p), StartTask(p), Head(tasks[p]).op = "publish"
  PROVE  DeliveryExactSoFar(p)'
<1>1. /\ published'[p] = published[p] + 1 /\ published[p] \in Nat
      /\ UNCHANGED <<subscribers, joined, offered>>
  BY StartPublish DEF PubSubTypeOK
<1>2. run[p].op = "none" /\ run'[p].op = "publish" /\ run'[p].todo = subscribers[p]
  <2>1. run'[p] = [op |-> "publish", by |-> Head(tasks[p]).by, todo |-> subscribers[p], first |-> FALSE]
    BY StartPublish
  <2> QED
    BY <2>1 DEF StartTask, Idle
<1>3. IsInjective(subscribers[p]) /\ \A s \in Range(subscribers[p]) : s \in Subs
  BY RangeOf DEF LinksExact, PubSubTypeOK
<1>4. \A s \in Range(subscribers[p]) : joined[p][s] \in Nat /\ joined[p][s] < published'[p]
  BY <1>1, <1>3 DEF HistoryExact, PubSubTypeOK
<1>5. published'[p] - 1 = published[p]
  BY <1>1
<1>6. ASSUME NEW s \in Range(subscribers[p])
      PROVE  offered[p][s] = After(joined[p][s] - Promised(s, joined[p][s]), published'[p] - 1)
  BY <1>2, <1>5, DeliveryOf
<1> QED
  BY <1>1, <1>2, <1>3, <1>4, <1>6 DEF DeliveryExactSoFar

\* A subscriber is served.
LEMMA NotifyDelivery ==
  ASSUME PubSubTypeOK, HistoryExact, OutcomeAgrees, NEW p \in Pubs, LinksExact(p),
         DeliveryExactSoFar(p), NotifyNext(p)
  PROVE  DeliveryExactSoFar(p)'
<1> DEFINE s == Head(run[p].todo)
<1>1. /\ run[p] \in Publishing /\ run[p].op = "publish" /\ run[p].todo # <<>>
      /\ run'[p].op = "publish" /\ run'[p].todo = Tail(run[p].todo)
      /\ s \in Subs /\ Offer(p, s, published[p])
      /\ UNCHANGED <<subscribers, published, joined>>
  BY NotifyFacts DEF Publishing
<1>2. /\ run[p].todo \in Seq(Subs) /\ IsInjective(run[p].todo)
      /\ Range(run[p].todo) \subseteq Range(subscribers[p])
      /\ \A r \in Range(run[p].todo) : joined[p][r] < published[p]
  BY <1>1 DEF DeliveryExactSoFar, Publishing
<1>3. /\ s \in Range(run[p].todo) /\ Range(run[p].todo) = Range(Tail(run[p].todo)) \cup {s}
      /\ IsInjective(Tail(run[p].todo)) /\ s \notin Range(Tail(run[p].todo))
  BY <1>1, <1>2, TailRest
<1>4. published[p] \in Nat
  BY DEF PubSubTypeOK
<1>5. /\ offered'[p][s] = Append(offered[p][s], published[p])
      /\ \A r \in Subs : r # s => offered'[p][r] = offered[p][r]
  BY <1>1, <1>4, OfferTypes
<1>6. ASSUME NEW r \in Range(subscribers[p])
      PROVE  LET first == joined[p][r] - Promised(r, joined[p][r])
             IN  /\ r \in Range(Tail(run[p].todo)) => offered'[p][r] = After(first, published[p] - 1)
                 /\ r \notin Range(Tail(run[p].todo)) => offered'[p][r] = After(first, published[p])
  <2> DEFINE first == joined[p][r] - Promised(r, joined[p][r])
  <2>1. r \in Subs
    BY <1>6, RangeOf DEF PubSubTypeOK
  <2>2. CASE r = s
    <3>1. offered[p][r] = After(first, published[p] - 1)
      BY <1>1, <1>3, <1>6, <2>2, DeliveryOf
    <3>2. joined[p][r] \in Nat /\ joined[p][r] < published[p]
      BY <1>2, <1>3, <2>1, <2>2 DEF PubSubTypeOK
    <3>3. first \in Nat /\ first < published[p]
      <4>1. Promised(r, joined[p][r]) \in 0 .. joined[p][r]
        BY <2>1, <3>2, PromisedItems
      <4> QED
        BY <1>4, <3>2, <4>1
    <3> HIDE DEF first
    <3>4. Append(After(first, published[p] - 1), published[p]) = After(first, published[p])
      BY <1>4, <3>3, AfterNext
    <3> QED
      BY <1>3, <1>5, <2>2, <3>1, <3>4 DEF first
  <2>3. CASE r # s
    <3>1. offered'[p][r] = offered[p][r]
      BY <1>5, <2>1, <2>3
    <3>2. r \in Range(Tail(run[p].todo)) <=> r \in Range(run[p].todo)
      BY <1>3, <2>3
    <3> QED
      BY <1>1, <1>6, <3>1, <3>2, DeliveryOf
  <2> QED
    BY <2>2, <2>3
<1> QED
  BY <1>1, <1>2, <1>3, <1>6 DEF DeliveryExactSoFar

\* A subscriber joins; its replay is the promised end of the history.
LEMMA RegisterDelivery ==
  ASSUME PubSubTypeOK, HistoryExact, NEW p \in Pubs, LinksExact(p),
         DeliveryExactSoFar(p), Register(p)
  PROVE  DeliveryExactSoFar(p)'
<1> DEFINE s == run[p].sub
           todo == SubSeq(buffer[p], Skipped(s, Len(buffer[p])) + 1, Len(buffer[p]))
<1>1. /\ run[p].op = "registerFound" /\ s \in Subs /\ s \notin Range(subscribers[p])
      /\ subscribers'[p] = Append(subscribers[p], s)
      /\ joined'[p][s] = published[p] /\ offered'[p][s] = <<>> /\ published' = published
      /\ \A r \in Subs : r # s => UNCHANGED <<joined[p][r], offered[p][r]>>
      /\ run'[p] = [op |-> "replay", by |-> run[p].by, sub |-> s, todo |-> todo]
  <2>1. run[p].op = "registerFound"
    BY RegisterFacts
  <2>2. s \notin Range(subscribers[p])
    BY <2>1 DEF LinksExact
  <2> QED
    BY <2>1, <2>2, RegisterFacts
<1>2. run'[p].op = "replay" /\ run'[p].sub = s /\ run'[p].todo = todo
  <2> HIDE DEF s, todo
  <2> QED
    BY <1>1
<1>3. /\ todo = After(published[p] - Promised(s, published[p]), published[p])
      /\ todo \in Seq(Nat)
  <2>1. published[p] \in Nat /\ buffer[p] = Recent(published[p])
    BY DEF PubSubTypeOK, HistoryExact
  <2>2. /\ Promised(s, published[p]) \in 0 .. published[p]
        /\ todo = [i \in 1 .. Promised(s, published[p]) |-> published[p] - Promised(s, published[p]) + i]
    BY <1>1, <2>1, PromisedItems
  <2>3. published[p] - (published[p] - Promised(s, published[p])) = Promised(s, published[p])
    BY <2>1, <2>2
  <2>4. \A i \in 1 .. Promised(s, published[p]) : published[p] - Promised(s, published[p]) + i \in Nat
    BY <2>1, <2>2
  <2> HIDE DEF todo
  <2> QED
    BY <2>2, <2>3, <2>4 DEF After
<1> HIDE DEF todo
<1>4. <<>> \o todo = todo
  BY <1>3
<1>5. Range(subscribers'[p]) = Range(subscribers[p]) \cup {s}
  BY <1>1, AppendNew DEF PubSubTypeOK
<1>6. ASSUME NEW r \in Range(subscribers[p])
      PROVE  /\ r # s /\ UNCHANGED <<joined[p][r], offered[p][r]>>
             /\ offered[p][r] = After(joined[p][r] - Promised(r, joined[p][r]), published[p])
  <2>1. r # s /\ r \in Subs
    BY <1>1, <1>6, RangeOf DEF PubSubTypeOK
  <2>2. offered[p][r] = After(joined[p][r] - Promised(r, joined[p][r]), published[p])
    BY <1>1, <1>6, DeliveryOf
  <2> QED
    BY <1>1, <2>1, <2>2
<1>7. ASSUME NEW r \in Range(subscribers'[p])
      PROVE  (IF run'[p].sub = r THEN offered'[p][r] \o run'[p].todo ELSE offered'[p][r])
                = After(joined'[p][r] - Promised(r, joined'[p][r]), published'[p])
  <2>1. CASE r = s
    BY <1>1, <1>2, <1>3, <1>4, <2>1
  <2>2. CASE r # s
    <3>1. r \in Range(subscribers[p])
      BY <1>5, <1>7, <2>2
    <3> QED
      BY <1>1, <1>2, <1>6, <2>2, <3>1
  <2> QED
    BY <2>1, <2>2
<1> QED
  BY <1>2, <1>5, <1>7 DEF DeliveryExactSoFar

\* One item of the replay.
LEMMA ReplayDelivery ==
  ASSUME PubSubTypeOK, NEW p \in Pubs, DeliveryExactSoFar(p), ReplayNext(p)
  PROVE  DeliveryExactSoFar(p)'
<1> DEFINE s == run[p].sub
           k == Head(run[p].todo)
<1>1. /\ run[p] \in Replaying /\ run[p].op = "replay" /\ run[p].todo # <<>>
      /\ run' = [run EXCEPT ![p] = [run[p] EXCEPT !.todo = Tail(@)]]
      /\ Offer(p, s, k) /\ UNCHANGED <<subscribers, published, joined>>
  BY RunningShape DEF ReplayNext, PubSubTypeOK
<1>2. run'[p].op = "replay" /\ run'[p].sub = s /\ run'[p].todo = Tail(run[p].todo)
  <2>1. run'[p] = [run[p] EXCEPT !.todo = Tail(@)]
    BY <1>1 DEF PubSubTypeOK
  <2> QED
    BY <1>1, <2>1 DEF Replaying
<1>3. run[p].todo \in Seq(Nat) /\ s \in Subs /\ k \in Nat
  BY <1>1 DEF Replaying
<1>4. /\ offered'[p][s] = Append(offered[p][s], k) /\ offered[p][s] \in Seq(Nat)
      /\ \A r \in Subs : r # s => offered'[p][r] = offered[p][r]
  <2>1. offered[p][s] \in Seq(Nat)
    BY <1>3 DEF PubSubTypeOK
  <2> QED
    BY <1>1, <1>3, <2>1, OfferTypes
<1>5. Append(offered[p][s], k) \o Tail(run[p].todo) = offered[p][s] \o run[p].todo
  BY <1>1, <1>3, <1>4, MoveHead
<1>6. ASSUME NEW r \in Range(subscribers'[p])
      PROVE  (IF run'[p].sub = r THEN offered'[p][r] \o run'[p].todo ELSE offered'[p][r])
                = After(joined'[p][r] - Promised(r, joined'[p][r]), published'[p])
  <2>1. r \in Range(subscribers[p]) /\ r \in Subs
    BY <1>1, <1>6, RangeOf DEF PubSubTypeOK
  <2>2. CASE r = s
    <3>1. offered[p][r] \o run[p].todo = After(joined[p][r] - Promised(r, joined[p][r]), published[p])
      BY <1>1, <2>1, <2>2, DeliveryOf
    <3> QED
      BY <1>1, <1>2, <1>4, <1>5, <2>2, <3>1
  <2>3. CASE r # s
    <3>1. offered[p][r] = After(joined[p][r] - Promised(r, joined[p][r]), published[p])
      BY <1>1, <2>1, <2>3, DeliveryOf
    <3> QED
      BY <1>1, <1>2, <1>4, <2>1, <2>3, <3>1
  <2> QED
    BY <2>2, <2>3
<1>7. s \in Range(subscribers[p])
  BY <1>1 DEF DeliveryExactSoFar
<1> QED
  BY <1>1, <1>2, <1>6, <1>7 DEF DeliveryExactSoFar

\* Every step of the only publisher keeps its deliveries exact.
LEMMA DeliveryStep ==
  ASSUME PubSubTypeOK, HistoryExact, OutcomeAgrees,
         NEW p \in Pubs, \A q \in Pubs : q = p, LinksExact(p), DeliveryExactSoFar(p), [PubSubNext]_pubSubVars
  PROVE  DeliveryExactSoFar(p)'
<1>0. subscribers[p] \in Seq(Subs)
  BY DEF PubSubTypeOK
<1>1. CASE StartTask(p) /\ Head(tasks[p]).op # "publish"
  <2>1. /\ run[p].op = "none" /\ run'[p] = Head(tasks[p]) /\ Head(tasks[p]) \in Waiting
        /\ UNCHANGED <<subscribers, published, joined, offered>>
    BY <1>1 DEF StartTask, Idle, PubSubTypeOK
  <2>2. run'[p].op \notin {"publish", "replay"}
    BY <1>1, <2>1, WaitingShape
  <2> QED
    BY <2>1, <2>2, SameDelivery
<1>2. CASE PublishDone(p)
  <2>1. run[p].todo = <<>> /\ run'[p] = NoTask /\ UNCHANGED <<subscribers, published, joined, offered>>
    BY <1>2, PublishDoneFacts
  <2> QED
    BY <2>1, SameDelivery DEF NoTask
<1>3. CASE Find(p)
  <2>1. /\ run[p].op \in {"register", "unregister"}
        /\ UNCHANGED <<subscribers, published, joined, offered>>
    BY <1>3 DEF Find, pubVars, history
  <2>2. run'[p].op \in {"none", "registerFound", "unregisterFound"}
    <3>1. CASE Finish(p)
      BY <3>1, Finished DEF NoTask
    <3>2. CASE ~Finish(p)
      <4>1. PICK o \in {"registerFound", "unregisterFound"} :
              run' = [run EXCEPT ![p] = [op |-> o, by |-> run[p].by, sub |-> run[p].sub,
                                         found |-> pubsOf[run[p].sub]]]
        BY <1>3, <3>2 DEF Find
      <4> QED
        BY <4>1 DEF PubSubTypeOK
    <3> QED
      BY <3>1, <3>2
  <2> QED
    BY <2>1, <2>2, SameDelivery
<1>4. CASE ReplayDone(p)
  <2>1. run'[p] = NoTask /\ run[p].todo = <<>> /\ UNCHANGED <<subscribers, published, joined, offered>>
    BY <1>4, Finished DEF ReplayDone, pubVars, history
  <2> QED
    BY <2>1, SameDelivery DEF NoTask
<1>5. CASE Unregister(p) \/ Take(p) \/ Unlink(p)
  <2>1. /\ run[p].op \in {"unregisterFound", "take", "destroy"} /\ run'[p] = NoTask
        /\ UNCHANGED <<published, joined, offered>>
    BY <1>5, Finished DEF Unregister, Take, Unlink, history
  <2>2. Range(subscribers'[p]) \subseteq Range(subscribers[p])
    <3>1. CASE Unregister(p)
      <4>1. PICK t \in Others(subscribers[p], run[p].sub) : subscribers' = [subscribers EXCEPT ![p] = t]
        BY <3>1 DEF Unregister
      <4>2. Range(t) \subseteq Range(subscribers[p])
        BY <1>0, OthersOf
      <4> QED
        BY <4>1, <4>2 DEF PubSubTypeOK
    <3>2. CASE Take(p)
      BY <3>2 DEF Take
    <3>3. CASE Unlink(p)
      <4>1. subscribers'[p] = <<>> /\ Range(<<>>) = {}
        BY <3>3, NoItem DEF Unlink, PubSubTypeOK
      <4> QED
        BY <4>1
    <3> QED
      BY <1>5, <3>1, <3>2, <3>3
  <2> QED
    BY <2>1, <2>2, SameDelivery DEF NoTask
<1>6. CASE UNCHANGED <<run, subscribers, published, joined, offered>>
  BY <1>6, SameDelivery
<1>7. CASE Publish(p)
  BY <1>6, <1>7 DEF Publish, pubVars, history
<1>8. ASSUME NEW c \in Clients, ClientStep(c, p) PROVE DeliveryExactSoFar(p)'
  BY <1>6, <1>8 DEF ClientStep, PublishAndWait, TakeCallbackFailures, DestroyPub,
     RegisterSubscriber, UnregisterSubscriber, pubVars, history
<1>9. ASSUME NEW c \in Clients, Return(c) PROVE DeliveryExactSoFar(p)'
  BY <1>6, <1>9 DEF Return, pubVars, history
<1>10. CASE UNCHANGED pubSubVars
  BY <1>6, <1>10 DEF pubSubVars, pubVars, history
<1> QED
  BY <1>1, <1>2, <1>3, <1>4, <1>5, <1>7, <1>8, <1>9, <1>10, StartDelivery, NotifyDelivery, RegisterDelivery,
     ReplayDelivery DEF PubSubNext, WorkerStep

-----------------------------------------------------------------------------
(* The theorems.                                                           *)

LEMMA PubSubInvInit ==
  ASSUME PubSubInit
  PROVE  PubSubInv
<1>1. PubSubTypeOK
  <2>1. /\ tasks \in [Pubs -> Seq(Waiting)] /\ subscribers \in [Pubs -> Seq(Subs)]
        /\ failures \in [Pubs -> Seq(Failures)] /\ thrown \in [Pubs -> Seq(Failures)]
        /\ pubsOf \in [Subs -> Seq(Pubs)] /\ outcome \in [Pubs -> Seq(BOOLEAN)]
        /\ offered \in [Pubs -> [Subs -> Seq(Nat)]]
    BY DEF PubSubInit
  <2>2. run \in [Pubs -> Running] /\ call \in [Clients -> Calling]
    BY DEF PubSubInit, Running, Calling
  <2>3. buffer \in [Pubs -> Seq(Nat)] /\ \A p \in Pubs : Len(buffer[p]) <= Capacity
    BY PubSubAssumption DEF PubSubInit
  <2>4. /\ issued \in [Pubs -> 0 .. MaxItems] /\ registrations \in 0 .. MaxRegistrations
        /\ published \in [Pubs -> Nat] /\ joined \in [Pubs -> [Subs -> Nat]]
    BY PubSubAssumption DEF PubSubInit
  <2>5. assertFailed \in BOOLEAN /\ alive \subseteq Pubs
    BY DEF PubSubInit
  <2> QED
    BY <2>1, <2>2, <2>3, <2>4, <2>5 DEF PubSubTypeOK
<1>2. Newest(<<>>) = <<>>
  <2>1. <<>> \in Seq(Failures) /\ Len(<<>>) = 0 /\ Kept(0) = 0
    BY KeptBound
  <2>2. Newest(<<>>) \in Seq(Failures) /\ Len(Newest(<<>>)) = 0
    BY <2>1, NewestItems
  <2> QED
    BY <2>2
<1>3. FailuresKept
  BY <1>2 DEF PubSubInit, FailuresKept
<1>4. Recent(0) = <<>>
  BY PubSubAssumption DEF Recent
<1>5. HistoryExact
  BY <1>4 DEF PubSubInit, HistoryExact
<1>6. OutcomeAgrees
  BY DEF PubSubInit, OutcomeAgrees, NoTask, Free
<1>7. Range(<<>>) = {} /\ IsInjective(<<>>)
  BY NoItem
<1>8. Served
  BY <1>7 DEF PubSubInit, Served
<1>9. \A p \in Pubs : Held(p) = {} /\ p \in alive /\ run[p].op = "none"
  BY DEF PubSubInit, Held, Idle, NoTask
<1>10. TasksOfCalls
  BY <1>9 DEF TasksOfCalls
<1>11. ASSUME NEW p \in Pubs PROVE LinksExact(p) /\ DeliveryExactSoFar(p)
  <2>1. subscribers[p] = <<>> /\ \A s \in Subs : pubsOf[s] = <<>>
    BY DEF PubSubInit
  <2>2. ~assertFailed
    BY DEF PubSubInit
  <2> QED
    BY <1>7, <1>9, <2>1, <2>2 DEF LinksExact, DeliveryExactSoFar
<1>12. ~assertFailed
  BY DEF PubSubInit
<1> QED
  BY <1>1, <1>3, <1>5, <1>6, <1>8, <1>10, <1>11, <1>12 DEF PubSubInv

LEMMA PubSubInvStep ==
  ASSUME PubSubInv, [PubSubNext]_pubSubVars
  PROVE  PubSubInv'
<1>1. PubSubTypeOK /\ FailuresKept /\ HistoryExact /\ OutcomeAgrees /\ Served /\ TasksOfCalls
  BY DEF PubSubInv
<1>2. PubSubTypeOK' /\ FailuresKept' /\ HistoryExact' /\ OutcomeAgrees' /\ Served'
  BY <1>1, TypeStep, FailuresStep, HistoryStep, OutcomeStep, ServedStep
<1>3. TasksOfCalls'
  BY <1>1, <1>2, TasksStep
<1>4. ASSUME OnePublisher, NEW p \in Pubs PROVE LinksExact(p)' /\ DeliveryExactSoFar(p)'
  <2>1. LinksExact(p) /\ DeliveryExactSoFar(p) /\ \A q \in Pubs : q = p
    BY <1>4 DEF PubSubInv, OnePublisher
  <2> QED
    BY <1>1, <2>1, LinksStep, DeliveryStep
<1>5. ASSUME OnePublisher PROVE ~assertFailed'
  <2>1. CASE Pubs = {}
    BY <1>5, <2>1 DEF PubSubInv, PubSubNext, Return, pubSubVars
  <2>2. CASE Pubs # {}
    BY <1>4, <1>5, <2>2 DEF LinksExact
  <2> QED
    BY <2>1, <2>2
<1>6. OnePublisher' <=> OnePublisher
  BY DEF OnePublisher
<1> QED
  BY <1>2, <1>3, <1>4, <1>5, <1>6 DEF PubSubInv

\* The inductive invariant, for any number of publishers, subscribers and clients,
\* any capacities and any number of calls: the types, the list of failures, the
\* history, the outcomes and the services, the tasks and the calls that wait for
\* them, and for a single publisher its links and its deliveries.
THEOREM PubSubCorrect == PubSubSpec => []PubSubInv
<1>1. PubSubInit => PubSubInv
  BY PubSubInvInit
<1>2. PubSubInv /\ [PubSubNext]_pubSubVars => PubSubInv'
  BY PubSubInvStep
<1> QED
  BY <1>1, <1>2, PTL DEF PubSubSpec

\* recordCallbackFailure(), takeCallbackFailures(): however deliveries, replays and
\* drains follow each other, the list holds the newest failures since the last drain.
THEOREM FailuresAlwaysKept == PubSubSpec => []FailuresKept
<1>1. PubSubInv => FailuresKept
  BY DEF PubSubInv
<1> QED
  BY <1>1, PubSubCorrect, PTL

\* publish(item, true): when it returns, every subscriber of then that is still
\* registered was served, and it throws exactly when a callback of this item threw.
THEOREM BlockingPublishHonest == PubSubSpec => []BlockingPublish
<1>1. PubSubInv => BlockingPublish
  <2> SUFFICES ASSUME PubSubInv, NEW c \in Clients, call[c].op = "returned",
                      NEW s \in Range(subscribers[call[c].pub]),
                      joined[call[c].pub][s] < call[c].item
               PROVE  call[c].item \in Range(offered[call[c].pub][s])
    BY DEF BlockingPublish, PubSubInv, OutcomeAgrees
  <2> DEFINE p == call[c].pub
             k == call[c].item
  <2>1. /\ p \in Pubs /\ k \in 1 .. published[p] /\ published[p] \in Nat
        /\ run[p].op = "publish" => k < published[p]
    BY DEF PubSubInv, PubSubTypeOK, Calling, Free, OutcomeAgrees
  <2>2. s \in Subs /\ joined[p][s] \in Nat
    BY <2>1, RangeOf DEF PubSubInv, PubSubTypeOK
  <2>3. k \in joined[p][s] + 1 .. published[p]
    BY <2>1, <2>2
  <2>4. \/ k \in Range(offered[p][s])
        \/ run[p].op = "publish" /\ k = published[p]
    BY <2>1, <2>3 DEF PubSubInv, Served
  <2> QED
    BY <2>1, <2>4
<1> QED
  BY <1>1, PubSubCorrect, PTL

\* registerSubscriber(), unregisterSubscriber() and the destructors, for any number
\* of subscribers of one publisher, any clients and calls: both sides of a
\* registration agree, the assert()s hold, and nobody points to what is destroyed.
\* Several publishers change the m_pubs of a subscriber without a lock, so that
\* of them this does not hold.
THEOREM LinksAlwaysAgree ==
  ASSUME OnePublisher
  PROVE  PubSubSpec => []LinksAgree
<1>1. PubSubInv => LinksAgree
  <2> SUFFICES ASSUME PubSubInv PROVE LinksAgree
    OBVIOUS
  <2>1. ASSUME NEW p \in Pubs PROVE LinksExact(p) /\ subscribers[p] \in Seq(Subs)
    BY DEF PubSubInv, PubSubTypeOK
  <2>2. ~assertFailed
    BY DEF PubSubInv
  <2>3. Range(<<>>) = {} /\ \A p \in Pubs : Range(<<p>>) = {p}
    BY NoItem, OneItem
  <2>4. ASSUME NEW p \in Pubs, NEW s \in Subs
        PROVE  /\ s \in Range(subscribers[p]) <=> p \in Range(pubsOf[s])
               /\ Cardinality({i \in DOMAIN subscribers[p] : subscribers[p][i] = s}) <= 1
    <3>1. s \in Range(subscribers[p]) <=> p \in Range(pubsOf[s])
      BY <2>1, <2>3 DEF LinksExact
    <3> DEFINE I == {i \in DOMAIN subscribers[p] : subscribers[p][i] = s}
    <3>6. IsInjective(subscribers[p])
      BY <2>1 DEF LinksExact
    <3>2. \A i, j \in I : i = j
      BY <3>6 DEF IsInjective
    <3> HIDE DEF I
    <3>5. Cardinality(I) <= 1
      <4>1. CASE I = {}
        BY <4>1, FS_EmptySet
      <4>2. CASE I # {}
        <5>1. PICK i : I = {i}
          BY <3>2, <4>2
        <5>2. Cardinality({i}) = 1
          BY FS_Singleton
        <5>3. Cardinality(I) = 1
          BY <5>1, <5>2
        <5> QED
          BY <5>3
      <4> QED
        BY <4>1, <4>2
    <3> QED
      BY <3>1, <3>5 DEF I
  <2>5. ASSUME NEW p \in Pubs \ alive
        PROVE  tasks[p] = <<>> /\ Idle(p) /\ \A s \in Subs : p \notin Range(pubsOf[s])
    <3>1. Held(p) = {} /\ tasks[p] \in Seq(Waiting)
      BY <2>5 DEF PubSubInv, TasksOfCalls, PubSubTypeOK
    <3>2. Idle(p) /\ DOMAIN tasks[p] = {}
      BY <3>1, Zenon DEF Held
    <3>3. Len(tasks[p]) = 0
      <4>1. Len(tasks[p]) \in Nat /\ DOMAIN tasks[p] = 1 .. Len(tasks[p])
        BY <3>1
      <4>2. 1 \notin 1 .. Len(tasks[p])
        BY <3>2, <4>1
      <4> QED
        BY <4>1, <4>2
    <3>4. tasks[p] = <<>>
      BY <3>1, <3>3
    <3>5. subscribers[p] = <<>>
      BY <2>1, <2>5 DEF LinksExact
    <3> QED
      BY <2>1, <2>3, <3>2, <3>4, <3>5 DEF LinksExact
  <2> QED
    BY <2>2, <2>4, <2>5 DEF LinksAgree, NoDanglingPublisher
<1> QED
  BY <1>1, PubSubCorrect, PTL

\* registerSubscriber() and publishInternal(), for any number of subscribers of one
\* publisher, any capacity and replay, whatever is queued between a registration
\* and a publication: replay and live delivery join without a gap or a repetition.
THEOREM DeliveriesExact ==
  ASSUME OnePublisher
  PROVE  PubSubSpec => []DeliveryExact
<1>1. PubSubInv => DeliveryExact
  <2> SUFFICES ASSUME PubSubInv, NEW p \in Pubs, Idle(p), NEW s \in Range(subscribers[p])
               PROVE  offered[p][s] = After(joined[p][s] - Promised(s, joined[p][s]), published[p])
    BY DEF DeliveryExact, DeliveryContiguous, PubSubInv
  <2>1. DeliveryExactSoFar(p) /\ run[p].op = "none"
    BY DEF PubSubInv, Idle
  <2> QED
    BY <2>1, DeliveryOf
<1> QED
  BY <1>1, PubSubCorrect, PTL
=============================================================================
