------------------------------ MODULE Election ------------------------------
(***************************************************************************)
(* The membership and master election of Dmn_DMesgNet                      *)
(* (src/dmn-dmesgnet.cpp): heartbeats with the sender's system record, a   *)
(* timer that counts ticks without a master, and the reconciliation of the *)
(* records received.                                                       *)
(*                                                                         *)
(* Reconciliation and timer callbacks are tasks of the node's own serial   *)
(* executor, so each is one action.  A record goes through the node's      *)
(* handlers and executor to the output in order; that path is part of the  *)
(* link, a FIFO that may lose messages until the network is calm.  Timers  *)
(* of all nodes have the same period: no node ticks twice while another    *)
(* does not tick at all.  The wall clocks that give the initialization     *)
(* timestamps are unrelated, so the timestamps are arbitrary but distinct. *)
(* What the callback does with application messages (the resend to new     *)
(* neighbours) does not touch this state and is not part of this module.   *)
(***************************************************************************)
EXTENDS Naturals, Sequences, FiniteSets

CONSTANTS
  Nodes,
  NoMaster,      \* the empty master identifier
  Stamps,        \* initialization timestamps
  FirstStamp,    \* the timestamp of each node's first incarnation
  PendingMax,    \* DMN_DMESGNET_MASTERPENDING_MAX_COUNTER
  SyncMax,       \* DMN_DMESGNET_MASTERSYNC_MAX_COUNTER
  Lossy,         \* whether messages may be lost before the network is calm
  LinkCapacity,  \* bound on the messages in flight for a further tick to happen
  MaxDepartures  \* bound on the nodes that leave or crash

ASSUME ElectionAssumption ==
  /\ NoMaster \notin Nodes
  /\ Stamps \subseteq Nat \ {0}
  /\ FirstStamp \in [Nodes -> Stamps]
  /\ \A m, n \in Nodes : FirstStamp[m] = FirstStamp[n] => m = n
  /\ {PendingMax, SyncMax, LinkCapacity} \subseteq Nat \ {0}
  /\ Lossy \in BOOLEAN
  /\ MaxDepartures \in Nat

VARIABLES
  self,        \* m_sys.body.sys.self, the two counters and m_ready of each node
  nodelist,    \* the identifiers in m_sys.body.sys.nodelist
  link,        \* the records in flight between two nodes
  ticked,      \* the nodes whose timer has fired in this period
  calm,        \* whether messages are now delivered before the next period
  departures,
  asserted     \* whether an assert() has failed

vars == <<self, nodelist, link, ticked, calm, departures, asserted>>

States == {"MasterPending", "Ready", "Destroyed"}
Up == {n \in Nodes : self[n].state # "Destroyed"}

ElectionTypeOK ==
  /\ self \in [Nodes -> [state : States, master : Nodes \cup {NoMaster},
                         pending : 0 .. PendingMax, sync : 0 .. SyncMax,
                         ready : BOOLEAN, stamp : Stamps \cup {0}]]
  /\ nodelist \in [Nodes -> SUBSET Nodes]
  /\ \A m, n \in Nodes : Len(link[m][n]) \in Nat

Record(n, me) ==
  [from |-> n, state |-> me.state, master |-> me.master, stamp |-> me.stamp]

\* The node's earlier heartbeats have left; a bound.
Room(n) == \A m \in Nodes : Len(link[n][m]) < LinkCapacity

\* m_sys_handler->write(m_sys), through to the output of n.
Broadcast(links, n, me) ==
  [links EXCEPT ![n] = [m \in Nodes |->
     IF m = n THEN @[m] ELSE Append(@[m], Record(n, me))]]

-----------------------------------------------------------------------------
(* The timer callback.                                                     *)

Pending(me) == [me EXCEPT !.state = "MasterPending", !.master = NoMaster,
                          !.ready = FALSE]

\* Nobody else has claimed to be master for long enough.
Elected(me, n) == [me EXCEPT !.pending = 0, !.state = "Ready", !.master = n,
                             !.ready = TRUE]

AfterTick(n) ==
  LET me == self[n]
  IN  CASE me.state = "MasterPending" /\ me.pending + 1 >= PendingMax ->
             Elected(me, n)
        [] me.state = "MasterPending" /\ me.pending + 1 < PendingMax ->
             [me EXCEPT !.pending = @ + 1]
        [] me.state = "Ready" /\ me.master # n /\ me.sync + 1 >= SyncMax ->
             [Pending(me) EXCEPT !.sync = 0]
        [] me.state = "Ready" /\ me.master # n /\ me.sync + 1 < SyncMax ->
             [me EXCEPT !.sync = @ + 1]
        [] OTHER -> me

Quiet == \A m, n \in Nodes : link[m][n] = <<>>

\* Once the network is calm a period starts with all messages delivered.
Tick(n) ==
  /\ n \in Up \ ticked
  /\ Room(n)
  /\ calm => (ticked # {} \/ Quiet)
  /\ self' = [self EXCEPT ![n] = AfterTick(n)]
  /\ link' = Broadcast(link, n, AfterTick(n))
  /\ ticked' = IF Up \subseteq ticked \cup {n} THEN {} ELSE ticked \cup {n}
  /\ UNCHANGED <<nodelist, calm, departures, asserted>>

-----------------------------------------------------------------------------
(* reconciliateDMesgPbSys().                                               *)

\* Mutant: a pending node does not start its count anew.
AdoptKeepsCount(me, other) ==
  [me EXCEPT !.state = "Ready", !.master = other.master, !.sync = 0,
             !.ready = TRUE]

\* A pending node adopts the master of a ready one.
Adopt(me, other) ==
  [me EXCEPT !.state = "Ready", !.master = other.master, !.pending = 0,
             !.sync = 0, !.ready = TRUE]

\* The master is no longer ready.
Relinquish(me) == [Pending(me) EXCEPT !.pending = 0, !.sync = 0]

\* Mutant: any conflicting claim wins.
SeniorOrNot(other, me) == other.stamp # me.stamp

\* An earlier initialization timestamp.
Senior(other, me) == other.stamp < me.stamp

\* Two nodes follow different masters: the younger one changes over.
Switch(me, other) ==
  [me EXCEPT !.master = other.master, !.pending = 0, !.sync = 0]

\* What the record of another node makes of a node's own, and whether the node
\* then sends its own at once.
Reconciled(me, other) ==
  CASE me.state = "MasterPending" /\ other.state = "Ready" ->
         <<Adopt(me, other), TRUE>>
    [] me.state = "Ready" /\ other.from = me.master /\ other.state = "Ready" ->
         <<[me EXCEPT !.sync = 0], FALSE>>
    [] me.state = "Ready" /\ other.from = me.master /\ other.state # "Ready" ->
         <<Relinquish(me), TRUE>>
    [] /\ me.state = "Ready" /\ other.from # me.master /\ other.state = "Ready"
       /\ other.master # me.master /\ Senior(other, me) ->
         <<Switch(me, other), TRUE>>
    [] OTHER -> <<me, FALSE>>

\* The assert()s of the function, and of sendPendingOutboundQueueMessage().
AssertsOf(me, other) ==
  /\ (me.state = "MasterPending" /\ other.state = "Ready")
        => me.master = NoMaster /\ other.master # NoMaster
  /\ (/\ me.state = "Ready" /\ other.from # me.master /\ other.state = "Ready"
      /\ other.master # me.master) => other.master # NoMaster
  /\ me.state = "Ready" => me.master # NoMaster /\ me.pending = 0
  /\ (me.state = "Ready" /\ other.from = me.master /\ other.state # "Ready")
        => other.master = NoMaster

\* The input thread hands a record to the executor, which reconciles it and
\* updates the list of nodes.
Deliver(m, n) ==
  /\ link[m][n] # <<>>
  /\ LET other == Head(link[m][n])
         rest == [link EXCEPT ![m][n] = Tail(@)]
     IN  IF n \notin Up
         THEN /\ link' = rest
              /\ UNCHANGED <<self, nodelist, asserted>>
         ELSE LET result == Reconciled(self[n], other)
              IN  /\ self' = [self EXCEPT ![n] = result[1]]
                  /\ link' = IF result[2] THEN Broadcast(rest, n, result[1])
                             ELSE rest
                  /\ asserted' = (asserted \/ ~AssertsOf(self[n], other))
                  /\ nodelist' = [nodelist EXCEPT ![n] =
                       IF other.state = "Destroyed" THEN @ \ {m} ELSE @ \cup {m}]
  /\ UNCHANGED <<ticked, calm, departures>>

-----------------------------------------------------------------------------
(* Arrivals, departures and the network.                                   *)

Fresh(stamp) == [state |-> "MasterPending", master |-> NoMaster, pending |-> 0,
                 sync |-> 0, ready |-> FALSE, stamp |-> stamp]

\* What gettimeofday() may say when the node starts.
StampsFor(n) ==
  IF self[n].stamp = 0 THEN {FirstStamp[n]}
  ELSE {s \in Stamps : s > self[n].stamp /\ \A m \in Nodes : self[m].stamp # s}

\* The constructor; a node that restarts keeps its identifier only.
Start(n) ==
  /\ ~calm
  /\ n \notin Up /\ Room(n)
  /\ \E stamp \in StampsFor(n) :
       /\ self' = [self EXCEPT ![n] = Fresh(stamp)]
       /\ link' = Broadcast(link, n, Fresh(stamp))
  /\ nodelist' = [nodelist EXCEPT ![n] = {}]
  /\ UNCHANGED <<ticked, calm, departures, asserted>>

Gone(n) == [self[n] EXCEPT !.state = "Destroyed", !.master = NoMaster,
                           !.pending = 0, !.sync = 0, !.ready = FALSE]

Depart(n) ==
  /\ ~calm
  /\ departures < MaxDepartures
  /\ n \in Up
  /\ departures' = departures + 1
  /\ self' = [self EXCEPT ![n] = Gone(n)]
  /\ ticked' = IF Up \ {n} \subseteq ticked THEN {} ELSE ticked \ {n}
  /\ UNCHANGED <<nodelist, calm, asserted>>

\* The destructor, with its last record.
Destroy(n) ==
  /\ Room(n)
  /\ link' = Broadcast(link, n, Gone(n))
  /\ Depart(n)

Crash(n) == Depart(n) /\ UNCHANGED link

Lose(m, n) ==
  /\ Lossy /\ ~calm
  /\ link[m][n] # <<>>
  /\ link' = [link EXCEPT ![m][n] = Tail(@)]
  /\ UNCHANGED <<self, nodelist, ticked, calm, departures, asserted>>

\* From here on messages arrive, nobody leaves and at least one node is there.
CalmDown ==
  /\ ~calm /\ Up # {}
  /\ calm' = TRUE
  /\ UNCHANGED <<self, nodelist, link, ticked, departures, asserted>>

-----------------------------------------------------------------------------

\* No node has been started yet.
Init ==
  /\ self = [n \in Nodes |-> [Fresh(0) EXCEPT !.state = "Destroyed"]]
  /\ nodelist = [n \in Nodes |-> {}]
  /\ link = [m \in Nodes |-> [n \in Nodes |-> <<>>]]
  /\ ticked = {}
  /\ calm = FALSE
  /\ departures = 0
  /\ asserted = FALSE

Next ==
  \/ CalmDown
  \/ \E n \in Nodes : Tick(n) \/ Start(n) \/ Destroy(n) \/ Crash(n)
  \/ \E m, n \in Nodes : Deliver(m, n) \/ Lose(m, n)

Spec == Init /\ [][Next]_vars

\* Timers fire and messages arrive.
Fairness ==
  /\ \A n \in Nodes : WF_vars(Tick(n))
  /\ \A m, n \in Nodes : WF_vars(Deliver(m, n))

FairSpec == Spec /\ Fairness

-----------------------------------------------------------------------------
(* Properties.                                                             *)

\* The assert()s of reconciliateDMesgPbSys() hold for every record that another
\* node, of any incarnation, ever sent.
AssertsHold == ~asserted

\* m_ready, which decides whether application messages go out, is set exactly
\* while the node is Ready and has a master.
ReadyFlagAgrees ==
  \A n \in Nodes : /\ self[n].ready <=> self[n].state = "Ready"
                   /\ self[n].ready <=> self[n].master # NoMaster

Agreed ==
  \E m \in Up : \A n \in Up : self[n].state = "Ready" /\ self[n].master = m

\* Once messages arrive and nobody comes or goes, the nodes agree for good on
\* one of them as the master.
Converges == calm ~> []Agreed

\* The same of nodes none of which ever left: whatever was lost while they
\* started, heartbeats and the two thresholds bring them to one master.
ConvergesFromStart == (calm /\ departures = 0) ~> []Agreed
=============================================================================
