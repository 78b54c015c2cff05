------------------------------- MODULE MCLocal -------------------------------
(***************************************************************************)
(* Each behaviour is about one of the timer (the variables of Timer), the  *)
(* interval B-tree, the runtime's main loop, and the engine of the         *)
(* Bluetooth application.  The others stay in their initial state.         *)
(***************************************************************************)
EXTENDS Timer, Integers, TLC

VARIABLES
  part,
  root, entry, size, nextOrdinal, regs, nextReg, heard, outcome,
  rtLoad, queues, stack, count, flags, main, adder, async, exec, leaver, sig, timer, timed,
  now, ran, broken, rtDone,
  load, inbox, batch, at, eng, tasks, back, world, told, done

treeVars == <<root, entry, size, nextOrdinal, regs, nextReg, heard, outcome>>
runtimeVars == <<rtLoad, queues, stack, count, flags, main, adder, async, exec, leaver, sig,
                 timer, timed, now, ran, broken, rtDone>>
engineVars == <<load, inbox, batch, at, eng, tasks, back, world, told, done>>
-----------------------------------------------------------------------------
(* B-tree: five ranges, one invalid; trees of up to three levels come from *)
(* snapshots, n entries of four ranges in turn with both payloads.  The    *)
(* large one is loaded into an empty tree only, which keeps TLC fast.      *)

Spread(n) == [i \in 1..n |-> <<<< <<3, 3>>, <<0, 0>>, <<1, 2>>, <<0, 3>> >>[1 + (i % 4)], i % 2>>]

Tree == INSTANCE IntervalBTree WITH
  Ranges <- {<<0, 0>>, <<0, 3>>, <<1, 2>>, <<2, 1>>, <<3, 3>>},
  AddRanges <- {<<0, 3>>, <<1, 2>>},
  Snapshots <- {Spread(3), << << <<2, 1>>, 0>> >>},
  Values <- {0, 1}, ByEnd <- FALSE, Ranked <- TRUE, Callbacks <- {-1}, Failing <- {1},
  MaxOrdinal <- 4, MaxRegs <- 1, told <- heard

TreeNext == Tree!Next \/ (root = <<>> /\ Tree!ReconstructFromCanonical(Spread(10)))
-----------------------------------------------------------------------------
(* Runtime: three priorities, jobs that yield, throw or are due later, and *)
(* a main loop that is left by a call or by SIGTERM and entered again.     *)

J(pri, yields, throws, due) == [pri |-> pri, yields |-> yields, throws |-> throws, due |-> due]
High == 1
Medium == 2
Low == 3
RtQuiet == [jobs |-> <<>>, enters |-> 1, exits |-> 0, terms |-> 0, calm |-> TRUE]

RuntimeWorkloads ==
  { [RtQuiet EXCEPT !.jobs = "j1" :> J(Low, 1, FALSE, 0) @@ "j2" :> J(Medium, 1, FALSE, 0) @@ "j3" :> J(High, 0, FALSE, 0)],
    [RtQuiet EXCEPT !.jobs = "j1" :> J(Low, 1, FALSE, 0) @@ "j2" :> J(Low, 0, TRUE, 0) @@ "j3" :> J(High, 0, FALSE, 1)],
    [RtQuiet EXCEPT !.jobs = "j1" :> J(Medium, 0, FALSE, 1) @@ "j2" :> J(High, 0, FALSE, 2)],
    [RtQuiet EXCEPT !.jobs = "j1" :> J(Low, 1, FALSE, 0), !.terms = 1, !.enters = 2],
    [RtQuiet EXCEPT !.jobs = "j1" :> J(Low, 1, FALSE, 0), !.exits = 1, !.enters = 2] }

Rt == INSTANCE Runtime WITH
  Jobs <- {"j1", "j2", "j3"}, MaxTime <- 2, Workloads <- RuntimeWorkloads, load <- rtLoad, done <- rtDone
-----------------------------------------------------------------------------
(* Engine: one device or two, and the commands of a user in any order.     *)

Devices == {"d1", "d2"}
Cmd(job, dev, ok) == [job |-> job, dev |-> dev, ok |-> ok]
Absent == [present |-> FALSE, paired |-> FALSE, connected |-> FALSE]
On == [present |-> TRUE, paired |-> TRUE, connected |-> TRUE]
Off == [On EXCEPT !.connected = FALSE]
Quiet == [world |-> ("d1" :> On @@ "d2" :> Absent), saved |-> <<"d1">>, intents |-> {"d1"}, commands |-> {},
          changes |-> 0, faults |-> 0, refreshes |-> 0]

EngineWorkloads ==
  { [Quiet EXCEPT !.faults = 1, !.refreshes = 1],
    [Quiet EXCEPT !.commands = {Cmd("monitor", "d1", "off"), Cmd("monitor", "d1", "on"), Cmd("shutdown", "none", "")}],
    [Quiet EXCEPT !.commands = {Cmd("disconnect", "d1", ""), Cmd("shutdown", "none", "")}, !.changes = 1],
    [Quiet EXCEPT !.commands = {Cmd("select", "d1", "off"), Cmd("save", "none", ""), Cmd("discard", "none", "")}],
    [Quiet EXCEPT !.commands = {Cmd("scan", "none", "on"), Cmd("scan", "none", "off"), Cmd("shutdown", "none", "")},
                  !.intents = {}, !.faults = 1],
    [Quiet EXCEPT !.world = "d1" :> Off @@ "d2" :> Absent, !.commands = {Cmd("connect", "d1", ""), Cmd("disconnect", "d1", "")},
                  !.intents = {}, !.faults = 1],
    [Quiet EXCEPT !.saved = <<>>, !.intents = {},
                  !.commands = {Cmd("directStart", "d1", ""), Cmd("directStop", "d1", ""), Cmd("shutdown", "none", "")}],
    [Quiet EXCEPT !.world = "d1" :> On @@ "d2" :> On, !.saved = <<"d1", "d2">>,
                  !.commands = {Cmd("disconnect", "d1", "")}] }

Eng == INSTANCE Engine WITH SelectionLimit <- 2, Workloads <- EngineWorkloads
-----------------------------------------------------------------------------
First(S) == CHOOSE x \in S : TRUE

MCInit ==
  /\ part \in {"timer", "tree", "runtime", "engine"}
  /\ Init /\ Tree!Init /\ Rt!Init /\ Eng!Init
  /\ part # "runtime" => rtLoad = First(RuntimeWorkloads)
  /\ part # "engine" => load = First(EngineWorkloads)

MCNext ==
  \/ part = "timer" /\ Next /\ UNCHANGED <<part, treeVars, runtimeVars, engineVars>>
  \/ part = "tree" /\ TreeNext /\ UNCHANGED <<part, vars, runtimeVars, engineVars>>
  \/ part = "runtime" /\ Rt!Next /\ UNCHANGED <<part, vars, treeVars, engineVars>>
  \/ part = "engine" /\ Eng!Next /\ UNCHANGED <<part, vars, treeVars, runtimeVars>>

RuntimeFairness ==
  /\ \A j \in {"j1", "j2", "j3"} :
       WF_runtimeVars(part = "runtime" /\ j \in Rt!Wanted /\ (Rt!AddPush(j) \/ Rt!AddCount(j) \/ Rt!AddTimed(j)))
  /\ WF_runtimeVars(part = "runtime" /\ Rt!Enter) /\ WF_runtimeVars(part = "runtime" /\ Rt!Async)
  /\ WF_runtimeVars(part = "runtime" /\ Rt!SigWait) /\ WF_runtimeVars(part = "runtime" /\ Rt!TimerFires)
  /\ WF_runtimeVars(part = "runtime" /\ Rt!Tick) /\ WF_runtimeVars(part = "runtime" /\ Rt!Leave)

EngineFairness ==
  /\ WF_engineVars(part = "engine" /\ Eng!Control)
  /\ WF_engineVars(part = "engine" /\ \E t \in tasks : Eng!Work(t))

MCSpec == MCInit /\ [][MCNext]_<<part, vars, treeVars, runtimeVars, engineVars>> /\ RuntimeFairness /\ EngineFairness
-----------------------------------------------------------------------------
\* Dmn_IntervalBTree: after any sequence of insertions, removals and loads the
\* tree is a B-tree whose m_subtreeMaxEnd, size and entries agree with its nodes,
\* and pruning by m_subtreeMaxEnd hides no overlapping entry from a query; though
\* only the neighbours of a change are recomputed, every stored topology and rank
\* is what the entries say, point by point.
TreeExact == Tree!BTreeShape /\ Tree!QueriesComplete /\ Tree!StatesCurrent

\* Dmn_IntervalBTree: every entry with a callback whose state a mutation changed
\* is told once, of its old and new state, up to the first callback that throws.
ChangesReported == Tree!ChangesReported

\* Dmn_Runtime_Manager: m_jobs_count stands for the jobs that wait, are suspended
\* or have just ended; a suspended job lies under jobs of higher priority only.
SchedulerExact == Rt!SchedulerExact

\* Dmn_Runtime_Manager: a request to leave the main loop, by a call or by
\* SIGTERM, ends it and its signal thread, and returns.
LoopLeft == Rt!LoopLeft

\* Dmn_Engine: whenever its control thread sleeps, the frontend and the stored
\* settings have been told what it knows; an idle session has no live monitor
\* behind it; a manual disconnection waits for the monitor's end.
EngineHonest == Eng!FrontendCurrent /\ Eng!IdleIsSilent /\ Eng!StopsBeforeDisconnect

\* In the end every job added while the runtime's loop runs has run, and an
\* engine told to shut down has closed.
Settles == <>[](Rt!Served /\ Eng!Closed)
=============================================================================
