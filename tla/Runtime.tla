------------------------------ MODULE Runtime -------------------------------
(***************************************************************************)
(* Dmn_Runtime_Manager: jobs of three priorities are added by any thread   *)
(* and run as coroutines by one asynchronous thread, whose tasks run one   *)
(* after the other; timed jobs wait in a heap for a timer whose signal the *)
(* signal thread hands to the same thread.  Each job has its own adder.    *)
(***************************************************************************)
EXTENDS Integers, Sequences, FiniteSets, FiniteSetsExt, SequencesExt

CONSTANTS
  Jobs,
  MaxTime,      \* bound of the clock
  Workloads     \* [jobs: job -> [pri, yields, throws, due], enters, exits, terms, calm]

Off == -1       \* no timer
Now == 0        \* due at once: added by addJob()
High == 1
Medium == 2
Low == 3

VARIABLES
  load,
  queues,    \* m_highQueue, m_mediumQueue, m_lowQueue
  stack,     \* m_sched_job: [job, left], the running or resumed one last
  count,     \* m_jobs_count
  flags,     \* m_main_enter_flag, m_main_exit_flag
  main,      \* enterMainLoop(): [at, start]
  adder,     \* addJob() of each job: new, pushed, done
  async,     \* tasks of the asynchronous thread: [kind, job]
  exec,      \* where that thread is: idle, run, count, check, exit
  leaver,    \* exitMainLoop(), of a thread and of the SIGTERM hook
  sig,       \* [thread, pending]
  timer, timed, now,
  ran,       \* jobs that have ended
  broken,    \* an assertion of the executor has failed
  done       \* how often each bounded thing has happened

vars == <<load, queues, stack, count, flags, main, adder, async, exec, leaver, sig, timer, timed, now, ran, broken, done>>

Leavers == {"user", "hook"}
Wanted == DOMAIN load.jobs
Within(what) == done[what] < load[what]
Count(what) == done' = [done EXCEPT ![what] = @ + 1]
Task(kind, job) == [kind |-> kind, job |-> job]
ExecTask == Task("exec", "none")
Executor(old) == IF old = 0 /\ flags.enter THEN <<ExecTask>> ELSE <<>>

-----------------------------------------------------------------------------
(* addJob() and addTimedJob() *)

AddPush(j) ==
  /\ adder[j] = "new" /\ load.jobs[j].due = Now
  /\ load.calm => main.at \in {"out", "wait"}
  /\ queues' = [queues EXCEPT ![load.jobs[j].pri] = Append(@, j)]
  /\ adder' = [adder EXCEPT ![j] = "pushed"]
  /\ UNCHANGED <<load, stack, count, flags, main, async, exec, leaver, sig, timer, timed, now, ran, broken, done>>

\* fetch_add(): the first job starts the executor
AddCount(j) ==
  /\ adder[j] = "pushed"
  /\ count' = count + 1
  /\ async' = async \o Executor(count)
  /\ adder' = [adder EXCEPT ![j] = "done"]
  /\ UNCHANGED <<load, queues, stack, flags, main, exec, leaver, sig, timer, timed, now, ran, broken, done>>

AddTimed(j) ==
  /\ adder[j] = "new" /\ load.jobs[j].due # Now
  /\ async' = Append(async, Task("timed", j))
  /\ adder' = [adder EXCEPT ![j] = "done"]
  /\ UNCHANGED <<load, queues, stack, count, flags, main, exec, leaver, sig, timer, timed, now, ran, broken, done>>

-----------------------------------------------------------------------------
(* enterMainLoop() *)

\* the loop is entered again only after the calls that ended it have returned
EnterLoad ==
  /\ main.at = "out" /\ Within("enters") /\ Count("enters")
  /\ \A c \in Leavers : leaver[c] = "idle"
  /\ load.calm => \A j \in Wanted : adder[j] # "pushed"
  /\ main' = [at |-> "flag", start |-> count > 0]
  /\ UNCHANGED <<load, queues, stack, count, flags, adder, async, exec, leaver, sig, timer, timed, now, ran, broken>>

EnterFlag ==
  /\ main.at = "flag"
  /\ flags' = [enter |-> TRUE, exit |-> FALSE]
  /\ main' = [main EXCEPT !.at = "signal"]
  /\ UNCHANGED <<load, queues, stack, count, adder, async, exec, leaver, sig, timer, timed, now, ran, broken, done>>

EnterSignal ==
  /\ main.at = "signal"
  /\ sig' = [sig EXCEPT !.thread = "wait"]
  /\ async' = IF main.start THEN Append(async, ExecTask) ELSE async
  /\ main' = [main EXCEPT !.at = "wait"]
  /\ UNCHANGED <<load, queues, stack, count, flags, adder, exec, leaver, timer, timed, now, ran, broken, done>>

EnterEnd ==
  /\ main.at = "wait" /\ flags.exit
  /\ main' = [main EXCEPT !.at = "out"]
  /\ UNCHANGED <<load, queues, stack, count, flags, adder, async, exec, leaver, sig, timer, timed, now, ran, broken, done>>

-----------------------------------------------------------------------------
(* exitMainLoop(), called while the loop runs *)

ExitBegin(c) ==
  /\ leaver' = [leaver EXCEPT ![c] = IF flags.exit THEN "disarm" ELSE "arm"]
  /\ flags' = IF flags.exit THEN flags ELSE [enter |-> FALSE, exit |-> TRUE]

ExitUser ==
  /\ leaver["user"] = "idle" /\ main.at = "wait" /\ Within("exits") /\ Count("exits")
  /\ ExitBegin("user")
  /\ UNCHANGED <<load, queues, stack, count, main, adder, async, exec, sig, timer, timed, now, ran, broken>>

\* Mutant: the timer is left to the next timed job.
ExitUnarmed(c) ==
  /\ leaver[c] = "arm"
  /\ leaver' = [leaver EXCEPT ![c] = "join"] /\ UNCHANGED timer
  /\ UNCHANGED <<load, queues, stack, count, flags, main, adder, async, exec, sig, timed, now, ran, broken, done>>

\* the timer is set to fire soon, for the signal thread to see the flag
ExitArm(c) ==
  /\ leaver[c] = "arm"
  /\ timer' = now /\ leaver' = [leaver EXCEPT ![c] = "join"]
  /\ UNCHANGED <<load, queues, stack, count, flags, main, adder, async, exec, sig, timed, now, ran, broken, done>>

ExitJoin(c) ==
  /\ leaver[c] = "join" /\ sig.thread = "off"
  /\ leaver' = [leaver EXCEPT ![c] = "disarm"]
  /\ UNCHANGED <<load, queues, stack, count, flags, main, adder, async, exec, sig, timer, timed, now, ran, broken, done>>

ExitDisarm(c) ==
  /\ leaver[c] = "disarm"
  /\ timer' = Off /\ leaver' = [leaver EXCEPT ![c] = "idle"]
  /\ exec' = IF c = "hook" THEN "idle" ELSE exec
  /\ UNCHANGED <<load, queues, stack, count, flags, main, adder, async, sig, timed, now, ran, broken, done>>

-----------------------------------------------------------------------------
(* the asynchronous thread *)

Take(kind) == exec = "idle" /\ async # <<>> /\ Head(async).kind = kind
Rest == async' = Tail(async)

\* a timed job enters the heap, and the timer is set to the first that is due
Due(js) == Min({load.jobs[j].due : j \in js})

TakeTimed ==
  /\ Take("timed") /\ Rest
  /\ timed' = timed \cup {Head(async).job}
  /\ timer' = Due(timed')
  /\ UNCHANGED <<load, queues, stack, count, flags, main, adder, exec, leaver, sig, now, ran, broken, done>>

\* the SIGALRM hook: the jobs that are due are added, and the timer set for the next
TakeAlarm ==
  /\ Take("alrm")
  /\ LET due == {j \in timed : load.jobs[j].due <= now}
         order == SetToSortSeq(due, LAMBDA a, b : load.jobs[a].due < load.jobs[b].due)
         late == timed \ due
     IN /\ timed' = late
        /\ queues' = [p \in DOMAIN queues |-> queues[p] \o SelectSeq(order, LAMBDA j : load.jobs[j].pri = p)]
        /\ count' = count + Cardinality(due)
        /\ async' = Tail(async) \o (IF due # {} THEN Executor(count) ELSE <<>>)
        /\ timer' = IF late # {} THEN Due(late) ELSE timer
  /\ UNCHANGED <<load, stack, flags, main, adder, exec, leaver, sig, now, ran, broken, done>>

\* the SIGTERM hook
TakeTerm ==
  /\ Take("term") /\ Rest
  /\ exec' = "exit" /\ ExitBegin("hook")
  /\ UNCHANGED <<load, queues, stack, count, main, adder, sig, timer, timed, now, ran, broken, done>>

\* only a job above the priority of the one that is suspended is picked
Above == IF stack = <<>> THEN Low + 1 ELSE load.jobs[Last(stack).job].pri
Waiting == {p \in {High, Medium, Low} : p < Above /\ queues[p] # <<>>}

\* Mutant: the new count is compared, not the old one.
MoreAfter(old) == IF old - 1 > 1 THEN <<ExecTask>> ELSE <<>>

More(old) == IF old > 1 THEN <<ExecTask>> ELSE <<>>

\* Mutant: the count of a job that could not be made is kept.
TakeExecKept ==
  /\ Take("exec")
  /\ IF Waiting = {}
       THEN /\ exec' = IF stack = <<>> THEN "idle" ELSE "run"
            /\ Rest /\ UNCHANGED <<queues, stack, count, ran>>
       ELSE LET p == Min(Waiting)
                j == Head(queues[p])
            IN /\ queues' = [queues EXCEPT ![p] = Tail(@)]
               /\ IF load.jobs[j].throws
                    THEN /\ ran' = ran \cup {j}
                         /\ async' = Tail(async) \o More(count) /\ UNCHANGED <<stack, exec, count>>
                    ELSE /\ stack' = Append(stack, [job |-> j, left |-> load.jobs[j].yields])
                         /\ exec' = "run" /\ Rest /\ UNCHANGED <<count, ran>>
  /\ UNCHANGED <<load, flags, main, adder, leaver, sig, timer, timed, now, broken, done>>

\* execRuntimeJobInternal(): the next job is made a coroutine, which may throw
TakeExec ==
  /\ Take("exec")
  /\ IF Waiting = {}
       THEN /\ exec' = IF stack = <<>> THEN "idle" ELSE "run"
            /\ Rest /\ UNCHANGED <<queues, stack, count, ran>>
       ELSE LET p == Min(Waiting)
                j == Head(queues[p])
            IN /\ queues' = [queues EXCEPT ![p] = Tail(@)]
               /\ IF load.jobs[j].throws
                    THEN /\ ran' = ran \cup {j} /\ count' = count - 1
                         /\ async' = Tail(async) \o More(count) /\ UNCHANGED <<stack, exec>>
                    ELSE /\ stack' = Append(stack, [job |-> j, left |-> load.jobs[j].yields])
                         /\ exec' = "run" /\ Rest /\ UNCHANGED <<count, ran>>
  /\ UNCHANGED <<load, flags, main, adder, leaver, sig, timer, timed, now, broken, done>>

\* runRuntimeCoroutineScheduler(): the top coroutine runs until it ends or yields
Resume ==
  /\ exec = "run"
  /\ IF Last(stack).left = 0
       THEN /\ stack' = Front(stack) /\ ran' = ran \cup {Last(stack).job}
            /\ exec' = "count" /\ UNCHANGED async
       ELSE /\ stack' = [stack EXCEPT ![Len(stack)].left = @ - 1]
            /\ async' = Append(async, ExecTask) /\ exec' = "idle" /\ UNCHANGED ran
  /\ UNCHANGED <<load, queues, count, flags, main, adder, leaver, sig, timer, timed, now, broken, done>>

ExecCount ==
  /\ exec = "count"
  /\ count' = count - 1
  /\ async' = async \o More(count)
  /\ exec' = IF count > 1 THEN "idle" ELSE "check"
  /\ UNCHANGED <<load, queues, stack, flags, main, adder, leaver, sig, timer, timed, now, ran, broken, done>>

\* the assertions of the last job
ExecCheck ==
  /\ exec = "check" /\ exec' = "idle"
  /\ broken' = (broken \/ stack # <<>> \/ count # 0)
  /\ UNCHANGED <<load, queues, stack, count, flags, main, adder, async, leaver, sig, timer, timed, now, ran, done>>

-----------------------------------------------------------------------------
(* the signal thread, the timer and the clock *)

SigWait ==
  /\ sig.thread = "wait" /\ sig.pending # {}
  /\ \E s \in sig.pending :
       /\ sig' = [thread |-> IF flags.exit THEN "off" ELSE "wait", pending |-> sig.pending \ {s}]
       /\ async' = IF flags.exit THEN async ELSE Append(async, Task(s, "none"))
  /\ UNCHANGED <<load, queues, stack, count, flags, main, adder, exec, leaver, timer, timed, now, ran, broken, done>>

TimerFires ==
  /\ timer # Off /\ timer <= now
  /\ timer' = Off /\ sig' = [sig EXCEPT !.pending = @ \cup {"alrm"}]
  /\ UNCHANGED <<load, queues, stack, count, flags, main, adder, async, exec, leaver, timed, now, ran, broken, done>>

Terminate ==
  /\ Within("terms") /\ Count("terms") /\ main.at = "wait"
  /\ sig' = [sig EXCEPT !.pending = @ \cup {"term"}]
  /\ UNCHANGED <<load, queues, stack, count, flags, main, adder, async, exec, leaver, timer, timed, now, ran, broken>>

Tick ==
  /\ now < MaxTime /\ \E j \in Wanted : load.jobs[j].due > now
  /\ now' = now + 1
  /\ UNCHANGED <<load, queues, stack, count, flags, main, adder, async, exec, leaver, sig, timer, timed, ran, broken, done>>

-----------------------------------------------------------------------------
Init ==
  /\ load \in Workloads
  /\ queues = [p \in {High, Medium, Low} |-> <<>>] /\ stack = <<>> /\ count = 0
  /\ flags = [enter |-> FALSE, exit |-> FALSE] /\ main = [at |-> "out", start |-> FALSE]
  /\ adder = [j \in DOMAIN load.jobs |-> "new"]
  /\ async = <<>> /\ exec = "idle" /\ leaver = [c \in Leavers |-> "idle"]
  /\ sig = [thread |-> "off", pending |-> {}]
  /\ timer = Off /\ timed = {} /\ now = 0
  /\ ran = {} /\ broken = FALSE
  /\ done = [enters |-> 0, exits |-> 0, terms |-> 0]

Add == \E j \in Wanted : AddPush(j) \/ AddCount(j) \/ AddTimed(j)
Enter == EnterLoad \/ EnterFlag \/ EnterSignal \/ EnterEnd
Leave == \E c \in Leavers : ExitArm(c) \/ ExitJoin(c) \/ ExitDisarm(c)
Async == TakeTimed \/ TakeAlarm \/ TakeTerm \/ TakeExec \/ Resume \/ ExecCount \/ ExecCheck
Next == Add \/ Enter \/ ExitUser \/ Leave \/ Async \/ SigWait \/ TimerFires \/ Terminate \/ Tick

Spec == Init /\ [][Next]_vars

\* each thread runs, and time passes
FairSpec ==
  /\ Spec
  /\ \A j \in Jobs : WF_vars(j \in Wanted /\ (AddPush(j) \/ AddCount(j) \/ AddTimed(j)))
  /\ WF_vars(Enter) /\ WF_vars(Async) /\ WF_vars(SigWait) /\ WF_vars(TimerFires) /\ WF_vars(Tick)
  /\ \A c \in Leavers : WF_vars(ExitArm(c) \/ ExitJoin(c) \/ ExitDisarm(c))
-----------------------------------------------------------------------------
\* The executor is never started for nothing nor left without its count: a
\* count stands for each job that waits, is suspended or has just ended, but
\* for those that were pushed and are not counted yet; a job that is suspended
\* lies under jobs of a higher priority only.
SchedulerExact ==
  /\ count + Cardinality({j \in Wanted : adder[j] = "pushed"})
       = FoldLeft(LAMBDA n, p : n + Len(queues[p]), 0, <<High, Medium, Low>>) + Len(stack) + IF exec = "count" THEN 1 ELSE 0
  /\ \A k \in 1..(Len(stack) - 1) : load.jobs[stack[k + 1].job].pri < load.jobs[stack[k].job].pri

\* In the end every job that was added while the loop runs, or before it was
\* entered, has run.
Served == main.at = "wait" /\ load.exits + load.terms = 0 => \A j \in Wanted : adder[j] = "done" => j \in ran
JobsServed == <>[]Served

\* A request to leave the main loop ends it and its signal thread, and returns.
LoopLeft ==
  (\E c \in Leavers : leaver[c] # "idle") ~>
    (main.at = "out" /\ sig.thread = "off" /\ \A c \in Leavers : leaver[c] = "idle")
=============================================================================
