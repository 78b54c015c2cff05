--------------------------- MODULE SerialExecutor ---------------------------
(***************************************************************************)
(* What Dmn_Async promises to the components built on it: tasks run one at *)
(* a time; immediate tasks in the order of submission; a delayed task not  *)
(* before its deadline, only when no immediate task waits, in the order of *)
(* deadlines and, among equal ones, of submission.                         *)
(***************************************************************************)
EXTENDS Naturals, Sequences

CONSTANT Immediate  \* in place of a deadline

VARIABLES
  clock,     \* the steady clock
  deadline,  \* the deadline, or Immediate, of each submitted task
  ready,     \* the immediate tasks that wait, in order
  delayed,   \* the delayed tasks that wait
  current,   \* the task that runs, if any
  finished   \* the tasks that have run, in order

evars == <<clock, deadline, ready, delayed, current, finished>>

Idle == current = <<>>

Init ==
  /\ clock = 0
  /\ deadline = <<>> /\ ready = <<>> /\ delayed = {}
  /\ current = <<>> /\ finished = <<>>

Tick ==
  /\ clock' = clock + 1
  /\ UNCHANGED <<deadline, ready, delayed, current, finished>>

Submit ==
  /\ deadline' = Append(deadline, Immediate)
  /\ ready' = Append(ready, Len(deadline) + 1)
  /\ UNCHANGED <<clock, delayed, current, finished>>

SubmitAt ==
  /\ Len(deadline') = Len(deadline) + 1
  /\ SubSeq(deadline', 1, Len(deadline)) = deadline
  /\ deadline'[Len(deadline) + 1] \in Nat
  /\ delayed' = delayed \cup {Len(deadline) + 1}
  /\ UNCHANGED <<clock, ready, current, finished>>

StartReady ==
  /\ Idle /\ ready # <<>>
  /\ current' = <<Head(ready)>>
  /\ ready' = Tail(ready)
  /\ UNCHANGED <<clock, deadline, delayed, finished>>

\* t comes before u among the delayed tasks.
Precedes(t, u) ==
  deadline[t] < deadline[u] \/ (deadline[t] = deadline[u] /\ t <= u)

StartDelayed ==
  /\ Idle /\ ready = <<>>
  /\ \E t \in delayed :
       /\ deadline[t] <= clock
       /\ \A u \in delayed : Precedes(t, u)
       /\ current' = <<t>>
       /\ delayed' = delayed \ {t}
  /\ UNCHANGED <<clock, deadline, ready, finished>>

Finish ==
  /\ ~Idle
  /\ finished' = finished \o current
  /\ current' = <<>>
  /\ UNCHANGED <<clock, deadline, ready, delayed>>

Next == Tick \/ Submit \/ SubmitAt \/ StartReady \/ StartDelayed \/ Finish

Spec == Init /\ [][Next]_evars
=============================================================================
