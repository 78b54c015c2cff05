---------------------------- MODULE MCAncsClient ----------------------------
(***************************************************************************)
(* Instances of AncsClient for TLC: what the phone sends, how it answers,  *)
(* and what the application does.                                          *)
(***************************************************************************)
EXTENDS AncsClient

Value(event, uid) == [event |-> event, uid |-> uid]
FragmentOf(uid, first, last, text) == [uid |-> uid, first |-> first, last |-> last, text |-> text, date |-> "recent"]
Whole(uid, date) == <<[FragmentOf(uid, TRUE, TRUE, TRUE) EXCEPT !.date = date]>>
Halves(uid, text) == <<FragmentOf(uid, TRUE, FALSE, text), FragmentOf(uid, FALSE, TRUE, TRUE)>>

Quiet == [script |-> <<>>, answer |-> [u \in Uids |-> Whole(u, "recent")], cutoff |-> FALSE, maximum |-> 0,
          sessions |-> 1, stops |-> 0, faults |-> 0, late |-> FALSE, throws |-> FALSE]

SomeWorkloads ==
  { \* updates, removal and re-use of an identifier, a response in two fragments
    [Quiet EXCEPT !.script = <<Value("added", "u1"), Value("updated", "u1"), Value("removed", "u1"), Value("added", "u1")>>,
                  !.answer = [u \in Uids |-> Halves(u, TRUE)]],
    \* a backlog of one, and text that is not UTF-8
    [Quiet EXCEPT !.script = <<Value("added", "u1"), Value("added", "u2"), Value("added", "u3"), Value("unknown", "u1")>>,
                  !.maximum = 1,
                  !.answer = [u \in Uids |-> IF u = "u1" THEN <<FragmentOf(u, TRUE, TRUE, FALSE)>> ELSE Whole(u, "recent")]],
    \* old notifications are not shown
    [Quiet EXCEPT !.script = <<Value("added", "u1"), Value("added", "u2"), Value("updated", "u2"), Value("removed", "u1")>>,
                  !.cutoff = TRUE,
                  !.answer = [u \in Uids |-> Whole(u, IF u = "u1" THEN "old" ELSE "recent")]],
    \* everything that can fail, and a stop at any time
    [Quiet EXCEPT !.script = <<Value("added", "u1"), Value("malformed", "u1")>>, !.stops = 1, !.faults = 2, !.late = TRUE],
    \* a second session
    [Quiet EXCEPT !.script = <<Value("added", "u1")>>, !.stops = 1, !.sessions = 2],
    \* a handler that throws
    [Quiet EXCEPT !.script = <<Value("added", "u1")>>, !.faults = 1, !.throws = TRUE] }

RestartWorkloads == { [Quiet EXCEPT !.script = <<Value("added", "u1")>>, !.stops = 1, !.sessions = 2, !.faults = 1] }
=============================================================================
