----------------------------- MODULE MCHandlers -----------------------------
(***************************************************************************)
(* Two instances of DMesg, and each behaviour is one of them: two handlers *)
(* that write into each other's conflicts (the constants of the            *)
(* configuration), and handlers that open and close, one by one, while     *)
(* another writes on two topics.                                           *)
(***************************************************************************)
EXTENDS MCDMesg

VARIABLE part

Three == {"writer", "reader", "processor"}
EveryTopic == [h \in Three |-> {"a", "b"}]

Open == INSTANCE DMesg WITH
  Handlers <- Three, Topics <- {"a", "b"}, SysTopics <- {}, IncludeSys <- {}, TopicsOf <- EveryTopic,
  FilterOf <- EveryTopic, AsyncProcess <- {"processor"}, InitiallyOpen <- {"writer"}, Writers <- {"writer"},
  Calls <- {"open", "close", "write"}, Kinds <- {"plain"}, Modes <- {"async"},
  CounterValues <- {}, MaxCalls <- 4

MCInit == (part = "conflicts" /\ Init) \/ (part = "open" /\ Open!Init)

MCNext ==
  /\ UNCHANGED part
  /\ (part = "conflicts" /\ Next) \/ (part = "open" /\ Open!Next)

MCSpec == MCInit /\ [][MCNext]_<<part, vars>>
-----------------------------------------------------------------------------
\* Each handler's mirror of its conflicts, generation and counters is, once it
\* has run the snapshots queued for it, what the publisher holds for it.
MirrorsAgree ==
  IF part = "open" THEN Open!DMesgTypeOK /\ Open!ConflictMirror /\ Open!CounterMirror
                   ELSE DMesgTypeOK /\ ConflictMirror

\* No call waits for ever: while one is under way somebody can take a step.
CallsEnd == IF part = "open" THEN Open!NoStuckCall ELSE NoStuckCall

\* The observer is told of "actual per-topic conflict entry/resolution
\* transitions" only, each with the next generation.
TransitionsReal == [][IF part = "open" THEN Open!TransitionStep ELSE TransitionStep]_<<part, vars>>

\* Messages of a topic are handed to a handler once and in order; with nothing
\* under way nobody misses the latest; an opened handler has it on return.
Delivered ==
  part = "open" => Open!DeliveredInOrder /\ Open!UpToDate /\ Open!NewHandlerCurrent
=============================================================================
