------------------------------ MODULE MCDMesg ------------------------------
(***************************************************************************)
(* Instances of DMesg for TLC.                                             *)
(***************************************************************************)
EXTENDS DMesg, TLC

\* Every handler takes every topic.
AllTopics == [h \in Handlers |-> Topics]

\* Threads are interchangeable, and so are the handlers of the configuration;
\* used for safety properties only.
FullSymmetry == Permutations(Threads) \cup Permutations(Handlers)
=============================================================================
