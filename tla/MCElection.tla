----------------------------- MODULE MCElection -----------------------------
(***************************************************************************)
(* Instances of Election for TLC.                                          *)
(***************************************************************************)
EXTENDS Election, TLC

CONSTANTS n1, n2

\* Which node is the eldest is a matter of names only.
PairStamps == (n1 :> 1) @@ (n2 :> 2)
=============================================================================
