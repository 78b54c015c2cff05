------------------------------ MODULE Erasure -------------------------------
(***************************************************************************)
(* Removal of every occurrence of an element from a sequence, as           *)
(* std::erase() and the erase(remove_if()) idiom do it.  The sequence left *)
(* is given as the only member of a set, so that proofs can reason about   *)
(* it without recursion.                                                   *)
(***************************************************************************)
EXTENDS Naturals, Sequences, FiniteSets, Functions

\* What the removal of s leaves of a list: the others, in their order.
Others(list, s) ==
  LET kept == {i \in DOMAIN list : list[i] # s}
  IN  {[i \in DOMAIN f |-> list[f[i]]] :
         f \in {f \in [1 .. Cardinality(kept) -> kept] :
                  Range(f) = kept /\ \A i, j \in DOMAIN f : i < j => f[i] < f[j]}}
=============================================================================
