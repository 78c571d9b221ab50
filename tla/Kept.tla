--------------------------------- MODULE Kept ---------------------------------
(***************************************************************************)
(* What a filter leaves of a sequence, by the places of its elements: the  *)
(* SelectSeq of the standard module in a form that can be proved about.    *)
(***************************************************************************)
EXTENDS Naturals, FiniteSets, Sequences

\* the elements of s that are in Q, in their order
Keeping(s, Q) ==
  LET K == {i \in DOMAIN s : s[i] \in Q}
  IN  [k \in 1..Cardinality(K) |-> s[CHOOSE i \in K : Cardinality({j \in K : j <= i}) = k]]
===============================================================================
