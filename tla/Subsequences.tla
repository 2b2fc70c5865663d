----------------------------- MODULE Subsequences -----------------------------
(***************************************************************************)
(* What Array.filter and the loops that leave out elements return: by the  *)
(* indices of those that stay, and without a recursive definition.         *)
(***************************************************************************)
EXTENDS Integers, Sequences, FiniteSets

\* The elements of s at the indices in I, in order.
Pick(s, I) ==
  [n \in 1..Cardinality(I) |->
     s[CHOOSE i \in I : Cardinality({j \in I : j < i}) = n - 1]]
=============================================================================
