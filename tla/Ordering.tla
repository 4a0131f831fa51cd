------------------------------- MODULE Ordering -------------------------------
(***************************************************************************)
(* Sorting, for the operators that sort: the members of a set by how many  *)
(* others come before them.                                                *)
(***************************************************************************)
EXTENDS Integers, FiniteSets

\* The members of S, where before[x] is the set of those that come before x.
InOrder(S, before) ==
  [n \in 1 .. Cardinality(S) |->
     CHOOSE x \in S : Cardinality(before[x]) = n - 1]
=============================================================================
