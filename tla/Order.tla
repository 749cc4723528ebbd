------------------------------- MODULE Order -------------------------------
(***************************************************************************)
(* A finite set as a sequence in a given order, without the sorting that   *)
(* is built into TLC: the n-th element is the one with n - 1 before it.    *)
(***************************************************************************)
EXTENDS Integers, FiniteSets

InOrder(S, Before(_, _)) ==
  [n \in 1..Cardinality(S) |->
     CHOOSE x \in S : Cardinality({y \in S : Before(y, x)}) = n - 1]
=============================================================================
