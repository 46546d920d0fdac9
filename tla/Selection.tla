------------------------------ MODULE Selection ------------------------------
(***************************************************************************)
(* What a filter keeps of a list: the items at some places, in their order. *)
(* [x for x in s if test(x)] is Chosen(s, {i \in 1..Len(s) : test(s[i])}).  *)
(* What a sort by a key makes of a set of places.                           *)
(***************************************************************************)
EXTENDS Naturals, Sequences, FiniteSets

\* The n-th of the places I.
Nth(I, n) == CHOOSE i \in I : Cardinality({j \in I : j <= i}) = n

Chosen(s, I) == [n \in 1..Cardinality(I) |-> s[Nth(I, n)]]

\* The members of S, each behind those that before[i] has.
InOrder(S, before) == [k \in 1..Cardinality(S) |-> CHOOSE i \in S : Cardinality(before[i]) = k - 1]
===============================================================================
