------------------------------ MODULE Sorting -------------------------------
(***************************************************************************)
(* Sorting as the database and the runtime do it: ORDER BY, and the sort   *)
(* of an array (qa.service.ts, projects.service.ts).                       *)
(***************************************************************************)
EXTENDS Integers, FiniteSets

\* The elements of a finite set in the order of a relation that is a total order
\* on it: each has before it as many as its place says.
SortedBy(S, R) ==
  [n \in 1..Cardinality(S) |->
    CHOOSE x \in S : Cardinality({y \in S : <<y, x>> \in R}) = n - 1]

\* The numbers of a set in their order.
Ascending(S) == {p \in S \X S : p[1] < p[2]}
=============================================================================
