-------------------------- MODULE MCDocumentation --------------------------
(* The instance of Documentation that TLC checks alone. *)
EXTENDS Documentation, TLC

Symmetry == Permutations(Requests) \cup Permutations(Texts)
=============================================================================
