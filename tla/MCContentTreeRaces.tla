------------------------ MODULE MCContentTreeRaces ------------------------
(* ContentTreeRaces on small instances: requests are interchangeable. *)
EXTENDS ContentTreeRaces, TLC

RequestSymmetry == Permutations(Requests)
=============================================================================
