--------------------------- MODULE MCContentTree ---------------------------
(* ContentTree and its readers on small instances: names, and projects, are  *)
(* interchangeable.                                                          *)
EXTENDS TreeReading, TLC

NameSymmetry == Permutations(Names)
ProjectSymmetry == Permutations(Projects)
=============================================================================
