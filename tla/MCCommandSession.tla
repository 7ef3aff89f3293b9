--------------------------- MODULE MCCommandSession ---------------------------
(* Instances of CommandSession for TLC; the values are in the .cfg files.    *)
EXTENDS CommandSession, TLC

Symmetry == Permutations(Pids) \cup Permutations(Commands) \cup Permutations(Terminators)
=============================================================================
