---------------------------- MODULE MCCommandOutput ----------------------------
(* Instances of CommandOutput for TLC; the values are in the .cfg files.      *)
EXTENDS CommandOutput, TLC

Symmetry == Permutations(Callers)
\* Seq(Nat) cannot be enumerated, membership can be tested: TypeOK needs no more.
=============================================================================
