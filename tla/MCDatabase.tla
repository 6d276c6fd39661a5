---------------------------- MODULE MCDatabase -----------------------------
(* Instances of Database for TLC. *)
EXTENDS Database, TLC

NameSymmetry == Permutations(Names)
=============================================================================
