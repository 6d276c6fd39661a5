---------------------------- MODULE MCCollection ----------------------------
(* Instances of Collection for TLC. *)
EXTENDS Collection, FiniteSets, TLC

SegIdSymmetry == Permutations(SegIds)

IdSymmetry == Permutations(Ids)

BothSymmetry == Permutations(SegIds) \cup Permutations(Ids)

CONSTANT MaxBatch

MCBatches == {S \in SUBSET Ids : Cardinality(S) \in 1 .. MaxBatch}
=============================================================================
