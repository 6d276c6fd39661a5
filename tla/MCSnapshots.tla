----------------------------- MODULE MCSnapshots ----------------------------
(***************************************************************************)
(* Instances of Snapshots for TLC.                                         *)
(***************************************************************************)
EXTENDS Snapshots, TLC

\* One point is written with its payload, or deleted.
MCBatches == UNION {[{id} -> {Gone} \cup [vec : Vecs, payload : {Fields}]] : id \in Ids}

NameSymmetry == Permutations(Ids) \cup Permutations(SegIds)

\* Not explored: what the collection does after a snapshot was published, which
\* only a crash, or damage to that snapshot, can still change.
UntilPublished ==
  /\ damaged = {}
  /\ \A d \in Dests :
       taken[d] # Nothing =>
         /\ task = Idle \/ task.step = "confirm"
         /\ Acknowledged = taken[d]
=============================================================================
