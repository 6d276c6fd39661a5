----------------------------- MODULE DurableMap -----------------------------
(***************************************************************************)
(* What a collection promises its clients: a durable map from point ids to *)
(* values, changed by one atomic write at a time, that answers reads with  *)
(* everything it has acknowledged and that a crash changes by all of the   *)
(* write it interrupts or by nothing.                                      *)
(*                                                                         *)
(* `contents` is what a restart would recover.  `served` is what a read    *)
(* returns, or Down while the collection is not open.  A write gives the   *)
(* ids it names their new values: it first reaches the contents and is     *)
(* then served; a read cannot fall between the two, and the next write     *)
(* waits for it.                                                           *)
(***************************************************************************)
EXTENDS Segments

CONSTANTS Batches,  \* the sets of ids one write may name
          Down

VARIABLES
  contents,
  served,
  pending    \* the write that is not yet acknowledged, Nothing if there is none

vars == <<contents, served, pending>>

Nothing == [id \in {} |-> Gone]

Init ==
  /\ contents = [id \in Ids |-> Gone]
  /\ served = contents
  /\ pending = Nothing

-----------------------------------------------------------------------------
(***************************************************************************)
(* What a client may ask for: points to upsert, points to delete, or       *)
(* fields to set, merge or delete on the points that exist among those it  *)
(* names, if any does.                                                     *)
(***************************************************************************)
Upserts == UNION {[S -> Value] : S \in Batches}

Deletes == {[id \in S |-> Gone] : S \in Batches}

Existing == {S \cap {id \in Ids : contents[id] # Gone} : S \in Batches} \ {{}}

PayloadWrites ==
  UNION {{[id \in S |-> ReplacePayload(contents[id], fields)],
          [id \in S |-> MergePayload(contents[id], fields)],
          [id \in S |-> DeletePayloadKeys(contents[id], fields)]} :
           S \in Existing, fields \in SUBSET Fields}

Writes == Upserts \cup Deletes \cup PayloadWrites

Overwritten(map, write) ==
  [id \in Ids |-> IF id \in DOMAIN write THEN write[id] ELSE map[id]]

-----------------------------------------------------------------------------
\* A write (a batch is one write) becomes durable.
Commit ==
  /\ pending = Nothing /\ pending' # Nothing
  /\ served # Down
  /\ pending' \in Writes
  /\ contents' = Overwritten(contents, pending')
  /\ UNCHANGED served

\* The write is acknowledged, and reads return it.
Acknowledge ==
  /\ pending # Nothing /\ served # Down
  /\ served' = Overwritten(served, pending)
  /\ pending' = Nothing
  /\ UNCHANGED contents

\* A crash during a write that has become durable as a whole.
Interrupted ==
  /\ pending = Nothing /\ served # Down
  /\ served' = Down
  /\ \E write \in Writes : contents' = Overwritten(contents, write)
  /\ UNCHANGED pending

\* close(), or a crash: of a pending write nothing is lost.
Stop ==
  /\ pending' = Nothing /\ served' = Down
  /\ UNCHANGED contents

Restart ==
  /\ served = Down
  /\ served' = contents
  /\ UNCHANGED <<contents, pending>>

Next == Commit \/ Acknowledge \/ Stop \/ Interrupted \/ Restart

Spec == Init /\ [][Next]_vars
=============================================================================
