------------------------------ MODULE Segments ------------------------------
(***************************************************************************)
(* Versioned records and the segments that hold them                       *)
(* (segment/mutable.py, segment/immutable.py, optimizer/optimizer.py,      *)
(* collection.py:640-654).                                                 *)
(*                                                                         *)
(* A StoredPoint is a version, the sequence of the WAL record that wrote   *)
(* it, and a value: a vector and the set of payload fields it carries, or  *)
(* Gone for a tombstone.  A segment holds at most one record per point id, *)
(* so it is a function of the ids; an id it does not hold maps to Absent.  *)
(* A WAL operation is what it writes to each id of its batch: a value, or  *)
(* Gone for a deletion.                                                    *)
(***************************************************************************)
EXTENDS Naturals, Sequences

CONSTANTS Ids,      \* point ids
          Vecs,     \* vectors
          Fields,   \* payload fields
          Gone      \* no value: a deleted or never written point

Value == [vec : Vecs, payload : SUBSET Fields]

ASSUME GoneAssumption == Gone \notin Value

Contents == Value \cup {Gone}

Absent == [ver |-> 0, val |-> Gone]

Record == {Absent} \cup [ver : Nat \ {0}, val : Contents]

Segment == [Ids -> Record]

EmptySegment == [id \in Ids |-> Absent]

\* What a read of a segment returns for every id.
Live(seg) == [id \in Ids |-> seg[id].val]

-----------------------------------------------------------------------------
(***************************************************************************)
(* Operations.  The three payload mutations keep the vector.               *)
(***************************************************************************)
Operation == UNION {[S -> Contents] : S \in (SUBSET Ids) \ {{}}}

ReplacePayload(value, fields) == [value EXCEPT !.payload = fields]

MergePayload(value, fields) == [value EXCEPT !.payload = @ \cup fields]

DeletePayloadKeys(value, fields) == [value EXCEPT !.payload = @ \ fields]

-----------------------------------------------------------------------------
(***************************************************************************)
(* Collection._apply_wal_record: the operation reaches the mutable segment *)
(* as one step.  All points of a batch carry one version and apply_upsert  *)
(* skips an id already stored at that version or above, so of two points   *)
(* of a batch with the same id the first wins: an operation is a function. *)
(***************************************************************************)
ApplyRecord(seg, op, version) ==
  [id \in Ids |->
     IF id \in DOMAIN op /\ seg[id].ver < version
     THEN [ver |-> version, val |-> op[id]]
     ELSE seg[id]]

-----------------------------------------------------------------------------
(***************************************************************************)
(* Selection across segments.  `_latest_records` and `select_latest` scan  *)
(* the segments in order and keep a record only if its version is          *)
(* strictly higher than the one they hold: the highest version wins and,   *)
(* between equal versions, the earliest segment.                           *)
(***************************************************************************)
Newest(segs, id) ==
  CHOOSE i \in DOMAIN segs :
    /\ \A j \in DOMAIN segs : segs[j][id].ver <= segs[i][id].ver
    /\ \A j \in 1 .. (i - 1) : segs[j][id].ver < segs[i][id].ver

Latest(segs) ==
  [id \in Ids |-> IF segs = <<>> THEN Absent ELSE segs[Newest(segs, id)][id]]

\* build_replacement(drop_tombstones=True).
DropTombstones(seg) ==
  [id \in Ids |-> IF seg[id].val = Gone THEN Absent ELSE seg[id]]

\* The records of a mutable segment that are newer than a replay boundary.
NewerThan(seg, boundary) ==
  [id \in Ids |-> IF seg[id].ver > boundary THEN seg[id] ELSE Absent]

-----------------------------------------------------------------------------
(***************************************************************************)
(* The log as the reference for what a collection must hold: after the     *)
(* records lo+1 .. hi of a log, an id holds what the last of them to touch *)
(* it wrote, under that record's sequence.                                 *)
(***************************************************************************)
Touches(log, lo, hi, id) == {k \in (lo + 1) .. hi : id \in DOMAIN log[k]}

LastTouch(log, lo, hi, id) ==
  CHOOSE k \in Touches(log, lo, hi, id) :
    \A j \in Touches(log, lo, hi, id) : j <= k

Slice(log, lo, hi) ==
  [id \in Ids |->
     IF Touches(log, lo, hi, id) = {} THEN Absent
     ELSE LET k == LastTouch(log, lo, hi, id)
          IN [ver |-> k, val |-> log[k][id]]]

LogState(log) == Slice(log, 0, Len(log))

\* A segment covers the first n records of a log: for every id it holds the
\* record they leave or, if that is a tombstone, possibly nothing at all.
Covers(seg, log, n) ==
  \A id \in Ids :
    LET rec == Slice(log, 0, n)[id]
    IN  seg[id] = rec \/ (rec.val = Gone /\ seg[id] = Absent)
=============================================================================
