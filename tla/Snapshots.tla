------------------------------ MODULE Snapshots ------------------------------
(***************************************************************************)
(* The directory of a collection, file by file: how write_atomic fills it  *)
(* (segment/codec.py), how a snapshot copies it while the locks of         *)
(* create_snapshot keep everybody else out, and what                       *)
(* validate_collection_snapshot accepts (persistence/snapshot.py).         *)
(*                                                                         *)
(* `_optimizer_lock` belongs to the task that runs, so there is one at a   *)
(* time; flush and create_snapshot hold `_update_lock` as well.  A manifest *)
(* and its pointer are published in one step, and the log keeps what was   *)
(* written: Publication.tla and Wal.tla show both.  A process that dies    *)
(* is replaced by one that has opened the collection again.                *)
(***************************************************************************)
EXTENDS Codec

CONSTANTS SegIds,     \* names of segment directories
          Dests,      \* destinations of snapshots
          NewParents, \* those that lie in a directory which is created for them
          Batches,    \* the operations that clients write
          Faults,     \* the tasks that may raise
          HostFails,  \* whether the host may crash
          MaxWal,     \* bound: records in the log
          MaxGen      \* bound: manifest generations

ASSUME SnapshotsAssumption ==
  /\ SegIds \cap Dests = {}
  /\ NewParents \subseteq Dests
  /\ Batches \subseteq Operation
  /\ Faults \subseteq {"flush", "optimize", "snapshot"}
  /\ HostFails \in BOOLEAN
  /\ MaxWal \in Nat
  /\ MaxGen \in Nat

Metadata == <<"collection.json">>
Current == <<"CURRENT">>
LogFile == <<"wal">>
Index == <<"snapshot.json">>
Stray == <<"stray">>
Manifest(gen) == <<"manifest", gen>>

Nothing == <<>>   \* a directory that does not exist

VARIABLES
  files,     \* the collection's directory
  mutable,   \* _mutable
  retired,   \* segments that an optimize replaced and somebody may still read
  task,      \* who holds _optimizer_lock, and where he is
  temp,      \* the temporary directory he fills
  snaps,     \* the directory at each destination
  unsynced,  \* directories renamed into place whose parent is not fsynced
  loose,     \* snapshots whose own files are not fsynced
  returned,  \* destinations of snapshots that create_snapshot has returned
  damaged,   \* destinations that something else has written to since
  taken      \* history: what the collection held when a snapshot was published

store == <<files, mutable, retired>>
shelf == <<snaps, unsynced, loose, returned, damaged, taken>>
vars == <<store, task, temp, shelf>>

Idle == [op |-> "none", step |-> "idle"]

Init ==
  /\ LET empty == Put(Put(Nothing, Metadata, {}), LogFile, <<>>)
     IN  files = Put(Put(empty, Manifest(1), [segments |-> <<>>, boundary |-> 0]), Current, 1)
  /\ mutable = EmptySegment
  /\ retired = {}
  /\ task = Idle
  /\ temp = Nothing
  /\ snaps = [d \in Dests |-> Nothing]
  /\ unsynced = {} /\ loose = {} /\ returned = {} /\ damaged = {}
  /\ taken = [d \in Dests |-> Nothing]

-----------------------------------------------------------------------------
(***************************************************************************)
(* What a directory tree says.                                             *)
(***************************************************************************)
Generation(tree) == Content(tree, Current)

Root(tree) == Content(tree, Manifest(Generation(tree)))

\* A log that was cut short is repaired when it is opened.
Log(tree) == IF HasFile(tree, LogFile) THEN Content(tree, LogFile) ELSE <<>>

Segments(tree) == Root(tree).segments

SegmentRecords(tree) ==
  [i \in DOMAIN Segments(tree) |-> ReadRecords(tree, Segments(tree)[i])]

\* What open() applies again.
Replayed(tree) == Slice(Log(tree), Root(tree).boundary, Len(Log(tree)))

\* The schemas; read_collection_metadata compares a SHA-256 too.
Schemas(tree) == Content(tree, Metadata)

ReadsMetadata(tree) == HasFile(tree, Metadata)

\* Collection.open does not raise.
Opens(tree) ==
  /\ ReadsMetadata(tree)
  /\ HasFile(tree, Current) /\ HasFile(tree, Manifest(Generation(tree)))
  /\ \A i \in DOMAIN Segments(tree) : Readable(tree, Segments(tree)[i])

\* The points a collection opened there serves, its last sequence and its schemas.
Recovered(tree) ==
  [points  |-> Live(Latest(Append(SegmentRecords(tree), Replayed(tree)))),
   last    |-> Len(Log(tree)),
   schemas |-> Schemas(tree)]

Acknowledged ==
  [points  |-> Live(LogState(Log(files))),
   last    |-> Len(Log(files)),
   schemas |-> Schemas(files)]

-----------------------------------------------------------------------------
(***************************************************************************)
(* What needs `_update_lock` only: a write, and create_payload_index.      *)
(***************************************************************************)
\* Mutant: a snapshot copies without it.
LockedByFlush == task.op = "flush"

UpdateLocked == task.op \in {"flush", "snapshot"}

Write ==
  /\ ~UpdateLocked
  /\ Len(Log(files)) < MaxWal
  /\ \E operation \in Batches :
       /\ files' = Put(files, LogFile, Append(Log(files), operation))
       /\ mutable' = ApplyRecord(mutable, operation, Len(Log(files)) + 1)
  /\ UNCHANGED <<retired, task, temp, shelf>>

\* collection.json is written beside and renamed.
CreatePayloadIndex ==
  /\ ~UpdateLocked
  /\ \E field \in Fields : files' = Put(files, Metadata, Schemas(files) \cup {field})
  /\ UNCHANGED <<mutable, retired, task, temp, shelf>>

-----------------------------------------------------------------------------
(***************************************************************************)
(* flush, which is also how create_snapshot begins, and optimize, each up  *)
(* to its image.                                                           *)
(***************************************************************************)
Fresh ==
  {s \in SegIds : Generation(files) < MaxGen /\ \A path \in DOMAIN files : path[1] # s}

Task(op, step, dest) == [op |-> op, step |-> step, dest |-> dest, synced |-> FALSE]

Build(op, step, dest, s, image) ==
  task' = [op |-> op, step |-> step, dest |-> dest, synced |-> FALSE,
           new |-> s, image |-> image, boundary |-> Len(Log(files))]

FlushMutable(op, dest) ==
  \E s \in Fresh : Build(op, "write", dest, s, Image(mutable, Schemas(files), FALSE))

Flush ==
  /\ task = Idle
  /\ Held(mutable) # {}
  /\ FlushMutable("flush", Nothing)
  /\ UNCHANGED <<store, temp, shelf>>

\* Without records to flush, it goes on at once.
CreateSnapshot(d) ==
  /\ task = Idle
  /\ IF Held(mutable) = {}
     THEN task' = Task("snapshot", "check", d)
     ELSE FlushMutable("snapshot", d)
  /\ UNCHANGED <<store, temp, shelf>>

\* The records are captured under `_update_lock`, the schemas read after it.
Optimize ==
  /\ task = Idle
  /\ \E s \in Fresh :
       LET captured == Latest(Append(SegmentRecords(files), mutable))
       IN  Build("optimize", "build", Nothing, s, Image(DropTombstones(captured), {}, TRUE))
  /\ UNCHANGED <<store, temp, shelf>>

BuildReplacement ==
  /\ task.step = "build"
  /\ task' = [task EXCEPT !.step = "write", !.image.schemas = Schemas(files)]
  /\ UNCHANGED <<store, temp, shelf>>

-----------------------------------------------------------------------------
(***************************************************************************)
(* SegmentCodec.write_atomic: each file is written and fsynced in the      *)
(* temporary directory, which is then renamed.                             *)
(***************************************************************************)
Unwritten == {i \in DOMAIN Written : <<task.new, Written[i]>> \notin DOMAIN temp}

WriteFile ==
  /\ task.step = "write"
  /\ Unwritten # {}
  /\ LET name == Written[CHOOSE i \in Unwritten : \A j \in Unwritten : i <= j]
     IN  temp' = Put(temp, <<task.new, name>>, FileContent(task.image, name))
  /\ UNCHANGED <<store, task, shelf>>

RenameSegment ==
  /\ task.step = "write"
  /\ Unwritten = {}
  /\ files' = With(files, temp)
  /\ temp' = Nothing
  /\ unsynced' = unsynced \cup {task.new}
  /\ task' = [task EXCEPT !.step = "publish"]
  /\ UNCHANGED <<mutable, retired, snaps, loose, returned, damaged, taken>>

Published(segments) ==
  LET root == [segments |-> segments, boundary |-> task.boundary]
      next == Generation(files) + 1
  IN  Put(Put(files, Manifest(next), root), Current, next)

\* The parent is fsynced, then the manifest is published.
PublishFlush ==
  /\ task.step = "publish" /\ task.op \in {"flush", "snapshot"}
  /\ unsynced' = unsynced \ {task.new}
  /\ files' = Published(Append(Segments(files), task.new))
  /\ mutable' = EmptySegment
  /\ task' = IF task.op = "flush" THEN Idle ELSE Task("snapshot", "check", task.dest)
  /\ UNCHANGED <<retired, temp, snaps, loose, returned, damaged, taken>>

PublishOptimize ==
  /\ task.step = "publish" /\ task.op = "optimize"
  /\ unsynced' = unsynced \ {task.new}
  /\ files' = Published(<<task.new>>)
  /\ mutable' = NewerThan(mutable, task.boundary)
  /\ retired' = retired \cup {Segments(files)[i] : i \in DOMAIN Segments(files)}
  /\ task' = Idle
  /\ UNCHANGED <<temp, snaps, loose, returned, damaged, taken>>

\* A retired directory goes when its last reader does, whatever else is running.
Reclaim(s) ==
  /\ s \in retired
  /\ files' = Without(files, SegmentPaths(s))
  /\ retired' = retired \ {s}
  /\ UNCHANGED <<mutable, task, temp, shelf>>

-----------------------------------------------------------------------------
(***************************************************************************)
(* create_collection_snapshot, with both locks.                            *)
(***************************************************************************)
Check ==
  /\ task.step = "check"
  /\ snaps[task.dest] = Nothing
  /\ task' = [task EXCEPT !.step = "copy"]
  /\ UNCHANGED <<store, temp, shelf>>

\* What is copied, in this order: single files, and whole directories.
Pieces ==
  <<{Metadata}, {Current}, {Manifest(Generation(files))}, {LogFile}>>
    \o [i \in DOMAIN Segments(files) |-> SegmentPaths(Segments(files)[i])]

Uncopied == {i \in DOMAIN Pieces : ~ Pieces[i] \subseteq DOMAIN temp}

Copy ==
  /\ task.step = "copy"
  /\ Uncopied # {}
  /\ LET piece == Pieces[CHOOSE i \in Uncopied : \A j \in Uncopied : i <= j]
     IN  temp' = With(temp, [path \in piece |-> files[path]])
  /\ UNCHANGED <<store, task, shelf>>

\* snapshot.json gives every copied file its checksum.
WriteIndex ==
  /\ task.step = "copy"
  /\ Uncopied = {}
  /\ temp' = Put(temp, Index, temp)
  /\ task' = [task EXCEPT !.step = "sync"]
  /\ UNCHANGED <<store, shelf>>

\* Mutant: the copied files are not fsynced.
FsyncNothing == FALSE

FsyncTree == TRUE

Sync ==
  /\ task.step = "sync"
  /\ task' = [task EXCEPT !.step = "replace", !.synced = FsyncTree]
  /\ UNCHANGED <<store, temp, shelf>>

Replace ==
  /\ task.step = "replace"
  /\ snaps' = [snaps EXCEPT ![task.dest] = temp]
  /\ temp' = Nothing
  /\ unsynced' = unsynced \cup {task.dest}
  /\ loose' = IF task.synced THEN loose ELSE loose \cup {task.dest}
  /\ taken' = [taken EXCEPT ![task.dest] = Acknowledged]
  /\ task' = [task EXCEPT !.step = "confirm"]
  /\ UNCHANGED <<store, returned, damaged>>

\* The destination's parent is fsynced; the directories above it, which
\* mkdir(parents=True) may have created, are not.
Confirm ==
  /\ task.step = "confirm"
  /\ unsynced' = unsynced \ ({task.dest} \ NewParents)
  /\ returned' = returned \cup {task.dest}
  /\ task' = Idle
  /\ UNCHANGED <<store, temp, snaps, loose, damaged, taken>>

\* Whatever step raises: the temporary directory is removed, and an optimize
\* removes the segment it has not published.
Raise ==
  /\ task.op \in Faults \/ (task.step = "check" /\ snaps[task.dest] # Nothing)
  /\ files' = IF task.op = "optimize" THEN Without(files, SegmentPaths(task.new)) ELSE files
  /\ task' = Idle
  /\ temp' = Nothing
  /\ UNCHANGED <<mutable, retired, shelf>>

-----------------------------------------------------------------------------
(***************************************************************************)
(* Crashes, and damage to a snapshot.                                      *)
(***************************************************************************)
\* What the next process finds, it opens; no name of a temporary or retired
\* directory is known to it.
Reopened(tree) ==
  /\ files' = tree
  /\ mutable' = Replayed(tree)
  /\ retired' = {}
  /\ task' = Idle
  /\ temp' = Nothing

ProcessCrash ==
  /\ Reopened(files)
  /\ UNCHANGED shelf

\* Renames whose parent was not fsynced may be undone, and of a tree that was
\* not fsynced itself nothing is certain.
HostCrash ==
  /\ HostFails
  /\ \E lost \in SUBSET unsynced :
       /\ Reopened(Without(files, UNION {SegmentPaths(s) : s \in lost \cap SegIds}))
       /\ snaps' = [d \in Dests |->
                      IF d \in lost THEN Nothing
                      ELSE IF d \in loose THEN [path \in DOMAIN snaps[d] |-> Torn]
                      ELSE snaps[d]]
  /\ unsynced' = {} /\ loose' = {}
  /\ UNCHANGED <<returned, damaged, taken>>

\* A file changed, lost or added while a finished snapshot was stored or carried.
Damage(d) ==
  /\ d \in returned \ damaged /\ snaps[d] # Nothing
  /\ \/ \E path \in DOMAIN snaps[d] : snaps' = [snaps EXCEPT ![d][path] = Torn]
     \/ \E path \in DOMAIN snaps[d] : snaps' = [snaps EXCEPT ![d] = Without(@, {path})]
     \/ snaps' = [snaps EXCEPT ![d] = With(@, [path \in {Stray} |-> Torn])]
  /\ damaged' = damaged \cup {d}
  /\ UNCHANGED <<store, task, temp, unsynced, loose, returned, taken>>

-----------------------------------------------------------------------------
Next ==
  \/ Write \/ CreatePayloadIndex
  \/ Flush \/ Optimize \/ BuildReplacement \/ WriteFile \/ RenameSegment
  \/ PublishFlush \/ PublishOptimize
  \/ \E s \in SegIds : Reclaim(s)
  \/ \E d \in Dests : CreateSnapshot(d) \/ Damage(d)
  \/ Check \/ Copy \/ WriteIndex \/ Sync \/ Replace \/ Confirm \/ Raise
  \/ ProcessCrash \/ HostCrash

Spec == Init /\ [][Next]_vars

-----------------------------------------------------------------------------
(***************************************************************************)
(* validate_collection_snapshot.                                           *)
(***************************************************************************)
Collection(tree) == Without(tree, {Index})

\* Mutant: the checksums of snapshot.json are not compared.
FilesPresent(tree) == DOMAIN Collection(tree) = DOMAIN Content(tree, Index)

FilesMatch(tree) == Collection(tree) = Content(tree, Index)

Accepts(tree) ==
  /\ HasFile(tree, Index)
  /\ FilesMatch(tree)
  /\ Opens(Collection(tree))

\* What a process finds when it opens the collection, at any moment and after any
\* crash: every segment the manifest names is complete and gives back the records
\* that were written into it, tombstones included, and with the log it holds what
\* was acknowledged.
ReopensTheSame == Opens(files) /\ Recovered(files) = Acknowledged

\* "a snapshot captures one committed manifest, every segment referenced by it,
\* WAL records" (design, 11.3): whatever was done to it since, a snapshot that is
\* accepted restores the points, the log and the schemas that the collection had when
\* the snapshot was published, with everything acknowledged until then.
AcceptedIsTaken ==
  \A d \in Dests :
    Accepts(snaps[d]) => Recovered(Collection(snaps[d])) = taken[d]

\* "Snapshot creation uses a temporary directory and atomic rename": at any moment
\* and after any crash a destination is empty or holds a snapshot that is accepted,
\* unless something else wrote to it, and one that was returned is still there if
\* the directory it lies in existed before.
WholeOrNothing ==
  \A d \in Dests \ damaged :
    Accepts(snaps[d]) \/ (snaps[d] = Nothing /\ d \notin returned \ NewParents)
=============================================================================
