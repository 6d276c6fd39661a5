----------------------------- MODULE Collection -----------------------------
(***************************************************************************)
(* One collection: its write-ahead log, its published root (the manifest   *)
(* CURRENT names), its segment directories, and the memory built over them *)
(* (collection.py).                                                        *)
(*                                                                         *)
(* Writers, flush, optimize, close and open are threads of one process.    *)
(* `_update_lock` covers a write from its WAL append to its application,   *)
(* a whole flush, and the capture and the publication of an optimize, but  *)
(* not the build in between.  `_optimizer_lock` covers a whole flush and a *)
(* whole optimize.  The locks are held exactly while `writer`, `flush` and *)
(* `opt` are busy, so they need no variables of their own.                 *)
(*                                                                         *)
(* Publishing a root is one step here; Publication.tla takes it apart.     *)
(***************************************************************************)
EXTENDS Segments, SequencesExt

CONSTANTS SegIds,      \* names of segment directories (uuids in the code)
          Durability,  \* Durability: "always", "interval" or "manual"
          HostFails,   \* whether the host may crash: unsynced WAL bytes are lost
          Faults,      \* the steps that may fail
          Batches,     \* the sets of ids one write may name
          MaxWal       \* bound: WAL records

\* The steps that may fail: the process may die between the write of a frame and
\* its fsync; the hook between a WAL append and its application may raise, and
\* so may building, writing or publishing a segment before CURRENT is replaced.
BeforeWalFsync == "before_wal_fsync"
AfterWalFsync  == "after_wal_fsync"
BeforeCommit   == "before_current_replace"

ASSUME CollectionAssumption ==
  /\ Durability \in {"always", "interval", "manual"}
  /\ HostFails \in BOOLEAN
  /\ Faults \subseteq {BeforeWalFsync, AfterWalFsync, BeforeCommit}
  /\ Batches \subseteq (SUBSET Ids) \ {{}}
  /\ MaxWal \in Nat

VARIABLES
  \* on disk
  wal,       \* the operations of the WAL's frames: frame k has sequence k
  synced,    \* how many frames an fsync has covered
  dirs,      \* the segment directories that exist
  image,     \* the records of each segment directory
  root,      \* the manifest CURRENT names: [segs, boundary]
  durable,   \* the root as of the last fsync of CURRENT's directory
  \* in memory
  status,    \* "open", "recovering" (open() is replaying) or "down"
  manifest,  \* _manifest and _segments, which always change together
  mutable,   \* _mutable
  replayed,  \* the last WAL record open() has applied
  writer,    \* the record appended but not yet applied, 0 if none
  flush,     \* the running flush: [phase, seg]
  opt,       \* the running optimize: [phase, captured, boundary, seg]
  retired,   \* directories whose handles are retired and not yet deleted
  \* history
  unacked    \* records in the WAL whose write call did not return

disk == <<wal, synced, dirs, image, root, durable>>
memory == <<status, manifest, mutable, replayed, writer, flush, opt, retired>>
vars == <<disk, memory, unacked>>

-----------------------------------------------------------------------------
Idle == "idle"

NoFlush == [phase |-> Idle]

NoOpt == [phase |-> Idle]

UpdateLockFree ==
  /\ writer = 0
  /\ flush.phase = Idle
  /\ opt.phase # "published"

OptimizerLockFree == flush.phase = Idle /\ opt.phase = Idle

Images(segs) == [i \in DOMAIN segs |-> image[segs[i]]]

\* _latest_records: what the collection holds in memory.
Visible == Latest(Append(Images(manifest.segs), mutable))

Init ==
  /\ wal = <<>>
  /\ synced = 0
  /\ dirs = {}
  /\ image = [s \in SegIds |-> EmptySegment]
  /\ root = [segs |-> <<>>, boundary |-> 0]
  /\ durable = root
  /\ status = "open"
  /\ manifest = root
  /\ mutable = EmptySegment
  /\ replayed = 0
  /\ writer = 0
  /\ flush = NoFlush
  /\ opt = NoOpt
  /\ retired = {}
  /\ unacked = {}

-----------------------------------------------------------------------------
(***************************************************************************)
(* Writes.  WAL-before-apply: a write appends its record, which only       *)
(* "always" fsyncs (nothing fsyncs at an interval), then applies it.       *)
(***************************************************************************)
SyncedAfterAppend == IF Durability = "always" THEN Len(wal) + 1 ELSE synced

\* Mutant: the last sequence is used again.
LastSequence == Len(wal)

NextSequence == Len(wal) + 1

AppendRecord(op) ==
  /\ wal' = Append(wal, op)
  /\ synced' = SyncedAfterAppend
  /\ writer' = NextSequence
  /\ UNCHANGED <<dirs, image, root, durable, status, manifest, mutable, replayed, flush,
                 opt, retired, unacked>>

BeginWrite ==
  /\ status = "open"
  /\ UpdateLockFree
  /\ Len(wal) < MaxWal

Upsertions == UNION {[S -> Value] : S \in Batches}

Deletions == {[id \in S |-> Gone] : S \in Batches}

\* _mutate_payload: the live points among the ids named are read and rewritten
\* under one hold of the lock; if there are none nothing is written.
LivePoints(S) == {id \in S : Visible[id].val # Gone}

Rewritten(S, fields) ==
  {[id \in LivePoints(S) |-> ReplacePayload(Visible[id].val, fields)],
   [id \in LivePoints(S) |-> MergePayload(Visible[id].val, fields)],
   [id \in LivePoints(S) |-> DeletePayloadKeys(Visible[id].val, fields)]}

PayloadMutations ==
  UNION {Rewritten(S, fields) :
           S \in {T \in Batches : LivePoints(T) # {}}, fields \in SUBSET Fields}

Upsert == BeginWrite /\ \E op \in Upsertions : AppendRecord(op)

Delete == BeginWrite /\ \E op \in Deletions : AppendRecord(op)

MutatePayload == BeginWrite /\ \E op \in PayloadMutations : AppendRecord(op)

\* _apply_wal_record, after which the call returns.
Apply ==
  /\ writer # 0
  /\ mutable' = ApplyRecord(mutable, wal[writer], writer)
  /\ writer' = 0
  /\ UNCHANGED <<disk, status, manifest, replayed, flush, opt, retired, unacked>>

\* The call raises between the two: the record stays in the log, unapplied.
WriteRaises ==
  /\ AfterWalFsync \in Faults
  /\ writer # 0
  /\ writer' = 0
  /\ unacked' = unacked \cup {writer}
  /\ UNCHANGED <<disk, status, manifest, mutable, replayed, flush, opt, retired>>

-----------------------------------------------------------------------------
(***************************************************************************)
(* flush(): the mutable segment becomes a new directory and a new root     *)
(* that claims the log up to its last record; then memory follows.         *)
(***************************************************************************)
\* Mutant: a flush leaves tombstones out, as an optimize does.
FlushedLiveRecords == DropTombstones(mutable)

FlushedRecords == mutable

FlushWrite ==
  /\ status = "open"
  /\ UpdateLockFree /\ OptimizerLockFree
  /\ mutable # EmptySegment
  /\ \E s \in SegIds \ dirs :
       /\ dirs' = dirs \cup {s}
       /\ image' = [image EXCEPT ![s] = FlushedRecords]
       /\ flush' = [phase |-> "written", seg |-> s]
  /\ UNCHANGED <<wal, synced, root, durable, status, manifest, mutable, replayed, writer,
                 opt, retired, unacked>>

FlushManifest == [segs |-> Append(manifest.segs, flush.seg), boundary |-> Len(wal)]

FlushPublish ==
  /\ flush.phase = "written"
  /\ root' = FlushManifest
  /\ flush' = [flush EXCEPT !.phase = "published"]
  /\ UNCHANGED <<wal, synced, dirs, image, durable, status, manifest, mutable, replayed,
                 writer, opt, retired, unacked>>

FlushInstall ==
  /\ flush.phase = "published"
  /\ manifest' = FlushManifest
  /\ mutable' = EmptySegment
  /\ flush' = NoFlush
  /\ durable' = root
  /\ UNCHANGED <<wal, synced, dirs, image, root, status, replayed, writer, opt,
                 retired, unacked>>

\* Publication raises before CURRENT is replaced: the directory stays behind.
FlushRaises ==
  /\ BeforeCommit \in Faults
  /\ flush.phase = "written"
  /\ flush' = NoFlush
  /\ UNCHANGED <<disk, status, manifest, mutable, replayed, writer, opt, retired,
                 unacked>>

-----------------------------------------------------------------------------
(***************************************************************************)
(* _optimize(): capture under the lock, build and write without it, then   *)
(* publish and install under it again.  The sources are every segment of   *)
(* the manifest, which cannot change while `_optimizer_lock` is held, so   *)
(* no segment is preserved and `manifest.segs` still names the sources.    *)
(***************************************************************************)
OptimizeCapture ==
  /\ status = "open"
  /\ UpdateLockFree /\ OptimizerLockFree
  /\ SegIds # dirs   \* bound: a name is left for the replacement
  /\ opt' = [phase |-> "captured", captured |-> Visible, boundary |-> Len(wal)]
  /\ UNCHANGED <<disk, status, manifest, mutable, replayed, writer, flush, retired,
                 unacked>>

OptimizeWrite ==
  /\ opt.phase = "captured"
  /\ \E s \in SegIds \ dirs :
       /\ dirs' = dirs \cup {s}
       /\ image' = [image EXCEPT ![s] = DropTombstones(opt.captured)]
       /\ opt' = [phase |-> "written", boundary |-> opt.boundary, seg |-> s]
  /\ UNCHANGED <<wal, synced, root, durable, status, manifest, mutable, replayed, writer,
                 flush, retired, unacked>>

\* Mutant: the boundary is read at publication instead of at capture.
OptimizeManifestLate == [segs |-> <<opt.seg>>, boundary |-> Len(wal)]

OptimizeManifest == [segs |-> <<opt.seg>>, boundary |-> opt.boundary]

\* Mutant: publication does not wait for the writer.
MayPublishAnyTime == TRUE

MayPublish == UpdateLockFree

OptimizePublish ==
  /\ opt.phase = "written"
  /\ MayPublish
  /\ root' = OptimizeManifest
  /\ opt' = [opt EXCEPT !.phase = "published"]
  /\ UNCHANGED <<wal, synced, dirs, image, durable, status, manifest, mutable, replayed,
                 writer, flush, retired, unacked>>

\* Mutant: off by one, the first record that arrived during the build is lost.
LateRecordsOffByOne == NewerThan(mutable, opt.boundary + 1)

\* The records that arrived during the build stay in the next mutable segment.
LateRecords == NewerThan(mutable, opt.boundary)

\* Mutant: the replacement is retired with its sources.
SourcesAndReplacement == ToSet(manifest.segs) \cup {opt.seg}

Sources == ToSet(manifest.segs)

OptimizeInstall ==
  /\ opt.phase = "published"
  /\ manifest' = OptimizeManifest
  /\ mutable' = LateRecords
  /\ retired' = retired \cup Sources
  /\ opt' = NoOpt
  /\ durable' = root
  /\ UNCHANGED <<wal, synced, dirs, image, root, status, replayed, writer, flush,
                 unacked>>

\* Mutant: the cleanup does not ask whether CURRENT was replaced.
Built == opt.phase \in {"written", "published"}

BuiltNotPublished == opt.phase = "written"

\* Building or publishing raises before CURRENT is replaced: the cleanup
\* removes the directory, if it was written, and the sources stay.
OptimizeRaises ==
  /\ BeforeCommit \in Faults
  /\ \/ opt.phase = "captured"
        /\ UNCHANGED <<dirs, image>>
     \/ BuiltNotPublished
        /\ dirs' = dirs \ {opt.seg}
        /\ image' = [image EXCEPT ![opt.seg] = EmptySegment]
  /\ opt' = NoOpt
  /\ UNCHANGED <<wal, synced, root, durable, status, manifest, mutable, replayed, writer,
                 flush, retired, unacked>>

\* SegmentHandle: a retired directory is deleted when its last reader, an
\* open view or the optimizer itself, releases it.
Reclaim(s) ==
  /\ s \in retired
  /\ retired' = retired \ {s}
  /\ dirs' = dirs \ {s}
  /\ image' = [image EXCEPT ![s] = EmptySegment]
  /\ UNCHANGED <<wal, synced, root, durable, status, manifest, mutable, replayed, writer,
                 flush, opt, unacked>>

-----------------------------------------------------------------------------
(***************************************************************************)
(* Stopping and starting.                                                  *)
(***************************************************************************)
ForgetMemory ==
  /\ status' = "down"
  /\ manifest' = [segs |-> <<>>, boundary |-> 0]
  /\ mutable' = EmptySegment
  /\ replayed' = 0
  /\ writer' = 0
  /\ flush' = NoFlush
  /\ opt' = NoOpt
  /\ retired' = {}

\* close() waits for the locks and for every view, and fsyncs the log.
Close ==
  /\ status = "open"
  /\ UpdateLockFree /\ OptimizerLockFree
  /\ retired = {}
  /\ synced' = Len(wal)
  /\ ForgetMemory
  /\ UNCHANGED <<wal, dirs, image, root, durable, unacked>>

\* The process dies.  What it wrote is in the page cache and survives.
ProcessCrash ==
  /\ status # "down"
  /\ unacked' = unacked \cup ({writer} \ {0})
  /\ ForgetMemory
  /\ UNCHANGED disk

\* The process dies with a frame written but not fsynced: open() will find the
\* frame and, as it fsyncs nothing it finds, the frame may still be lost.
DieBeforeWalFsync ==
  /\ BeforeWalFsync \in Faults
  /\ BeginWrite
  /\ \E op \in Upsertions \cup Deletions \cup PayloadMutations : wal' = Append(wal, op)
  /\ unacked' = unacked \cup {NextSequence}
  /\ ForgetMemory
  /\ UNCHANGED <<synced, dirs, image, root, durable>>

\* The host dies.  Frames no fsync covered may be lost, and so may the
\* replacement of CURRENT if its directory was not fsynced since.
HostCrash ==
  /\ HostFails
  /\ \E n \in synced .. Len(wal) :
       /\ wal' = SubSeq(wal, 1, n)
       /\ synced' = n
       /\ unacked' = (unacked \cup ({writer} \ {0})) \cap (1 .. n)
  /\ root' \in {root, durable}
  /\ durable' = root'
  /\ ForgetMemory
  /\ UNCHANGED <<dirs, image>>

\* Mutant: replay starts one record late.
ReplaySkippingOne == root.boundary + 1

ReplayFrom == root.boundary

\* open(): load the root CURRENT names and every segment it names.
Open ==
  /\ status = "down"
  /\ ToSet(root.segs) \subseteq dirs
  /\ status' = "recovering"
  /\ manifest' = root
  /\ replayed' = ReplayFrom
  /\ UNCHANGED <<disk, mutable, writer, flush, opt, retired, unacked>>

\* The records after the boundary are applied again, in order.
Replay ==
  /\ status = "recovering"
  /\ replayed < Len(wal)
  /\ replayed' = replayed + 1
  /\ mutable' = ApplyRecord(mutable, wal[replayed'], replayed')
  /\ UNCHANGED <<disk, status, manifest, writer, flush, opt, retired, unacked>>

Opened ==
  /\ status = "recovering"
  /\ replayed >= Len(wal)
  /\ status' = "open"
  /\ replayed' = 0
  /\ UNCHANGED <<disk, manifest, mutable, writer, flush, opt, retired, unacked>>

-----------------------------------------------------------------------------
Next ==
  \/ Upsert \/ Delete \/ MutatePayload \/ Apply \/ WriteRaises
  \/ FlushWrite \/ FlushPublish \/ FlushInstall \/ FlushRaises
  \/ OptimizeCapture \/ OptimizeWrite \/ OptimizePublish \/ OptimizeInstall
  \/ OptimizeRaises \/ \E s \in SegIds : Reclaim(s)
  \/ Close \/ ProcessCrash \/ DieBeforeWalFsync \/ HostCrash \/ Open \/ Replay \/ Opened

Spec == Init /\ [][Next]_vars

-----------------------------------------------------------------------------
(***************************************************************************)
(* Type invariant.                                                         *)
(***************************************************************************)
Root == [segs : Seq(SegIds), boundary : Nat]

FlushState ==
  {NoFlush} \cup [phase : {"written", "published"}, seg : SegIds]

OptState ==
  {NoOpt}
    \cup [phase : {"captured"}, captured : Segment, boundary : Nat]
    \cup [phase : {"written", "published"}, boundary : Nat, seg : SegIds]

\* Every variable has its type, the fsynced prefix lies within the log, and
\* the record being written is the last of the log.
TypeOK ==
  /\ wal \in Seq(Operation)
  /\ synced \in 0 .. Len(wal)
  /\ dirs \in SUBSET SegIds
  /\ image \in [SegIds -> Segment]
  /\ root \in Root
  /\ durable \in Root
  /\ status \in {"open", "recovering", "down"}
  /\ manifest \in Root
  /\ mutable \in Segment
  /\ replayed \in Nat
  /\ writer \in {0, Len(wal)}
  /\ flush \in FlushState
  /\ opt \in OptState
  /\ retired \in SUBSET SegIds
  /\ unacked \in SUBSET (1 .. Len(wal))

-----------------------------------------------------------------------------
(***************************************************************************)
(* Safety.                                                                 *)
(***************************************************************************)
\* What a restart would serve: the root's segments overlaid with the records
\* of the log after its boundary.
Recovered ==
  Latest(Append(Images(root.segs), Slice(wal, root.boundary, Len(wal))))

\* A root claims a prefix of the log that its segments cover.
Represents(r) ==
  r.boundary <= Len(wal) /\ Covers(Latest(Images(r.segs)), wal, r.boundary)

\* The published root, and the one a host crash would leave, never claims a
\* record of the log that its segments do not hold, nor holds more:
\* "replay_boundary states precisely which prefix is already represented"
\* (collection.py:338, 566).
BoundaryRepresented == Represents(root) /\ Represents(durable)

\* Whenever it stops, between any two steps of any operation, a restart
\* recovers exactly what the log records.
RecoveryMatchesLog == Live(Recovered) = Live(LogState(wal))

\* Whenever a reader can take the lock it reads exactly what the log records:
\* no flush, optimize, crash or replay loses a write, brings back a deleted
\* point or serves a stale one.
ReadsMatchLog ==
  status = "open" /\ writer = 0 => Live(Visible) = Live(LogState(wal))

\* Every directory CURRENT names, before or after a host crash, exists, and so
\* does every one the running collection or its optimizer reads; none of them
\* waits to be deleted.
InUse == ToSet(manifest.segs) \cup ToSet(durable.segs)

RootOnDisk ==
  /\ ToSet(root.segs) \cup InUse \cup retired \subseteq dirs
  /\ InUse \cap retired = {}

\* Whatever calls raise, the value an id ends with is that of its last
\* acknowledged write or of a later write that was not acknowledged, and
\* that holds of a restart as well as of a read.
Acked == (1 .. Len(wal)) \ (unacked \cup {writer})

HoldsAcked(seg) ==
  \A id \in Ids :
    LET touches == {k \in Acked : id \in DOMAIN wal[k]}
        later   == {k \in 1 .. Len(wal) : /\ id \in DOMAIN wal[k]
                                          /\ \A j \in touches : j <= k}
    IN  \/ \E k \in later : seg[id].val = wal[k][id]
        \/ touches = {} /\ seg[id] = Absent

AckedSurvive ==
  /\ HoldsAcked(Recovered)
  /\ status = "open" => HoldsAcked(Visible)

-----------------------------------------------------------------------------
(***************************************************************************)
(* The inductive invariant that implies all of the safety above when no    *)
(* write raises after its append and the log on disk is never cut short:   *)
(* the host does not crash, or every frame is fsynced before its write     *)
(* returns and no process has died between the two.                        *)
(***************************************************************************)
LogIsKept ==
  /\ AfterWalFsync \notin Faults
  /\ HostFails => Durability = "always" /\ BeforeWalFsync \notin Faults

AlwaysSynced == HostFails => synced = Len(wal)

\* The mutable segment holds the log from the memory's boundary to its end or,
\* while open() replays or a write is pending, to the last record applied.
Applied ==
  IF status = "recovering" THEN replayed
  ELSE IF writer = 0 THEN Len(wal) ELSE Len(wal) - 1

MutableHoldsTail ==
  status # "down" => /\ Applied \in manifest.boundary .. Len(wal)
                     /\ mutable = Slice(wal, manifest.boundary, Applied)

\* Until publication the root is the one in memory.
RootInMemory ==
  status # "down" =>
    /\ flush.phase = "published" => root = FlushManifest
    /\ opt.phase = "published" => root = OptimizeManifest
    /\ flush.phase # "published" /\ opt.phase # "published" => root = manifest

MemoryRepresents == status # "down" => Represents(manifest)

\* A directory a flush or an optimize has built is nobody else's.
Unused == dirs \ (InUse \cup retired)

FlushOwns == flush.phase # Idle => opt.phase = Idle /\ flush.seg \in Unused

OptOwns == opt.phase \in {"written", "published"} => opt.seg \in Unused

\* What is in it stands for the prefix of the log it will claim.
FlushHolds == flush.phase # Idle => writer = 0 /\ image[flush.seg] = mutable

OptHolds ==
  opt.phase # Idle =>
    /\ opt.boundary \in manifest.boundary .. Len(wal)
    /\ opt.phase = "captured" => Covers(opt.captured, wal, opt.boundary)
    /\ opt.phase \in {"written", "published"} =>
         Covers(image[opt.seg], wal, opt.boundary)
    /\ opt.phase = "published" => writer = 0

OnlyOpenIsBusy ==
  /\ status # "open" => writer = 0 /\ flush = NoFlush /\ opt = NoOpt /\ retired = {}
  /\ status = "down" => mutable = EmptySegment /\ manifest.segs = <<>>

\* The part that concerns directories holds of every configuration.
DiskInv ==
  /\ TypeOK
  /\ RootOnDisk
  /\ RootInMemory
  /\ FlushOwns
  /\ OptOwns
  /\ OnlyOpenIsBusy

IInv ==
  /\ DiskInv
  /\ AlwaysSynced
  /\ BoundaryRepresented
  /\ MutableHoldsTail
  /\ MemoryRepresents
  /\ FlushHolds
  /\ OptHolds

-----------------------------------------------------------------------------
(***************************************************************************)
(* Action properties.                                                      *)
(***************************************************************************)
\* What readers see changes only when a write is applied: publishing a flush
\* or an optimize, failing to, and reclaiming directories are invisible.
PublicationInvisible ==
  [][status = "open" /\ status' = "open" /\ writer' = writer
       => Live(Visible') = Live(Visible)]_vars

\* A write gives every id it touches a higher version than the collection
\* holds for it: "versions strictly increase" (wal.py:112, mutable.py:56).
VersionsIncrease ==
  [][Apply => \A id \in DOMAIN wal[writer] : writer > Visible[id].ver]_vars

-----------------------------------------------------------------------------
(***************************************************************************)
(* The collection implements DurableMap: a write is pending from its       *)
(* append to its application.                                              *)
(***************************************************************************)
CONSTANT Down

ASSUME DownAssumption == Down \notin [Ids -> Contents]

Promise == INSTANCE DurableMap WITH
  contents <- Live(Recovered),
  served   <- IF status = "open" THEN Live(Visible) ELSE Down,
  pending  <- IF writer # 0 THEN wal[writer] ELSE [id \in {} |-> Gone]

\* A collection whose log is kept changes by the writes it is asked for and by nothing
\* else: a write takes place as a whole, before or after a crash, and reads return
\* everything acknowledged.
PromiseSpec == Promise!Spec
=============================================================================
