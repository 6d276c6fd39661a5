-------------------------- MODULE CollectionProofs --------------------------
(***************************************************************************)
(* Theorems about Collection for every set of ids, values and directory    *)
(* names, every batch shape and every length of the log.                   *)
(***************************************************************************)
EXTENDS Collection, SegmentsProofs

-----------------------------------------------------------------------------
(***************************************************************************)
(* What an action writes has its type.                                     *)
(***************************************************************************)
LEMMA ImagesType ==
  ASSUME image \in [SegIds -> Segment], NEW segs \in Seq(SegIds)
  PROVE  Images(segs) \in Seq(Segment)
BY DEF Images

\* A list extended by a directory selects from one segment more.
LEMMA ImagesAppend ==
  ASSUME image \in [SegIds -> Segment], NEW segs \in Seq(SegIds), NEW s \in SegIds
  PROVE  Images(Append(segs, s)) = Append(Images(segs), image[s])
BY DEF Images

LEMMA VisibleType ==
  ASSUME TypeOK
  PROVE  Visible \in Segment
<1>1. Images(manifest.segs) \in Seq(Segment)
  BY ImagesType DEF TypeOK, Root
<1>2. Append(Images(manifest.segs), mutable) \in Seq(Segment)
  BY <1>1 DEF TypeOK
<1> QED BY <1>2, LatestType DEF Visible

LEMMA ApplyRecordType ==
  ASSUME NEW seg \in Segment, NEW op \in Operation, NEW version \in Nat \ {0}
  PROVE  ApplyRecord(seg, op, version) \in Segment
<1>1. ASSUME NEW id \in Ids, id \in DOMAIN op
      PROVE  [ver |-> version, val |-> op[id]] \in Record
  BY <1>1 DEF Operation, Record
<1> QED BY <1>1 DEF ApplyRecord, Segment

LEMMA DropTombstonesType ==
  ASSUME NEW seg \in Segment
  PROVE  DropTombstones(seg) \in Segment
BY DEF DropTombstones, Segment, Record

LEMMA NewerThanType ==
  ASSUME NEW seg \in Segment, NEW boundary \in Nat
  PROVE  NewerThan(seg, boundary) \in Segment
BY DEF NewerThan, Segment, Record

LEMMA EmptySegmentType == EmptySegment \in Segment
BY DEF EmptySegment, Segment, Record

\* What a write may append is an operation.
LEMMA OperationsType ==
  ASSUME TypeOK
  PROVE  Upsertions \cup Deletions \cup PayloadMutations \subseteq Operation
<1>1. Upsertions \subseteq Operation
  BY CollectionAssumption DEF Upsertions, Operation, Contents
<1>2. Deletions \subseteq Operation
  <2>1. ASSUME NEW S \in Batches PROVE [id \in S |-> Gone] \in Operation
    <3>1. [id \in S |-> Gone] \in [S -> Contents] /\ S \in (SUBSET Ids) \ {{}}
      BY CollectionAssumption DEF Contents
    <3> QED BY <3>1 DEF Operation
  <2> QED BY <2>1 DEF Deletions
<1>3. PayloadMutations \subseteq Operation
  <2> SUFFICES ASSUME NEW op \in PayloadMutations PROVE op \in Operation
    OBVIOUS
  <2>1. PICK S \in Batches, fields \in SUBSET Fields :
          LivePoints(S) # {} /\ op \in Rewritten(S, fields)
    BY DEF PayloadMutations
  <2>2. LivePoints(S) \in (SUBSET Ids) \ {{}}
    BY <2>1, CollectionAssumption DEF LivePoints
  <2>3. ASSUME NEW id \in LivePoints(S) PROVE Visible[id].val \in Value
    <3>1. Visible[id] \in Record /\ Visible[id].val # Gone
      BY <2>2, VisibleType DEF LivePoints, Segment
    <3> QED BY <3>1 DEF Record, Absent, Contents
  <2>4. \A value \in Value : /\ ReplacePayload(value, fields) \in Contents
                             /\ MergePayload(value, fields) \in Contents
                             /\ DeletePayloadKeys(value, fields) \in Contents
    BY DEF Value, Contents, ReplacePayload, MergePayload, DeletePayloadKeys
  <2>5. /\ [id \in LivePoints(S) |-> ReplacePayload(Visible[id].val, fields)]
             \in [LivePoints(S) -> Contents]
        /\ [id \in LivePoints(S) |-> MergePayload(Visible[id].val, fields)]
             \in [LivePoints(S) -> Contents]
        /\ [id \in LivePoints(S) |-> DeletePayloadKeys(Visible[id].val, fields)]
             \in [LivePoints(S) -> Contents]
    BY <2>3, <2>4
  <2> QED BY <2>1, <2>2, <2>5 DEF Rewritten, Operation
<1> QED BY <1>1, <1>2, <1>3

LEMMA WritesAppendOperations ==
  ASSUME TypeOK, Upsert \/ Delete \/ MutatePayload
  PROVE  \E op \in Operation : BeginWrite /\ AppendRecord(op)
BY OperationsType DEF Upsert, Delete, MutatePayload

LEMMA DyingAppendsOperation ==
  ASSUME TypeOK, DieBeforeWalFsync
  PROVE  \E op \in Operation : wal' = Append(wal, op)
BY OperationsType DEF DieBeforeWalFsync

-----------------------------------------------------------------------------
(***************************************************************************)
(* Type correctness holds of every configuration, safe or not.             *)
(***************************************************************************)
LEMMA InitType == Init => TypeOK
<1> SUFFICES ASSUME Init PROVE TypeOK
  OBVIOUS
<1>1. EmptySegment \in Segment
  BY EmptySegmentType
<1>2. root \in Root
  BY DEF Init, Root
<1>3. flush \in FlushState /\ opt \in OptState
  BY DEF Init, FlushState, OptState
<1> QED BY <1>1, <1>2, <1>3 DEF Init, TypeOK

LEMMA NextType == TypeOK /\ [Next]_vars => TypeOK'
<1> SUFFICES ASSUME TypeOK, [Next]_vars PROVE TypeOK'
  OBVIOUS
<1> USE EmptySegmentType
<1>1. CASE Upsert \/ Delete \/ MutatePayload
  <2>1. PICK op \in Operation : AppendRecord(op)
    BY <1>1, WritesAppendOperations
  <2>2. wal' \in Seq(Operation) /\ Len(wal') = Len(wal) + 1
    BY <2>1 DEF AppendRecord, TypeOK
  <2>3. synced' \in 0 .. Len(wal')
    BY <2>1, <2>2 DEF AppendRecord, SyncedAfterAppend, TypeOK
  <2>4. unacked' \in SUBSET (1 .. Len(wal'))
    BY <2>1, <2>2 DEF AppendRecord, TypeOK
  <2> QED BY <2>1, <2>2, <2>3, <2>4 DEF AppendRecord, NextSequence, TypeOK
<1>2. CASE Apply
  <2>1. writer \in Nat \ {0} /\ wal[writer] \in Operation
    BY <1>2 DEF Apply, TypeOK
  <2>2. mutable' \in Segment
    BY <1>2, <2>1, ApplyRecordType DEF Apply, TypeOK
  <2> QED BY <1>2, <2>2 DEF Apply, TypeOK, disk
<1>3. CASE WriteRaises
  <2>1. unacked' \in SUBSET (1 .. Len(wal'))
    BY <1>3 DEF WriteRaises, TypeOK, disk
  <2> QED BY <1>3, <2>1 DEF WriteRaises, TypeOK, disk
<1>4. CASE FlushWrite
  <2>1. flush' \in FlushState
    BY <1>4 DEF FlushWrite, FlushState
  <2> QED BY <1>4, <2>1 DEF FlushWrite, FlushedRecords, TypeOK
<1>5. CASE FlushPublish
  <2>1. flush.seg \in SegIds /\ flush' \in FlushState
    BY <1>5 DEF FlushPublish, TypeOK, FlushState, NoFlush, Idle
  <2>2. root' \in Root
    BY <1>5, <2>1 DEF FlushPublish, FlushManifest, TypeOK, Root
  <2> QED BY <1>5, <2>1, <2>2 DEF FlushPublish, TypeOK
<1>6. CASE FlushInstall
  <2>1. flush.seg \in SegIds /\ flush' \in FlushState
    BY <1>6 DEF FlushInstall, TypeOK, FlushState, NoFlush, Idle
  <2>2. manifest' \in Root
    BY <1>6, <2>1 DEF FlushInstall, FlushManifest, TypeOK, Root
  <2> QED BY <1>6, <2>1, <2>2 DEF FlushInstall, TypeOK, disk
<1>7. CASE FlushRaises
  <2>1. flush' \in FlushState
    BY <1>7 DEF FlushRaises, FlushState
  <2> QED BY <1>7, <2>1 DEF FlushRaises, TypeOK, disk
<1>8. CASE OptimizeCapture
  <2>1. opt' \in OptState
    BY <1>8, VisibleType DEF OptimizeCapture, OptState, TypeOK
  <2> QED BY <1>8, <2>1 DEF OptimizeCapture, TypeOK, disk
<1>9. CASE OptimizeWrite
  <2>1. opt.captured \in Segment /\ opt.boundary \in Nat
    BY <1>9 DEF OptimizeWrite, TypeOK, OptState, NoOpt, Idle
  <2>2. DropTombstones(opt.captured) \in Segment
    BY <2>1, DropTombstonesType
  <2>3. opt' \in OptState
    BY <1>9, <2>1 DEF OptimizeWrite, OptState
  <2> QED BY <1>9, <2>2, <2>3 DEF OptimizeWrite, TypeOK
<1>10. CASE OptimizePublish
  <2>1. opt.seg \in SegIds /\ opt.boundary \in Nat /\ opt' \in OptState
    BY <1>10 DEF OptimizePublish, TypeOK, OptState, NoOpt, Idle
  <2>2. root' \in Root
    BY <1>10, <2>1 DEF OptimizePublish, OptimizeManifest, Root
  <2> QED BY <1>10, <2>1, <2>2 DEF OptimizePublish, TypeOK
<1>11. CASE OptimizeInstall
  <2>1. opt.seg \in SegIds /\ opt.boundary \in Nat /\ opt' \in OptState
    BY <1>11 DEF OptimizeInstall, TypeOK, OptState, NoOpt, Idle
  <2>2. manifest' \in Root
    BY <1>11, <2>1 DEF OptimizeInstall, OptimizeManifest, Root
  <2>3. mutable' \in Segment
    BY <1>11, <2>1, NewerThanType DEF OptimizeInstall, LateRecords, TypeOK
  <2>4. retired' \in SUBSET SegIds
    BY <1>11 DEF OptimizeInstall, Sources, TypeOK, Root, ToSet
  <2> QED BY <1>11, <2>1, <2>2, <2>3, <2>4 DEF OptimizeInstall, TypeOK, disk
<1>12. CASE OptimizeRaises
  <2>1. opt' \in OptState
    BY <1>12 DEF OptimizeRaises, OptState
  <2>2. dirs' \in SUBSET SegIds /\ image' \in [SegIds -> Segment]
    BY <1>12 DEF OptimizeRaises, TypeOK
  <2> QED BY <1>12, <2>1, <2>2 DEF OptimizeRaises, TypeOK
<1>13. ASSUME NEW s \in SegIds, Reclaim(s) PROVE TypeOK'
  BY <1>13 DEF Reclaim, TypeOK
<1>14. ASSUME ForgetMemory
       PROVE  /\ manifest' \in Root /\ flush' \in FlushState /\ opt' \in OptState
              /\ status' = "down" /\ mutable' \in Segment /\ replayed' \in Nat
              /\ writer' = 0 /\ retired' = {}
  BY <1>14 DEF ForgetMemory, Root, FlushState, OptState
<1>15. CASE Close
  BY <1>14, <1>15 DEF Close, TypeOK
<1>16. CASE ProcessCrash
  <2>1. unacked' \in SUBSET (1 .. Len(wal))
    BY <1>16 DEF ProcessCrash, TypeOK
  <2> QED BY <1>14, <1>16, <2>1 DEF ProcessCrash, TypeOK, disk
<1>22. CASE DieBeforeWalFsync
  <2>1. wal' \in Seq(Operation) /\ Len(wal') = Len(wal) + 1
    BY <1>22, DyingAppendsOperation DEF TypeOK
  <2>2. synced \in 0 .. Len(wal')
    BY <2>1 DEF TypeOK
  <2>3. unacked' = unacked \cup {Len(wal) + 1}
    BY <1>22 DEF DieBeforeWalFsync, NextSequence
  <2>4. unacked' \in SUBSET (1 .. Len(wal'))
    <3>1. Len(wal) \in Nat /\ unacked \in SUBSET (1 .. Len(wal))
      BY DEF TypeOK
    <3>2. \A k \in 1 .. Len(wal) : k \in 1 .. Len(wal')
      BY <2>1, <3>1
    <3>3. Len(wal) + 1 \in 1 .. Len(wal')
      BY <2>1, <3>1
    <3> QED BY <2>3, <3>1, <3>2, <3>3
  <2> QED BY <1>14, <1>22, <2>1, <2>2, <2>4 DEF DieBeforeWalFsync, TypeOK
<1>17. CASE HostCrash
  <2>1. PICK n \in synced .. Len(wal) :
          /\ wal' = SubSeq(wal, 1, n)
          /\ synced' = n
          /\ unacked' = (unacked \cup ({writer} \ {0})) \cap (1 .. n)
    BY <1>17 DEF HostCrash
  <2>2. wal' \in Seq(Operation) /\ Len(wal') = n
    BY <2>1 DEF TypeOK
  <2>3. root' \in Root
    BY <1>17 DEF HostCrash, TypeOK
  <2>4. unacked' \in SUBSET (1 .. Len(wal')) /\ synced' \in 0 .. Len(wal')
    BY <2>1, <2>2 DEF TypeOK
  <2> QED BY <1>14, <1>17, <2>2, <2>3, <2>4 DEF HostCrash, TypeOK
<1>18. CASE Open
  BY <1>18 DEF Open, ReplayFrom, TypeOK, Root, disk
<1>19. CASE Replay
  <2>1. replayed' \in Nat \ {0} /\ wal[replayed'] \in Operation
    BY <1>19 DEF Replay, TypeOK
  <2>2. mutable' \in Segment
    BY <1>19, <2>1, ApplyRecordType DEF Replay, TypeOK
  <2> QED BY <1>19, <2>1, <2>2 DEF Replay, TypeOK, disk
<1>20. CASE Opened
  BY <1>20 DEF Opened, TypeOK, disk
<1>21. CASE UNCHANGED vars
  BY <1>21 DEF TypeOK, vars, disk, memory
<1> QED
  BY <1>1, <1>2, <1>3, <1>4, <1>5, <1>6, <1>7, <1>8, <1>9, <1>10, <1>11, <1>12,
     <1>13, <1>15, <1>16, <1>17, <1>18, <1>19, <1>20, <1>21, <1>22 DEF Next

\* Every variable keeps its type, whatever the durability, the crashes and the
\* faults.
THEOREM TypeCorrect == Spec => []TypeOK
BY InitType, NextType, PTL DEF Spec

-----------------------------------------------------------------------------
(***************************************************************************)
(* Directories, in every configuration: whatever raises and whatever a     *)
(* host crash loses, the directories in use exist.                         *)
(***************************************************************************)
\* The directories CURRENT names are those of memory or the one just built, and
\* none of them waits to be deleted.
LEMMA RootNotRetired ==
  ASSUME DiskInv
  PROVE  /\ ToSet(root.segs) \subseteq dirs
         /\ ToSet(root.segs) \cap retired = {}
<1>1. CASE status = "down"
  BY <1>1 DEF DiskInv, OnlyOpenIsBusy, RootOnDisk
<1>2. CASE status # "down" /\ flush.phase = "published"
  <2>1. root = FlushManifest /\ manifest \in Root /\ flush.seg \notin retired
    BY <1>2 DEF DiskInv, RootInMemory, FlushOwns, Unused, TypeOK, Idle
  <2>2. ToSet(root.segs) \subseteq ToSet(manifest.segs) \cup {flush.seg}
    BY <2>1 DEF FlushManifest, ToSet, Root
  <2> QED BY <2>1, <2>2 DEF DiskInv, RootOnDisk, InUse
<1>3. CASE status # "down" /\ opt.phase = "published"
  <2>1. root = OptimizeManifest /\ opt.seg \notin retired
    BY <1>3 DEF DiskInv, RootInMemory, OptOwns, Unused
  <2>2. ToSet(root.segs) = {opt.seg}
    BY <2>1 DEF OptimizeManifest, ToSet
  <2> QED BY <2>1, <2>2 DEF DiskInv, RootOnDisk
<1>4. CASE status # "down" /\ flush.phase # "published" /\ opt.phase # "published"
  BY <1>4 DEF DiskInv, RootInMemory, RootOnDisk, InUse
<1> QED BY <1>1, <1>2, <1>3, <1>4

LEMMA DiskInit == Init => DiskInv
<1> SUFFICES ASSUME Init PROVE DiskInv
  OBVIOUS
<1> QED
  BY InitType DEF Init, DiskInv, RootOnDisk, InUse, ToSet, RootInMemory, FlushOwns, OptOwns,
                  OnlyOpenIsBusy, NoFlush, NoOpt, Idle

LEMMA DiskNext ==
  ASSUME DiskInv, [Next]_vars
  PROVE  DiskInv'
<1> USE DEF NoFlush, NoOpt, Idle
<1>1. TypeOK'
  BY NextType DEF DiskInv
<1>2. ASSUME Upsert \/ Delete \/ MutatePayload PROVE DiskInv'
  <2>1. /\ status = "open" /\ flush.phase = "idle" /\ opt.phase # "published"
        /\ UNCHANGED <<dirs, root, durable, status, manifest, flush, opt, retired>>
    BY <1>2, WritesAppendOperations
    DEF DiskInv, BeginWrite, UpdateLockFree, AppendRecord
  <2> QED BY <1>1, <2>1 DEF DiskInv, RootOnDisk, RootInMemory, FlushOwns, OptOwns, Unused, InUse,
                            OnlyOpenIsBusy
<1>3. CASE Apply \/ WriteRaises
  <2>1. /\ status = "open"
        /\ UNCHANGED <<wal, dirs, root, durable, status, manifest, flush, opt, retired>>
    BY <1>3 DEF Apply, WriteRaises, disk, DiskInv, OnlyOpenIsBusy
  <2> QED BY <1>1, <2>1 DEF DiskInv, RootOnDisk, RootInMemory, FlushOwns, OptOwns, Unused, InUse,
                            OnlyOpenIsBusy, FlushManifest, OptimizeManifest
<1>4. CASE FlushWrite
  <2>1. PICK s \in SegIds \ dirs : /\ dirs' = dirs \cup {s}
                                   /\ flush' = [phase |-> "written", seg |-> s]
    BY <1>4 DEF FlushWrite
  <2>2. /\ status = "open" /\ opt.phase = "idle" /\ flush.phase = "idle"
        /\ UNCHANGED <<root, durable, status, manifest, opt, retired>>
    BY <1>4 DEF FlushWrite, OptimizerLockFree
  <2>3. s \in Unused' /\ ToSet(manifest.segs) \cup retired \subseteq dirs
    BY <2>1, <2>2 DEF DiskInv, RootOnDisk, Unused, InUse
  <2> QED BY <1>1, <2>1, <2>2, <2>3
          DEF DiskInv, RootOnDisk, InUse, RootInMemory, FlushOwns, OptOwns, OnlyOpenIsBusy
<1>5. CASE FlushPublish
  <2>1. /\ status = "open" /\ flush.phase = "written" /\ opt.phase = "idle"
        /\ UNCHANGED <<wal, dirs, durable, status, manifest, opt, retired>>
        /\ root' = FlushManifest /\ flush.seg \in Unused /\ manifest \in Root
        /\ flush'.phase = "published" /\ flush'.seg = flush.seg
    BY <1>5 DEF FlushPublish, DiskInv, OnlyOpenIsBusy, FlushOwns, TypeOK, FlushState
  <2>2. ToSet(Append(manifest.segs, flush.seg)) \subseteq ToSet(manifest.segs) \cup {flush.seg}
    BY <2>1 DEF ToSet, Root
  <2>3. RootOnDisk'
    BY <2>1, <2>2 DEF DiskInv, RootOnDisk, FlushManifest, Unused, InUse
  <2>4. FlushManifest' = FlushManifest
    BY <2>1 DEF FlushManifest
  <2> QED BY <1>1, <2>1, <2>3, <2>4
          DEF DiskInv, RootInMemory, FlushOwns, OptOwns, Unused, InUse, OnlyOpenIsBusy
<1>6. CASE FlushInstall
  <2>1. /\ status = "open" /\ flush.phase = "published" /\ opt.phase = "idle"
        /\ UNCHANGED <<dirs, root, status, writer, opt, retired>> /\ durable' = root
        /\ manifest' = FlushManifest /\ root = FlushManifest /\ flush' = NoFlush
    BY <1>6 DEF FlushInstall, DiskInv, OnlyOpenIsBusy, FlushOwns, RootInMemory, disk
  <2>2. RootOnDisk'
    BY <2>1, RootNotRetired DEF DiskInv, RootOnDisk, InUse
  <2> QED BY <1>1, <2>1, <2>2
          DEF DiskInv, RootInMemory, FlushOwns, OptOwns, OnlyOpenIsBusy
<1>7. CASE FlushRaises
  <2>1. /\ status = "open" /\ flush.phase = "written" /\ opt.phase = "idle"
        /\ UNCHANGED <<dirs, root, durable, status, manifest, opt, retired>> /\ flush' = NoFlush
    BY <1>7 DEF FlushRaises, DiskInv, OnlyOpenIsBusy, FlushOwns, disk
  <2> QED BY <1>1, <2>1
          DEF DiskInv, RootOnDisk, InUse, RootInMemory, FlushOwns, OptOwns, OnlyOpenIsBusy
<1>8. CASE OptimizeCapture
  <2>1. /\ status = "open" /\ flush.phase = "idle" /\ opt.phase = "idle"
        /\ UNCHANGED <<dirs, root, durable, status, manifest, flush, retired>>
        /\ opt'.phase = "captured"
    BY <1>8 DEF OptimizeCapture, OptimizerLockFree, disk
  <2> QED BY <1>1, <2>1
          DEF DiskInv, RootOnDisk, InUse, RootInMemory, FlushOwns, OptOwns, OnlyOpenIsBusy
<1>9. CASE OptimizeWrite
  <2>1. PICK s \in SegIds \ dirs : dirs' = dirs \cup {s} /\ opt'.seg = s
    BY <1>9 DEF OptimizeWrite
  <2>2. /\ status = "open" /\ flush.phase = "idle"
        /\ opt.phase = "captured" /\ opt'.phase = "written"
        /\ UNCHANGED <<root, durable, status, manifest, flush, retired>>
    BY <1>9 DEF OptimizeWrite, DiskInv, OnlyOpenIsBusy, FlushOwns
  <2>3. s \in Unused' /\ ToSet(manifest.segs) \cup retired \subseteq dirs
    BY <2>1, <2>2 DEF DiskInv, RootOnDisk, Unused, InUse
  <2> QED BY <1>1, <2>1, <2>2, <2>3
          DEF DiskInv, RootOnDisk, InUse, RootInMemory, FlushOwns, OptOwns, OnlyOpenIsBusy
<1>10. CASE OptimizePublish
  <2>1. /\ status = "open" /\ flush.phase = "idle" /\ opt.phase = "written"
        /\ UNCHANGED <<dirs, durable, status, manifest, flush, retired>>
        /\ root' = OptimizeManifest /\ opt.seg \in Unused
        /\ opt'.phase = "published" /\ opt'.seg = opt.seg /\ opt'.boundary = opt.boundary
    BY <1>10 DEF OptimizePublish, MayPublish, UpdateLockFree, DiskInv, OnlyOpenIsBusy, OptOwns,
                 TypeOK, OptState
  <2>2. ToSet(root'.segs) = {opt.seg}
    BY <2>1 DEF OptimizeManifest, ToSet
  <2>3. OptimizeManifest' = OptimizeManifest
    BY <2>1 DEF OptimizeManifest
  <2> QED BY <1>1, <2>1, <2>2, <2>3
          DEF DiskInv, RootOnDisk, RootInMemory, FlushOwns, OptOwns, Unused, InUse, OnlyOpenIsBusy
<1>11. CASE OptimizeInstall
  <2>1. /\ status = "open" /\ flush.phase = "idle" /\ opt.phase = "published"
        /\ UNCHANGED <<dirs, root, status, flush>> /\ durable' = root
        /\ manifest' = OptimizeManifest /\ root = OptimizeManifest /\ opt.seg \in Unused
        /\ retired' = retired \cup ToSet(manifest.segs) /\ opt' = NoOpt
    BY <1>11 DEF OptimizeInstall, Sources, DiskInv, OnlyOpenIsBusy, FlushOwns, OptOwns,
                 RootInMemory, disk
  <2>2. ToSet(root.segs) = {opt.seg}
    BY <2>1 DEF OptimizeManifest, ToSet
  <2> QED BY <1>1, <2>1, <2>2
          DEF DiskInv, RootOnDisk, RootInMemory, FlushOwns, OptOwns, Unused, InUse, OnlyOpenIsBusy
<1>12. CASE OptimizeRaises
  <2>1. /\ status = "open" /\ flush.phase = "idle" /\ root = manifest
        /\ UNCHANGED <<root, durable, status, manifest, flush, retired>> /\ opt' = NoOpt
    BY <1>12 DEF OptimizeRaises, BuiltNotPublished, DiskInv, OnlyOpenIsBusy, FlushOwns, RootInMemory
  <2>2. dirs' = dirs \/ (dirs' = dirs \ {opt.seg} /\ opt.seg \in Unused)
    BY <1>12 DEF OptimizeRaises, BuiltNotPublished, DiskInv, OptOwns
  <2> QED BY <1>1, <2>1, <2>2
          DEF DiskInv, RootOnDisk, RootInMemory, FlushOwns, OptOwns, Unused, InUse, OnlyOpenIsBusy
<1>13. ASSUME NEW s \in SegIds, Reclaim(s) PROVE DiskInv'
  <2>1. /\ s \in retired /\ retired' = retired \ {s} /\ dirs' = dirs \ {s}
        /\ UNCHANGED <<wal, root, durable, status, manifest, mutable, writer, flush, opt>>
    BY <1>13 DEF Reclaim
  <2>2. s \notin ToSet(root.segs)
    BY <2>1, RootNotRetired
  <2> QED BY <1>1, <2>1, <2>2
          DEF DiskInv, RootOnDisk, RootInMemory, FlushOwns, OptOwns, Unused, InUse, OnlyOpenIsBusy,
              FlushManifest, OptimizeManifest
<1>14. CASE Close \/ ProcessCrash \/ DieBeforeWalFsync \/ HostCrash
  <2>1. /\ ForgetMemory /\ dirs' = dirs
        /\ root' \in {root, durable} /\ durable' \in {root, durable}
    BY <1>14 DEF Close, ProcessCrash, DieBeforeWalFsync, HostCrash, disk
  <2>2. ToSet(manifest'.segs) = {}
    BY <2>1 DEF ForgetMemory, ToSet
  <2> QED BY <1>1, <2>1, <2>2, RootNotRetired
          DEF DiskInv, RootOnDisk, InUse, RootInMemory, FlushOwns, OptOwns, OnlyOpenIsBusy,
              ForgetMemory
<1>15. CASE Open
  <2>1. /\ status = "down" /\ status' = "recovering" /\ manifest' = root
        /\ UNCHANGED <<dirs, root, durable, writer, flush, opt, retired>>
    BY <1>15 DEF Open, disk
  <2> QED BY <1>1, <2>1, RootNotRetired
          DEF DiskInv, RootOnDisk, InUse, RootInMemory, FlushOwns, OptOwns, OnlyOpenIsBusy
<1>16. CASE Replay \/ Opened
  <2>1. /\ status = "recovering" /\ status' \in {"recovering", "open"}
        /\ UNCHANGED <<wal, dirs, root, durable, manifest, writer, flush, opt, retired>>
    BY <1>16 DEF Replay, Opened, disk
  <2> QED BY <1>1, <2>1
          DEF DiskInv, RootOnDisk, InUse, RootInMemory, FlushOwns, OptOwns, OnlyOpenIsBusy

<1>17. CASE UNCHANGED vars
  BY <1>1, <1>17
  DEF DiskInv, RootOnDisk, RootInMemory, FlushOwns, OptOwns, Unused, InUse, OnlyOpenIsBusy,
      FlushManifest, OptimizeManifest, vars, disk, memory
<1> QED
  BY <1>2, <1>3, <1>4, <1>5, <1>6, <1>7, <1>8, <1>9, <1>10, <1>11, <1>12, <1>13, <1>14,
     <1>15, <1>16, <1>17 DEF Next

\* Whatever the durability, the crashes and the faults, every directory CURRENT
\* names or a running collection reads exists and none is waiting to be deleted,
\* so that open() always finds the segments of its root.
THEOREM DirectoriesExist == Spec => []RootOnDisk
<1>1. DiskInv /\ [Next]_vars => DiskInv'
  BY DiskNext
<1>2. DiskInv => RootOnDisk
  BY DEF DiskInv
<1> QED BY <1>1, <1>2, DiskInit, PTL DEF Spec

-----------------------------------------------------------------------------
(***************************************************************************)
(* The inductive invariant.  Two facts carry a root across a step: it goes *)
(* on representing its prefix while its directories and the prefix stay as *)
(* they are, and segments followed by the tail of the log represent all.   *)
(***************************************************************************)
LEMMA RepresentsStable ==
  ASSUME NEW r \in Root, Represents(r), Len(wal) \in Nat, Len(wal') \in Nat,
         r.boundary <= Len(wal'),
         \A k \in 1 .. r.boundary : wal'[k] = wal[k],
         \A s \in ToSet(r.segs) : image'[s] = image[s]
  PROVE  Covers(Latest([i \in DOMAIN r.segs |-> image'[r.segs[i]]]), wal', r.boundary)
<1>1. [i \in DOMAIN r.segs |-> image'[r.segs[i]]] = Images(r.segs)
  BY DEF Images, ToSet
<1>2. r.boundary \in Nat
  BY DEF Root
<1> QED BY <1>1, <1>2, CoversOfPrefix DEF Represents

\* What a flush publishes, what an optimize captures and what readers see.
LEMMA TailCompletes ==
  ASSUME TypeOK, NEW r \in Root, Represents(r)
  PROVE  Covers(Latest(Append(Images(r.segs), Slice(wal, r.boundary, Len(wal)))),
                wal, Len(wal))
<1>1. Images(r.segs) \in Seq(Segment)
  BY ImagesType DEF TypeOK, Root
<1>2. r.boundary \in Nat /\ Len(wal) \in r.boundary .. Len(wal)
  BY DEF Represents, Root, TypeOK
<1> QED BY <1>1, <1>2, CoversOverlay DEF Represents, TypeOK

LEMMA InitInv == Init => IInv
<1> SUFFICES ASSUME Init PROVE IInv
  OBVIOUS
<1>1. DiskInv
  BY DiskInit
<1>2. Images(<<>>) = <<>>
  BY DEF Images
<1>3. Represents(root) /\ Represents(durable) /\ Represents(manifest)
  BY <1>2, CoversNothing DEF Init, Represents
<1>4. MutableHoldsTail
  BY SliceEmpty DEF Init, MutableHoldsTail, Applied
<1> QED
  BY <1>1, <1>3, <1>4
  DEF Init, IInv, AlwaysSynced, BoundaryRepresented, MemoryRepresents, FlushHolds,
      OptHolds, NoFlush, NoOpt

\* Appending to the log leaves the roots as good as they were.
LEMMA BoundaryOfLongerLog ==
  ASSUME IInv, UNCHANGED <<image, root, durable>>, Len(wal') = Len(wal) + 1,
         \A k \in 1 .. Len(wal) : wal'[k] = wal[k]
  PROVE  BoundaryRepresented'
<1>1. ASSUME NEW r \in {root, durable}
      PROVE  /\ r.boundary <= Len(wal')
             /\ Covers(Latest([i \in DOMAIN r.segs |-> image'[r.segs[i]]]), wal', r.boundary)
  <2>1. Len(wal) \in Nat /\ r \in Root /\ Represents(r)
    BY DEF IInv, DiskInv, TypeOK, BoundaryRepresented
  <2>2. r.boundary \in Nat /\ r.boundary <= Len(wal)
    BY <2>1 DEF Root, Represents
  <2> QED BY <2>1, <2>2, RepresentsStable
<1> QED BY <1>1 DEF BoundaryRepresented, Represents, Images

LEMMA WritePreserves ==
  ASSUME LogIsKept, IInv, DiskInv', NEW op \in Operation, BeginWrite, AppendRecord(op)
  PROVE  IInv'
<1>1. /\ status = "open" /\ writer = 0 /\ flush.phase = Idle /\ opt.phase # "published"
      /\ UNCHANGED <<dirs, image, root, durable, status, manifest, mutable, replayed, flush,
                     opt, retired, unacked>>
      /\ writer' = Len(wal) + 1
  BY DEF BeginWrite, UpdateLockFree, AppendRecord, NextSequence
<1>2. /\ Len(wal) \in Nat
      /\ Len(wal') = Len(wal) + 1
      /\ \A k \in 1 .. Len(wal) : wal'[k] = wal[k]
  BY DEF AppendRecord, IInv, DiskInv, TypeOK
<1>3. AlwaysSynced'
  BY <1>2 DEF AppendRecord, SyncedAfterAppend, AlwaysSynced, LogIsKept
<1>4. BoundaryRepresented'
  BY <1>1, <1>2, BoundaryOfLongerLog
<1>5. manifest \in Root /\ manifest.boundary \in Nat /\ Represents(manifest)
  BY <1>1 DEF IInv, DiskInv, TypeOK, Root, MemoryRepresents
<1>6. manifest.boundary <= Len(wal)
  BY <1>5 DEF Represents
<1>7. MemoryRepresents'
  <2>1. Covers(Latest([i \in DOMAIN manifest.segs |-> image'[manifest.segs[i]]]),
               wal', manifest.boundary)
    BY <1>1, <1>2, <1>5, <1>6, RepresentsStable
  <2> QED BY <1>1, <1>2, <1>5, <1>6, <2>1 DEF MemoryRepresents, Represents, Images
<1>8. MutableHoldsTail'
  <2>1. mutable = Slice(wal, manifest.boundary, Len(wal))
    BY <1>1 DEF IInv, DiskInv, MutableHoldsTail, Applied
  <2>6. \A k \in (manifest.boundary + 1) .. Len(wal) : wal'[k] = wal[k]
    BY <1>2, <1>5
  <2>2. Slice(wal', manifest.boundary, Len(wal)) = Slice(wal, manifest.boundary, Len(wal))
    BY <1>2, <1>5, <2>6, SliceOfPrefix
  <2>3. Applied' = Len(wal)
    BY <1>1, <1>2 DEF Applied
  <2>4. Len(wal) \in manifest.boundary .. Len(wal')
    BY <1>2, <1>5, <1>6
  <2> QED BY <1>1, <2>1, <2>2, <2>3, <2>4 DEF MutableHoldsTail
<1>9. OptHolds'
  <2>1. SUFFICES ASSUME opt.phase # Idle PROVE OptHolds'
    BY <1>1 DEF OptHolds
  <2>2. /\ opt.boundary \in manifest.boundary .. Len(wal)
        /\ opt.phase = "captured" => Covers(opt.captured, wal, opt.boundary)
        /\ opt.phase = "written" =>
             /\ opt.seg \in dirs \ (ToSet(manifest.segs) \cup retired)
             /\ Covers(image[opt.seg], wal, opt.boundary)
    BY <2>1 DEF IInv, DiskInv, OptHolds, OptOwns, Unused, InUse
  <2>3. opt.boundary \in Nat /\ \A k \in 1 .. opt.boundary : wal'[k] = wal[k]
    BY <1>2, <1>5, <2>2
  <2>4. opt.phase = "captured" => Covers(opt.captured, wal', opt.boundary)
    BY <2>2, <2>3, CoversOfPrefix
  <2>5. opt.phase = "written" => Covers(image[opt.seg], wal', opt.boundary)
    BY <2>2, <2>3, CoversOfPrefix
  <2> QED BY <1>1, <1>2, <1>5, <2>2, <2>3, <2>4, <2>5 DEF OptHolds
<1>10. FlushHolds'
  BY <1>1 DEF IInv, DiskInv, FlushHolds
<1> QED BY <1>3, <1>4, <1>7, <1>8, <1>9, <1>10 DEF IInv

LEMMA ApplyPreserves ==
  ASSUME IInv, DiskInv', Apply
  PROVE  IInv'
<1>1. /\ status = "open" /\ writer = Len(wal) /\ writer # 0 /\ writer' = 0
      /\ flush.phase = Idle /\ opt.phase # "published"
      /\ UNCHANGED <<disk, status, manifest, replayed, flush, opt, retired, unacked>>
      /\ mutable' = ApplyRecord(mutable, wal[writer], writer)
  BY DEF Apply, IInv, DiskInv, TypeOK, FlushHolds, OptHolds, OnlyOpenIsBusy, Idle
<1>2. UNCHANGED <<wal, synced, dirs, image, root, durable>>
  BY <1>1 DEF disk
<1>3. MutableHoldsTail'
  <2>1. /\ Len(wal) - 1 \in manifest.boundary .. Len(wal)
        /\ mutable = Slice(wal, manifest.boundary, Len(wal) - 1)
    BY <1>1 DEF IInv, DiskInv, MutableHoldsTail, Applied
  <2>2. manifest.boundary \in Nat /\ Len(wal) \in Nat /\ wal \in Seq(Operation)
    BY DEF IInv, DiskInv, TypeOK, Root
  <2>3. Slice(wal, manifest.boundary, (Len(wal) - 1) + 1)
          = ApplyRecord(mutable, wal[(Len(wal) - 1) + 1], (Len(wal) - 1) + 1)
    BY <2>1, <2>2, SliceStep
  <2>4. mutable' = Slice(wal, manifest.boundary, Len(wal))
    BY <1>1, <2>2, <2>3
  <2>5. Applied' = Len(wal)
    BY <1>1, <1>2 DEF Applied
  <2> QED BY <1>1, <1>2, <2>1, <2>2, <2>4, <2>5 DEF MutableHoldsTail
<1>4. AlwaysSynced' /\ BoundaryRepresented' /\ MemoryRepresents'
  BY <1>1, <1>2 DEF IInv, DiskInv, AlwaysSynced, BoundaryRepresented,
                    MemoryRepresents, Represents, Images
<1>5. FlushHolds'
  BY <1>1, <1>2 DEF IInv, DiskInv, FlushHolds
<1>6. OptHolds'
  BY <1>1, <1>2 DEF IInv, DiskInv, OptHolds
<1> QED BY <1>3, <1>4, <1>5, <1>6 DEF IInv

\* A step that leaves the log, the roots and their directories alone.
LEMMA RootsStable ==
  ASSUME IInv, wal' = wal, status' = status,
         root' = root, durable' = durable, manifest' = manifest,
         \A s \in ToSet(root.segs) \cup InUse : image'[s] = image[s]
  PROVE  BoundaryRepresented' /\ MemoryRepresents'
<1>1. ASSUME NEW r \in {root, durable, manifest}, Represents(r)
      PROVE  /\ r.boundary <= Len(wal')
             /\ Covers(Latest([i \in DOMAIN r.segs |-> image'[r.segs[i]]]), wal', r.boundary)
  <2>1. Len(wal) \in Nat /\ r \in Root
    BY DEF IInv, DiskInv, TypeOK
  <2>2. r.boundary \in Nat /\ r.boundary <= Len(wal)
    BY <1>1, <2>1 DEF Represents, Root
  <2>3. \A s \in ToSet(r.segs) : image'[s] = image[s]
    BY DEF InUse
  <2> QED BY <1>1, <2>1, <2>2, <2>3, RepresentsStable
<1>2. BoundaryRepresented'
  BY <1>1 DEF IInv, BoundaryRepresented, Represents, Images
<1>3. MemoryRepresents'
  BY <1>1 DEF IInv, MemoryRepresents, Represents, Images
<1> QED BY <1>2, <1>3

LEMMA FlushWritePreserves ==
  ASSUME IInv, DiskInv', FlushWrite
  PROVE  IInv'
<1>1. /\ status = "open" /\ writer = 0 /\ flush.phase = Idle /\ opt.phase = Idle
      /\ UNCHANGED <<wal, synced, root, durable, status, manifest, mutable, replayed, writer,
                     opt, retired, unacked>>
  BY DEF FlushWrite, UpdateLockFree, OptimizerLockFree
<1>2. PICK s \in SegIds \ dirs : /\ dirs' = dirs \cup {s}
                                 /\ image' = [image EXCEPT ![s] = mutable]
                                 /\ flush' = [phase |-> "written", seg |-> s]
  BY DEF FlushWrite, FlushedRecords
<1>3. /\ ToSet(root.segs) \cup InUse \cup retired \subseteq dirs
      /\ image \in [SegIds -> Segment]
      /\ dirs \subseteq SegIds
  BY DEF IInv, DiskInv, RootOnDisk, TypeOK
<1>4. \A d \in ToSet(root.segs) \cup InUse : image'[d] = image[d]
  BY <1>2, <1>3
<1>5. BoundaryRepresented' /\ MemoryRepresents'
  BY <1>1, <1>4, RootsStable
<1>6. AlwaysSynced' /\ MutableHoldsTail'
  BY <1>1, <1>2 DEF IInv, DiskInv, AlwaysSynced, MutableHoldsTail, Applied
<1>7. OptHolds'
  BY <1>1, <1>2 DEF IInv, DiskInv, OptHolds
<1>8. FlushHolds'
  BY <1>1, <1>2, <1>3 DEF FlushHolds
<1> QED BY <1>5, <1>6, <1>7, <1>8 DEF IInv

\* What flush wrote represents the whole log.
LEMMA FlushPublishPreserves ==
  ASSUME IInv, DiskInv', FlushPublish
  PROVE  IInv'
<1>1. /\ flush.phase = "written" /\ status = "open" /\ writer = 0 /\ opt.phase = Idle
      /\ UNCHANGED <<wal, synced, dirs, image, durable, status, manifest, mutable, replayed,
                     writer, opt, retired, unacked>>
      /\ root' = FlushManifest
      /\ flush' = [flush EXCEPT !.phase = "published"]
  BY DEF FlushPublish, IInv, DiskInv, FlushHolds, FlushOwns, OnlyOpenIsBusy, TypeOK, NoFlush, Idle
<1>2. /\ flush.seg \in dirs \ (ToSet(manifest.segs) \cup retired)
      /\ image[flush.seg] = mutable
  BY <1>1 DEF IInv, DiskInv, FlushHolds, FlushOwns, Unused, InUse, Idle
<1>3. /\ flush'.phase = "published" /\ flush'.seg = flush.seg
      /\ flush.seg \in SegIds /\ manifest \in Root /\ image \in [SegIds -> Segment]
      /\ wal \in Seq(Operation) /\ Len(wal) \in Nat
  BY <1>1, <1>2 DEF IInv, DiskInv, TypeOK, FlushState
<1>4. FlushManifest' = FlushManifest
  BY <1>1, <1>3 DEF FlushManifest
<1>5. BoundaryRepresented'
  <2>1. mutable = Slice(wal, manifest.boundary, Len(wal))
    BY <1>1 DEF IInv, DiskInv, MutableHoldsTail, Applied
  <2>2. Represents(manifest)
    BY <1>1 DEF IInv, DiskInv, MemoryRepresents
  <2>3. Covers(Latest(Append(Images(manifest.segs), mutable)), wal, Len(wal))
    BY <1>3, <2>1, <2>2, TailCompletes DEF IInv, DiskInv
  <2>4. Images(Append(manifest.segs, flush.seg)) = Append(Images(manifest.segs), mutable)
    BY <1>2, <1>3, ImagesAppend DEF Root
  <2>5. /\ root'.boundary = Len(wal)
        /\ [i \in DOMAIN root'.segs |-> image'[root'.segs[i]]]
             = Append(Images(manifest.segs), mutable)
    BY <1>1, <2>4 DEF FlushManifest, Images
  <2>6. Covers(Latest([i \in DOMAIN root'.segs |-> image'[root'.segs[i]]]),
               wal', root'.boundary)
    BY <1>1, <2>3, <2>5
  <2>7. Represents(durable)'
    BY <1>1 DEF IInv, BoundaryRepresented, Represents, Images
  <2> QED BY <1>1, <1>3, <2>5, <2>6, <2>7 DEF BoundaryRepresented, Represents, Images
<1>8. FlushHolds'
  BY <1>1, <1>2, <1>3 DEF FlushHolds
<1>9. AlwaysSynced' /\ MutableHoldsTail' /\ OptHolds'
  BY <1>1 DEF IInv, DiskInv, AlwaysSynced, MutableHoldsTail, Applied, OptHolds
<1>10. MemoryRepresents'
  BY <1>1 DEF IInv, DiskInv, MemoryRepresents, Represents, Images
<1> QED BY <1>5, <1>8, <1>9, <1>10 DEF IInv

LEMMA FlushInstallPreserves ==
  ASSUME IInv, DiskInv', FlushInstall
  PROVE  IInv'
<1>1. /\ flush.phase = "published" /\ status = "open" /\ writer = 0 /\ opt.phase = Idle
      /\ UNCHANGED <<wal, synced, dirs, image, root>> /\ durable' = root
      /\ UNCHANGED <<status, replayed, writer, opt, retired, unacked>>
      /\ manifest' = FlushManifest /\ mutable' = EmptySegment /\ flush' = NoFlush
  BY DEF FlushInstall, IInv, DiskInv, FlushHolds, FlushOwns, OnlyOpenIsBusy, TypeOK, NoFlush,
         Idle, disk
<1>2. root = FlushManifest /\ flush.seg \notin retired /\ manifest \in Root
  BY <1>1 DEF IInv, DiskInv, RootInMemory, FlushOwns, Unused, TypeOK, Idle
<1>3. MutableHoldsTail'
  <2>1. Len(wal) \in Nat /\ Slice(wal, Len(wal), Len(wal)) = EmptySegment
    BY SliceEmpty DEF IInv, DiskInv, TypeOK
  <2> QED BY <1>1, <2>1 DEF MutableHoldsTail, Applied, FlushManifest
<1>4. BoundaryRepresented' /\ MemoryRepresents'
  BY <1>1, <1>2 DEF IInv, DiskInv, BoundaryRepresented, MemoryRepresents, Represents, Images
<1>7. AlwaysSynced' /\ FlushHolds' /\ OptHolds'
  BY <1>1 DEF IInv, DiskInv, AlwaysSynced, FlushHolds, OptHolds, NoFlush
<1> QED BY <1>3, <1>4, <1>7 DEF IInv

LEMMA FlushRaisesPreserves ==
  ASSUME IInv, DiskInv', FlushRaises
  PROVE  IInv'
<1>1. /\ flush.phase = "written" /\ status = "open" /\ opt.phase = Idle
      /\ UNCHANGED <<wal, synced, dirs, image, root, durable>>
      /\ UNCHANGED <<status, manifest, mutable, replayed, writer, opt, retired, unacked>>
      /\ flush' = NoFlush
  BY DEF FlushRaises, IInv, DiskInv, FlushOwns, OnlyOpenIsBusy, TypeOK, NoFlush, Idle, disk
<1>2. BoundaryRepresented' /\ MemoryRepresents'
  BY <1>1 DEF IInv, DiskInv, BoundaryRepresented, MemoryRepresents, Represents, Images
<1>3. FlushHolds'
  BY <1>1 DEF IInv, DiskInv, FlushHolds, NoFlush
<1>4. AlwaysSynced' /\ MutableHoldsTail' /\ OptHolds'
  BY <1>1 DEF IInv, DiskInv, AlwaysSynced, MutableHoldsTail, Applied, OptHolds
<1> QED BY <1>2, <1>3, <1>4 DEF IInv

\* What readers see covers the whole log whenever no write is pending.
LEMMA VisibleCovers ==
  ASSUME IInv, status = "open", writer = 0
  PROVE  Covers(Visible, wal, Len(wal))
<1>1. mutable = Slice(wal, manifest.boundary, Len(wal))
  BY DEF IInv, DiskInv, MutableHoldsTail, Applied
<1>2. manifest \in Root /\ Represents(manifest)
  BY DEF IInv, DiskInv, TypeOK, MemoryRepresents
<1> QED BY <1>1, <1>2, TailCompletes DEF IInv, DiskInv, Visible

LEMMA OptimizeCapturePreserves ==
  ASSUME IInv, DiskInv', OptimizeCapture
  PROVE  IInv'
<1>1. /\ status = "open" /\ writer = 0 /\ flush.phase = Idle /\ opt.phase = Idle
      /\ UNCHANGED <<wal, synced, dirs, image, root, durable>>
      /\ UNCHANGED <<status, manifest, mutable, replayed, writer, flush, retired, unacked>>
      /\ opt' = [phase |-> "captured", captured |-> Visible, boundary |-> Len(wal)]
  BY DEF OptimizeCapture, UpdateLockFree, OptimizerLockFree, disk
<1>2. BoundaryRepresented' /\ MemoryRepresents'
  BY <1>1 DEF IInv, DiskInv, BoundaryRepresented, MemoryRepresents, Represents, Images
<1>3. OptHolds'
  <2>1. Covers(Visible, wal, Len(wal))
    BY <1>1, VisibleCovers
  <2>2. Len(wal) \in manifest.boundary .. Len(wal)
    BY <1>1 DEF IInv, DiskInv, MutableHoldsTail, Applied
  <2>3. opt'.phase = "captured" /\ opt'.captured = Visible /\ opt'.boundary = Len(wal)
    BY <1>1
  <2> QED BY <1>1, <2>1, <2>2, <2>3 DEF OptHolds
<1>4. AlwaysSynced' /\ MutableHoldsTail' /\ FlushHolds'
  BY <1>1 DEF IInv, DiskInv, AlwaysSynced, MutableHoldsTail, Applied,
              FlushHolds
<1> QED BY <1>2, <1>3, <1>4 DEF IInv

LEMMA OptimizeWritePreserves ==
  ASSUME IInv, DiskInv', OptimizeWrite
  PROVE  IInv'
<1>1. /\ opt.phase = "captured" /\ status = "open"
      /\ flush.phase = Idle
      /\ UNCHANGED <<wal, synced, root, durable, status, manifest, mutable, replayed, writer,
                     flush, retired, unacked>>
  BY DEF OptimizeWrite, IInv, DiskInv, FlushOwns, OnlyOpenIsBusy, TypeOK
<1>2. PICK s \in SegIds \ dirs :
        /\ dirs' = dirs \cup {s}
        /\ image' = [image EXCEPT ![s] = DropTombstones(opt.captured)]
        /\ opt' = [phase |-> "written", boundary |-> opt.boundary, seg |-> s]
  BY DEF OptimizeWrite
<1>3. /\ ToSet(root.segs) \cup InUse \cup retired \subseteq dirs
      /\ image \in [SegIds -> Segment] /\ dirs \subseteq SegIds
  BY DEF IInv, DiskInv, RootOnDisk, TypeOK
<1>4. \A d \in ToSet(root.segs) \cup InUse : image'[d] = image[d]
  BY <1>2, <1>3
<1>5. BoundaryRepresented' /\ MemoryRepresents'
  BY <1>1, <1>4, RootsStable
<1>6. OptHolds'
  <2>1. /\ opt.boundary \in manifest.boundary .. Len(wal)
        /\ Covers(opt.captured, wal, opt.boundary)
        /\ opt.captured \in Segment /\ opt.boundary \in Nat
    BY <1>1 DEF IInv, DiskInv, OptHolds, TypeOK, OptState, NoOpt, Idle
  <2>2. Covers(DropTombstones(opt.captured), wal, opt.boundary)
    BY <2>1, CoversDropTombstones
  <2>3. /\ opt'.phase = "written" /\ opt'.boundary = opt.boundary /\ opt'.seg = s
        /\ image'[s] = DropTombstones(opt.captured)
    BY <1>2, <1>3
  <2>4. s \in dirs' \ (ToSet(manifest.segs) \cup retired)
    BY <1>2, <1>3 DEF InUse
  <2> QED BY <1>1, <2>1, <2>2, <2>3, <2>4 DEF OptHolds
<1>7. AlwaysSynced' /\ MutableHoldsTail' /\ FlushHolds'
  BY <1>1, <1>2 DEF IInv, DiskInv, AlwaysSynced, MutableHoldsTail, Applied,
                    FlushHolds
<1> QED BY <1>5, <1>6, <1>7 DEF IInv

LEMMA OptimizePublishPreserves ==
  ASSUME IInv, DiskInv', OptimizePublish
  PROVE  IInv'
<1>1. /\ opt.phase = "written" /\ status = "open" /\ writer = 0 /\ flush.phase = Idle
      /\ UNCHANGED <<wal, synced, dirs, image, durable, status, manifest, mutable, replayed,
                     writer, flush, retired, unacked>>
      /\ root' = OptimizeManifest
      /\ opt' = [opt EXCEPT !.phase = "published"]
  BY DEF OptimizePublish, MayPublish, UpdateLockFree, IInv, DiskInv, OnlyOpenIsBusy, NoOpt
<1>2. /\ opt.boundary \in manifest.boundary .. Len(wal)
      /\ opt.seg \in dirs \ (ToSet(manifest.segs) \cup retired)
      /\ Covers(image[opt.seg], wal, opt.boundary)
  BY <1>1 DEF IInv, DiskInv, OptHolds, OptOwns, Unused, InUse, Idle
<1>3. /\ opt.seg \in SegIds /\ opt.boundary \in Nat
      /\ opt'.phase = "published" /\ opt'.seg = opt.seg /\ opt'.boundary = opt.boundary
      /\ image \in [SegIds -> Segment] /\ manifest \in Root /\ Len(wal) \in Nat
  BY <1>1 DEF IInv, DiskInv, TypeOK, OptState, NoOpt
<1>4. OptimizeManifest' = OptimizeManifest
  BY <1>3 DEF OptimizeManifest
<1>5. BoundaryRepresented'
  <2>1. [i \in DOMAIN <<opt.seg>> |-> image[<<opt.seg>>[i]]] = <<image[opt.seg]>>
    OBVIOUS
  <2>2. Latest(<<image[opt.seg]>>) = image[opt.seg]
    BY <1>3, LatestSingle
  <2>3. /\ root'.boundary = opt.boundary
        /\ [i \in DOMAIN root'.segs |-> image'[root'.segs[i]]] = <<image[opt.seg]>>
    BY <1>1, <2>1 DEF OptimizeManifest
  <2>4. opt.boundary <= Len(wal)
    BY <1>2, <1>3 DEF Root
  <2>5. Represents(durable)'
    BY <1>1 DEF IInv, BoundaryRepresented, Represents, Images
  <2> QED BY <1>1, <1>2, <2>2, <2>3, <2>4, <2>5 DEF BoundaryRepresented, Represents, Images
<1>8. OptHolds'
  BY <1>1, <1>2, <1>3 DEF OptHolds
<1>9. AlwaysSynced' /\ MutableHoldsTail' /\ FlushHolds'
  BY <1>1 DEF IInv, DiskInv, AlwaysSynced, MutableHoldsTail, Applied, FlushHolds
<1>10. MemoryRepresents'
  BY <1>1 DEF IInv, DiskInv, MemoryRepresents, Represents, Images
<1> QED BY <1>5, <1>8, <1>9, <1>10 DEF IInv

\* The records that arrived during the build are the tail after its boundary.
LEMMA OptimizeInstallPreserves ==
  ASSUME IInv, DiskInv', OptimizeInstall
  PROVE  IInv'
<1>1. /\ opt.phase = "published" /\ status = "open" /\ writer = 0 /\ flush.phase = Idle
      /\ UNCHANGED <<wal, synced, dirs, image, root>> /\ durable' = root
      /\ UNCHANGED <<status, replayed, writer, flush, unacked>>
      /\ manifest' = OptimizeManifest /\ mutable' = LateRecords
      /\ retired' = retired \cup ToSet(manifest.segs) /\ opt' = NoOpt
  BY DEF OptimizeInstall, Sources, IInv, DiskInv, FlushOwns, OptHolds, OnlyOpenIsBusy, NoOpt,
         Idle, disk
<1>2. /\ root = OptimizeManifest
      /\ opt.boundary \in manifest.boundary .. Len(wal)
      /\ opt.seg \in dirs \ (ToSet(manifest.segs) \cup retired)
  BY <1>1 DEF IInv, DiskInv, RootInMemory, OptHolds, OptOwns, Unused, InUse, Idle
<1>3. /\ manifest.boundary \in Nat /\ opt.boundary \in Nat /\ Len(wal) \in Nat
      /\ wal \in Seq(Operation) /\ manifest.boundary <= opt.boundary
      /\ opt.boundary <= Len(wal)
  BY <1>1, <1>2 DEF IInv, DiskInv, TypeOK, Root, OptState
<1>4. MutableHoldsTail'
  <2>1. mutable = Slice(wal, manifest.boundary, Len(wal))
    BY <1>1 DEF IInv, DiskInv, MutableHoldsTail, Applied
  <2>2. NewerThan(mutable, opt.boundary) = Slice(wal, opt.boundary, Len(wal))
    BY <1>3, <2>1, SliceNewer
  <2> QED BY <1>1, <1>3, <2>2 DEF MutableHoldsTail, Applied, LateRecords, OptimizeManifest
<1>5. BoundaryRepresented' /\ MemoryRepresents'
  BY <1>1, <1>2 DEF IInv, DiskInv, BoundaryRepresented, MemoryRepresents, Represents, Images
<1>8. AlwaysSynced' /\ FlushHolds' /\ OptHolds'
  BY <1>1 DEF IInv, DiskInv, AlwaysSynced, FlushHolds, OptHolds, NoOpt
<1> QED BY <1>4, <1>5, <1>8 DEF IInv

LEMMA OptimizeRaisesPreserves ==
  ASSUME IInv, DiskInv', OptimizeRaises
  PROVE  IInv'
<1>1. /\ opt.phase \in {"captured", "written"} /\ status = "open" /\ flush.phase = Idle
      /\ UNCHANGED <<wal, synced, root, durable, status, manifest, mutable, replayed, writer,
                     flush, retired, unacked>>
      /\ opt' = NoOpt
  BY DEF OptimizeRaises, BuiltNotPublished, IInv, DiskInv, FlushOwns, OnlyOpenIsBusy, NoOpt, Idle
<1>2. root = manifest
  BY <1>1 DEF IInv, DiskInv, RootInMemory, Idle
<1>3. /\ dirs' \in {dirs, dirs \ {opt.seg}}
      /\ dirs' # dirs => opt.seg \notin InUse \cup retired
      /\ \A d \in ToSet(root.segs) \cup InUse : image'[d] = image[d]
  <2>1. CASE opt.phase = "captured"
    BY <2>1 DEF OptimizeRaises, BuiltNotPublished
  <2>2. CASE opt.phase = "written"
    <3>1. /\ dirs' = dirs \ {opt.seg} /\ image' = [image EXCEPT ![opt.seg] = EmptySegment]
          /\ opt.seg \notin InUse \cup retired
      BY <2>2 DEF OptimizeRaises, IInv, DiskInv, OptOwns, Unused
    <3>2. \A d \in InUse : d \in DOMAIN image
      BY DEF IInv, DiskInv, RootOnDisk, TypeOK
    <3> QED BY <1>2, <3>1, <3>2 DEF InUse
  <2> QED BY <1>1, <2>1, <2>2
<1>4. BoundaryRepresented' /\ MemoryRepresents'
  BY <1>1, <1>3, RootsStable
<1>6. OptHolds'
  BY <1>1, <1>2 DEF IInv, DiskInv, OptHolds, NoOpt
<1>7. AlwaysSynced' /\ MutableHoldsTail' /\ FlushHolds'
  BY <1>1 DEF IInv, DiskInv, AlwaysSynced, MutableHoldsTail, Applied, FlushHolds
<1> QED BY <1>4, <1>6, <1>7 DEF IInv

LEMMA ReclaimPreserves ==
  ASSUME IInv, DiskInv', NEW s \in SegIds, Reclaim(s)
  PROVE  IInv'
<1>1. /\ s \in retired /\ status = "open"
      /\ retired' = retired \ {s} /\ dirs' = dirs \ {s}
      /\ image' = [image EXCEPT ![s] = EmptySegment]
      /\ UNCHANGED <<wal, synced, root, durable, status, manifest, mutable, replayed, writer,
                     flush, opt, unacked>>
  BY DEF Reclaim, IInv, DiskInv, OnlyOpenIsBusy
<1>2. s \notin ToSet(root.segs) \cup InUse
  BY <1>1, RootNotRetired DEF IInv, DiskInv, RootOnDisk
<1>3. \A d \in SegIds \ {s} : image'[d] = image[d]
  BY <1>1 DEF IInv, DiskInv, TypeOK
<1>4. ToSet(root.segs) \cup InUse \subseteq dirs /\ dirs \subseteq SegIds
  BY DEF IInv, DiskInv, RootOnDisk, TypeOK
<1>5. BoundaryRepresented' /\ MemoryRepresents'
  BY <1>1, <1>2, <1>3, <1>4, RootsStable
<1>7. FlushHolds'
  BY <1>1, <1>3, <1>4 DEF IInv, DiskInv, FlushHolds, FlushOwns, Unused
<1>8. OptHolds'
  BY <1>1, <1>3, <1>4 DEF IInv, DiskInv, OptHolds, OptOwns, Unused
<1>9. AlwaysSynced' /\ MutableHoldsTail'
  BY <1>1 DEF IInv, DiskInv, AlwaysSynced, MutableHoldsTail, Applied

<1> QED BY <1>5, <1>7, <1>8, <1>9 DEF IInv

-----------------------------------------------------------------------------
(***************************************************************************)
(* Stopping and starting.                                                  *)
(***************************************************************************)
\* Nothing is running in a collection that is down.
LEMMA DownHolds ==
  ASSUME ForgetMemory
  PROVE  MutableHoldsTail' /\ MemoryRepresents' /\ FlushHolds' /\ OptHolds'
BY DEF ForgetMemory, MutableHoldsTail, MemoryRepresents, FlushHolds,
       OptHolds, NoFlush, NoOpt

LEMMA StopPreserves ==
  ASSUME IInv, DiskInv', Close \/ ProcessCrash
  PROVE  IInv'
<1>1. UNCHANGED <<wal, dirs, image, root, durable>> /\ ForgetMemory
  BY DEF Close, ProcessCrash, disk
<1>2. AlwaysSynced'
  BY DEF Close, ProcessCrash, disk, IInv, DiskInv, AlwaysSynced
<1>3. BoundaryRepresented'
  BY <1>1 DEF IInv, BoundaryRepresented, Represents, Images
<1> QED BY <1>1, <1>2, <1>3, DownHolds DEF IInv

\* The frame a dying process leaves behind is after every boundary.
LEMMA DyingPreserves ==
  ASSUME LogIsKept, IInv, DiskInv', DieBeforeWalFsync
  PROVE  IInv'
<1>1. UNCHANGED <<synced, dirs, image, root, durable>> /\ ForgetMemory
  BY DEF DieBeforeWalFsync
<1>2. /\ Len(wal) \in Nat
      /\ Len(wal') = Len(wal) + 1
      /\ \A k \in 1 .. Len(wal) : wal'[k] = wal[k]
  <2>1. PICK op \in Operation : wal' = Append(wal, op)
    BY DyingAppendsOperation DEF IInv, DiskInv
  <2>2. wal \in Seq(Operation)
    BY DEF IInv, DiskInv, TypeOK
  <2> QED BY <2>1, <2>2
<1>3. BoundaryRepresented'
  BY <1>1, <1>2, BoundaryOfLongerLog
<1>4. AlwaysSynced'
  BY DEF DieBeforeWalFsync, LogIsKept, AlwaysSynced
<1> QED BY <1>1, <1>3, <1>4, DownHolds DEF IInv

\* A host crash loses no frame that was fsynced, and CURRENT goes back at most
\* to the root of its last directory fsync.
LEMMA HostCrashPreserves ==
  ASSUME LogIsKept, IInv, DiskInv', HostCrash
  PROVE  IInv'
<1>1. /\ UNCHANGED <<dirs, image>> /\ ForgetMemory
      /\ root' \in {root, durable} /\ durable' = root'
  BY DEF HostCrash
<1>2. wal' = wal /\ synced' = Len(wal)
  <2>1. PICK n \in synced .. Len(wal) : wal' = SubSeq(wal, 1, n) /\ synced' = n
    BY DEF HostCrash
  <2>2. synced = Len(wal) /\ wal \in Seq(Operation)
    BY DEF HostCrash, LogIsKept, IInv, DiskInv, AlwaysSynced, TypeOK
  <2>3. n = Len(wal)
    BY <2>1, <2>2
  <2> QED BY <2>1, <2>2, <2>3
<1>4. BoundaryRepresented'
  BY <1>1, <1>2 DEF IInv, BoundaryRepresented, Represents, Images
<1>6. AlwaysSynced'
  BY <1>2 DEF AlwaysSynced
<1> QED BY <1>1, <1>4, <1>6, DownHolds DEF IInv

LEMMA OpenPreserves ==
  ASSUME IInv, DiskInv', Open
  PROVE  IInv'
<1>1. /\ status = "down" /\ status' = "recovering" /\ manifest' = root
      /\ replayed' = root.boundary
      /\ UNCHANGED <<wal, synced, dirs, image, root, durable>>
      /\ UNCHANGED <<mutable, writer, flush, opt, retired, unacked>>
  BY DEF Open, ReplayFrom, disk
<1>2. /\ mutable = EmptySegment /\ writer = 0 /\ flush = NoFlush /\ opt = NoOpt
      /\ retired = {}
  BY <1>1 DEF IInv, DiskInv, OnlyOpenIsBusy
<1>3. BoundaryRepresented' /\ MemoryRepresents'
  BY <1>1 DEF IInv, DiskInv, BoundaryRepresented, MemoryRepresents, Represents, Images
<1>4. MutableHoldsTail'
  <2>1. root.boundary \in Nat /\ Len(wal) \in Nat /\ root.boundary <= Len(wal)
    BY DEF IInv, DiskInv, BoundaryRepresented, Represents, TypeOK, Root
  <2>2. Slice(wal, root.boundary, root.boundary) = EmptySegment
    BY <2>1, SliceEmpty
  <2> QED BY <1>1, <1>2, <2>1, <2>2 DEF MutableHoldsTail, Applied
<1>5. FlushHolds' /\ OptHolds'
  BY <1>1, <1>2 DEF FlushHolds, OptHolds, NoFlush, NoOpt
<1>6. AlwaysSynced'
  BY <1>1, <1>2 DEF IInv, DiskInv, AlwaysSynced
<1> QED BY <1>3, <1>4, <1>5, <1>6 DEF IInv

\* Replay adds the next record of the log to what the mutable segment holds.
LEMMA ReplayPreserves ==
  ASSUME IInv, DiskInv', Replay
  PROVE  IInv'
<1>1. /\ status = "recovering" /\ replayed < Len(wal) /\ replayed' = replayed + 1
      /\ UNCHANGED <<wal, synced, dirs, image, root, durable>>
      /\ UNCHANGED <<status, manifest, writer, flush, opt, retired, unacked>>
      /\ mutable' = ApplyRecord(mutable, wal[replayed + 1], replayed + 1)
  BY DEF Replay, disk
<1>2. MutableHoldsTail'
  <2>1. /\ replayed \in manifest.boundary .. Len(wal)
        /\ mutable = Slice(wal, manifest.boundary, replayed)
    BY <1>1 DEF IInv, DiskInv, MutableHoldsTail, Applied
  <2>2. /\ manifest.boundary \in Nat /\ replayed \in Nat /\ Len(wal) \in Nat
        /\ wal \in Seq(Operation)
    BY DEF IInv, DiskInv, TypeOK, Root
  <2>3. Slice(wal, manifest.boundary, replayed + 1)
          = ApplyRecord(mutable, wal[replayed + 1], replayed + 1)
    BY <1>1, <2>1, <2>2, SliceStep
  <2>4. Applied' = replayed + 1
    BY <1>1 DEF Applied
  <2> QED BY <1>1, <2>1, <2>2, <2>3, <2>4 DEF MutableHoldsTail
<1>3. BoundaryRepresented' /\ MemoryRepresents'
  BY <1>1 DEF IInv, DiskInv, BoundaryRepresented, MemoryRepresents, Represents, Images
<1>4. FlushHolds' /\ OptHolds'
  BY <1>1 DEF IInv, DiskInv, FlushHolds, OptHolds,
              OnlyOpenIsBusy, NoFlush
<1>5. AlwaysSynced'
  BY <1>1 DEF IInv, DiskInv, AlwaysSynced
<1> QED BY <1>2, <1>3, <1>4, <1>5 DEF IInv

LEMMA OpenedPreserves ==
  ASSUME IInv, DiskInv', Opened
  PROVE  IInv'
<1>1. /\ status = "recovering" /\ status' = "open" /\ replayed >= Len(wal)
      /\ UNCHANGED <<wal, synced, dirs, image, root, durable>>
      /\ UNCHANGED <<manifest, mutable, writer, flush, opt, retired, unacked>>
  BY DEF Opened, disk
<1>2. writer = 0 /\ flush = NoFlush /\ opt = NoOpt /\ retired = {}
  BY <1>1 DEF IInv, DiskInv, OnlyOpenIsBusy
<1>3. MutableHoldsTail'
  <2>1. /\ replayed \in manifest.boundary .. Len(wal)
        /\ mutable = Slice(wal, manifest.boundary, replayed)
    BY <1>1 DEF IInv, DiskInv, MutableHoldsTail, Applied
  <2>2. manifest.boundary \in Nat /\ Len(wal) \in Nat
    BY DEF IInv, DiskInv, TypeOK, Root
  <2>3. replayed = Len(wal)
    BY <1>1, <2>1, <2>2
  <2> QED BY <1>1, <1>2, <2>1, <2>3 DEF MutableHoldsTail, Applied
<1>4. BoundaryRepresented' /\ MemoryRepresents'
  BY <1>1 DEF IInv, DiskInv, BoundaryRepresented, MemoryRepresents, Represents, Images
<1>5. FlushHolds' /\ OptHolds'
  BY <1>1, <1>2 DEF IInv, DiskInv, FlushHolds,
                    OptHolds
<1>6. AlwaysSynced'
  BY <1>1 DEF IInv, DiskInv, AlwaysSynced
<1> QED BY <1>3, <1>4, <1>5, <1>6 DEF IInv

LEMMA StutterPreserves ==
  ASSUME IInv, DiskInv', UNCHANGED vars
  PROVE  IInv'
<1>1. UNCHANGED <<wal, synced, dirs, image, root, durable>>
  BY DEF vars, disk
<1>2. UNCHANGED <<status, manifest, mutable, replayed, writer, flush, opt, retired, unacked>>
  BY DEF vars, memory
<1>3. AlwaysSynced'
  BY <1>1, <1>2 DEF IInv, DiskInv, TypeOK, AlwaysSynced
<1>4. BoundaryRepresented' /\ MemoryRepresents'
  BY <1>1, <1>2 DEF IInv, DiskInv, BoundaryRepresented, MemoryRepresents, Represents, Images
<1>5. MutableHoldsTail' /\ FlushHolds' /\ OptHolds'
  BY <1>1, <1>2 DEF IInv, DiskInv, MutableHoldsTail, Applied,
                    FlushHolds, OptHolds
<1> QED BY <1>3, <1>4, <1>5 DEF IInv

LEMMA NextInv ==
  ASSUME LogIsKept, IInv, [Next]_vars
  PROVE  IInv'
<1>1. DiskInv'
  BY DiskNext DEF IInv
<1>2. CASE Upsert \/ Delete \/ MutatePayload
  <2>1. PICK op \in Operation : BeginWrite /\ AppendRecord(op)
    BY <1>2, WritesAppendOperations DEF IInv, DiskInv
  <2> QED BY <1>1, <2>1, WritePreserves
<1>3. CASE Apply
  BY <1>1, <1>3, ApplyPreserves
<1>4. CASE WriteRaises
  BY <1>4 DEF WriteRaises, LogIsKept
<1>5. CASE FlushWrite \/ FlushPublish \/ FlushInstall \/ FlushRaises
  BY <1>1, <1>5, FlushWritePreserves, FlushPublishPreserves, FlushInstallPreserves,
     FlushRaisesPreserves
<1>6. CASE OptimizeCapture \/ OptimizeWrite \/ OptimizePublish \/ OptimizeInstall
  BY <1>1, <1>6, OptimizeCapturePreserves, OptimizeWritePreserves,
     OptimizePublishPreserves, OptimizeInstallPreserves
<1>7. CASE OptimizeRaises \/ \E s \in SegIds : Reclaim(s)
  BY <1>1, <1>7, OptimizeRaisesPreserves, ReclaimPreserves
<1>8. CASE Close \/ ProcessCrash \/ DieBeforeWalFsync \/ HostCrash
  BY <1>1, <1>8, StopPreserves, DyingPreserves, HostCrashPreserves
<1>9. CASE Open \/ Replay \/ Opened
  BY <1>1, <1>9, OpenPreserves, ReplayPreserves, OpenedPreserves
<1>10. CASE UNCHANGED vars
  BY <1>1, <1>10, StutterPreserves
<1> QED BY <1>2, <1>3, <1>4, <1>5, <1>6, <1>7, <1>8, <1>9, <1>10 DEF Next

\* When no write raises after its append and no log is cut short, IInv holds of
\* every interleaving of writes, flushes, optimizes, reclamation and crashes.
THEOREM InductiveInvariant ==
  ASSUME LogIsKept
  PROVE  Spec => []IInv
<1>1. IInv /\ [Next]_vars => IInv'
  BY NextInv
<1> QED BY <1>1, InitInv, PTL DEF Spec

-----------------------------------------------------------------------------
(***************************************************************************)
(* What the invariant means to a client.                                   *)
(***************************************************************************)
LEMMA InvRecovery == IInv => RecoveryMatchesLog
<1> SUFFICES ASSUME IInv PROVE RecoveryMatchesLog
  OBVIOUS
<1>1. root \in Root /\ Represents(root) /\ TypeOK
  BY DEF IInv, DiskInv, TypeOK, BoundaryRepresented
<1>2. Covers(Recovered, wal, Len(wal))
  BY <1>1, TailCompletes DEF Recovered
<1>3. Len(wal) \in Nat
  BY <1>1 DEF TypeOK
<1> QED BY <1>2, <1>3, CoversLive DEF RecoveryMatchesLog, LogState

LEMMA InvReads == IInv => ReadsMatchLog
<1> SUFFICES ASSUME IInv, status = "open", writer = 0
             PROVE  Live(Visible) = Live(LogState(wal))
  BY DEF ReadsMatchLog
<1>1. Covers(Visible, wal, Len(wal))
  BY VisibleCovers
<1>2. Len(wal) \in Nat
  BY DEF IInv, DiskInv, TypeOK
<1> QED BY <1>1, <1>2, CoversLive DEF LogState

\* Whenever the process or the host stops, a restart recovers what the log
\* records.
THEOREM RecoveryCorrect ==
  ASSUME LogIsKept
  PROVE  Spec => []RecoveryMatchesLog
BY InductiveInvariant, InvRecovery, PTL

\* Reads see every write of the log and nothing else, whatever flush, optimize,
\* reclamation and recovery have done.
THEOREM ReadsCorrect ==
  ASSUME LogIsKept
  PROVE  Spec => []ReadsMatchLog
BY InductiveInvariant, InvReads, PTL

-----------------------------------------------------------------------------
(***************************************************************************)
(* The collection implements DurableMap.  While IInv holds the recovered   *)
(* contents are a function of the log alone, so they change only when a    *)
(* record is appended; what is served follows when the record is applied.  *)
(***************************************************************************)
LEMMA LiveType ==
  ASSUME NEW seg \in Segment
  PROVE  Live(seg) \in [Ids -> Contents]
BY DEF Live, Segment, Record, Absent, Contents

LEMMA ContentsType ==
  ASSUME NEW log \in Seq(Operation)
  PROVE  Live(LogState(log)) \in [Ids -> Contents]
<1>1. Slice(log, 0, Len(log)) \in Segment
  BY SliceType
<1> QED BY <1>1, LiveType DEF LogState

\* Steps that touch neither what is read nor the directories it is read from.
LEMMA VisibleStable ==
  ASSUME IInv, manifest' = manifest, mutable' = mutable,
         \A s \in ToSet(manifest.segs) : image'[s] = image[s]
  PROVE  Visible' = Visible
<1>1. [i \in DOMAIN manifest.segs |-> image'[manifest.segs[i]]] = Images(manifest.segs)
  BY DEF Images, ToSet
<1>2. [i \in DOMAIN manifest'.segs |-> image'[manifest'.segs[i]]] = Images(manifest.segs)
  BY <1>1
<1> QED BY <1>2 DEF Visible, Images

\* Between two states in which readers can take the lock, nothing but a write
\* changes what they read.
LEMMA OthersInvisible ==
  ASSUME IInv, IInv', wal' = wal, status = "open", status' = "open", writer' = writer,
         \/ FlushWrite \/ FlushPublish \/ FlushInstall \/ FlushRaises
         \/ OptimizeCapture \/ OptimizeWrite \/ OptimizePublish \/ OptimizeInstall
         \/ OptimizeRaises \/ \E s \in SegIds : Reclaim(s)
  PROVE  Live(Visible') = Live(Visible)
<1>1. CASE writer = 0
  <2>1. ReadsMatchLog /\ ReadsMatchLog'
    <3>1. ReadsMatchLog
      BY InvReads
    <3>2. ReadsMatchLog'
      BY InvReads, PTL
    <3> QED BY <3>1, <3>2
  <2> QED BY <1>1, <2>1 DEF ReadsMatchLog
<1>2. CASE writer # 0
  <2>1. OptimizeWrite \/ OptimizeRaises \/ \E s \in SegIds : Reclaim(s)
    BY <1>2 DEF FlushWrite, FlushPublish, FlushInstall, FlushRaises, OptimizeCapture,
                OptimizePublish, MayPublish, OptimizeInstall, UpdateLockFree, IInv, DiskInv,
                FlushHolds,
                OptHolds, Idle
  <2>2. manifest' = manifest /\ mutable' = mutable
    BY <2>1 DEF OptimizeWrite, OptimizeRaises, Reclaim
  <2>3. ToSet(manifest.segs) \subseteq dirs \ retired /\ image \in [SegIds -> Segment]
        /\ dirs \subseteq SegIds
    BY DEF IInv, DiskInv, RootOnDisk, InUse, TypeOK
  <2>4. \A s \in ToSet(manifest.segs) : image'[s] = image[s]
    <3>1. CASE OptimizeWrite
      BY <2>3, <3>1 DEF OptimizeWrite
    <3>2. CASE OptimizeRaises
      BY <2>3, <3>2 DEF OptimizeRaises, BuiltNotPublished, IInv, DiskInv, OptOwns, Unused, InUse
    <3>3. CASE \E s \in SegIds : Reclaim(s)
      BY <2>3, <3>3 DEF Reclaim
    <3> QED BY <2>1, <3>1, <3>2, <3>3
  <2> QED BY <2>2, <2>4, VisibleStable
<1> QED BY <1>1, <1>2

-----------------------------------------------------------------------------
(***************************************************************************)
(* The action properties.                                                  *)
(***************************************************************************)
\* Only a write changes what readers see: publishing a flush or an optimize,
\* failing to, and reclaiming directories do not.
THEOREM PublicationIsInvisible ==
  ASSUME LogIsKept
  PROVE  Spec => PublicationInvisible
<1>1. IInv /\ [Next]_vars
        => [status = "open" /\ status' = "open" /\ writer' = writer
              => Live(Visible') = Live(Visible)]_vars
  <2> SUFFICES ASSUME IInv, Next, status = "open", status' = "open", writer' = writer
               PROVE  Live(Visible') = Live(Visible)
    OBVIOUS
  <2>1. IInv'
    BY NextInv
  <2>2. ~(Upsert \/ Delete \/ MutatePayload)
    BY WritesAppendOperations DEF BeginWrite, UpdateLockFree, AppendRecord, NextSequence, IInv,
                                  DiskInv, TypeOK
  <2>3. ~(Apply \/ WriteRaises)
    BY DEF Apply, WriteRaises
  <2>4. ~(\/ Close \/ ProcessCrash \/ DieBeforeWalFsync \/ HostCrash
          \/ Open \/ Replay \/ Opened)
    BY DEF Close, ProcessCrash, DieBeforeWalFsync, HostCrash, ForgetMemory, Open, Replay, Opened
  <2>5. \/ FlushWrite \/ FlushPublish \/ FlushInstall \/ FlushRaises
        \/ OptimizeCapture \/ OptimizeWrite \/ OptimizePublish \/ OptimizeInstall
        \/ OptimizeRaises \/ \E s \in SegIds : Reclaim(s)
    BY <2>2, <2>3, <2>4 DEF Next
  <2>6. wal' = wal
    BY <2>5 DEF FlushWrite, FlushPublish, FlushInstall, FlushRaises, OptimizeCapture,
                OptimizeWrite, OptimizePublish, OptimizeInstall, OptimizeRaises, Reclaim,
                disk
  <2> QED BY <2>1, <2>5, <2>6, OthersInvisible
<1> QED BY <1>1, InductiveInvariant, PTL DEF Spec, PublicationInvisible

\* What a collection serves is what the records it has applied leave.
LEMMA ServedIsApplied ==
  ASSUME IInv, status = "open"
  PROVE  /\ Applied \in 0 .. Len(wal)
         /\ Live(Visible) = Live(Slice(wal, 0, Applied))
<1>1. mutable = Slice(wal, manifest.boundary, Applied) /\ Applied \in manifest.boundary .. Len(wal)
  BY DEF IInv, MutableHoldsTail
<1>2. manifest \in Root /\ Represents(manifest) /\ wal \in Seq(Operation) /\ TypeOK
  BY DEF IInv, DiskInv, TypeOK, MemoryRepresents
<1>3. manifest.boundary \in Nat /\ Images(manifest.segs) \in Seq(Segment)
  BY <1>2, ImagesType DEF Root, TypeOK
<1>4. Applied \in Nat /\ Applied \in 0 .. Len(wal)
  BY <1>1, <1>3
<1>5. Covers(Latest(Images(manifest.segs)), wal, manifest.boundary)
  BY <1>2 DEF Represents
<1>6. Covers(Visible, wal, Applied)
  <2> HIDE DEF Applied
  <2>1. Covers(Latest(Append(Images(manifest.segs), Slice(wal, manifest.boundary, Applied))),
               wal, Applied)
    BY <1>1, <1>2, <1>3, <1>5, CoversOverlay
  <2> QED BY <1>1, <2>1 DEF Visible
<1> QED BY <1>4, <1>6, CoversLive

\* A log that is one record longer leaves what that record overwrites.
LEMMA RecordOverwrites ==
  ASSUME NEW log \in Seq(Operation), NEW n \in Nat, n < Len(log)
  PROVE  Live(Slice(log, 0, n + 1))
           = Promise!Overwritten(Live(Slice(log, 0, n)), log[n + 1])
<1> DEFINE seg == Slice(log, 0, n)
<1>1. Slice(log, 0, n + 1) = ApplyRecord(seg, log[n + 1], n + 1)
  BY SliceStep
<1>2. \A id \in Ids : seg[id].ver < n + 1
  <2>1. \A id \in Ids : seg[id] = Absent \/ seg[id].ver \in 1 .. n
    BY SliceType
  <2> HIDE DEF seg
  <2>2. Absent.ver = 0
    BY DEF Absent
  <2> SUFFICES ASSUME NEW id \in Ids PROVE seg[id].ver < n + 1
    OBVIOUS
  <2>3. CASE seg[id] = Absent
    BY <2>2, <2>3
  <2>4. CASE seg[id].ver \in 1 .. n
    BY <2>4
  <2> QED BY <2>1, <2>3, <2>4
<1> HIDE DEF seg
<1>3. ASSUME NEW id \in Ids
      PROVE  Live(ApplyRecord(seg, log[n + 1], n + 1))[id]
               = Promise!Overwritten(Live(seg), log[n + 1])[id]
  BY <1>2 DEF Live, ApplyRecord, Promise!Overwritten
<1> QED BY <1>1, <1>3 DEF Live, Promise!Overwritten, seg

\* Every record a call appends is a write of DurableMap.
LEMMA RecordsAreWrites ==
  ASSUME TypeOK, Live(Visible) = Live(Recovered),
         NEW op \in Upsertions \cup Deletions \cup PayloadMutations
  PROVE  op \in Promise!Writes /\ op # Promise!Nothing
<1>1. \A S \in Batches : S # {} /\ S \subseteq Ids
  BY CollectionAssumption
<1>2. CASE op \in Upsertions
  <2>1. PICK S \in Batches : op \in [S -> Value]
    BY <1>2 DEF Upsertions
  <2>2. op \in Promise!Upserts
    BY <2>1 DEF Promise!Upserts, Promise!Value, Value
  <2>3. DOMAIN op # DOMAIN Promise!Nothing
    BY <1>1, <2>1 DEF Promise!Nothing
  <2> QED BY <2>2, <2>3 DEF Promise!Writes
<1>3. CASE op \in Deletions
  <2>1. PICK S \in Batches : op = [id \in S |-> Gone]
    BY <1>3 DEF Deletions
  <2>2. op \in Promise!Deletes
    BY <2>1 DEF Promise!Deletes
  <2>3. DOMAIN op # DOMAIN Promise!Nothing
    BY <1>1, <2>1 DEF Promise!Nothing
  <2> QED BY <2>2, <2>3 DEF Promise!Writes
<1>4. CASE op \in PayloadMutations
  <2>1. PICK S \in Batches, fields \in SUBSET Fields :
          LivePoints(S) # {} /\ op \in Rewritten(S, fields)
    BY <1>4 DEF PayloadMutations
  <2> DEFINE L == LivePoints(S)
             map == Live(Recovered)
  <2>2. \A id \in Ids : map[id] = Visible[id].val
    BY DEF Live
  <2>3. L = S \cap {id \in Ids : map[id] # Gone} /\ L \subseteq Ids
    BY <1>1, <2>2 DEF LivePoints
  <2>4. L \in Promise!Existing
    <3> HIDE DEF L
    <3> QED BY <2>1, <2>3 DEF Promise!Existing, L
  <2>5. \/ op = [id \in L |-> ReplacePayload(map[id], fields)]
        \/ op = [id \in L |-> MergePayload(map[id], fields)]
        \/ op = [id \in L |-> DeletePayloadKeys(map[id], fields)]
    <3>1. /\ [id \in L |-> ReplacePayload(Visible[id].val, fields)]
               = [id \in L |-> ReplacePayload(map[id], fields)]
          /\ [id \in L |-> MergePayload(Visible[id].val, fields)]
               = [id \in L |-> MergePayload(map[id], fields)]
          /\ [id \in L |-> DeletePayloadKeys(Visible[id].val, fields)]
               = [id \in L |-> DeletePayloadKeys(map[id], fields)]
      BY <2>2, <2>3
    <3> QED BY <2>1, <3>1 DEF Rewritten
  <2>6. DOMAIN op = L
    BY <2>5
  <2> HIDE DEF L, map
  <2>7. op \in Promise!PayloadWrites
    <3> DEFINE forms(T, keys) ==
                 {[id \in T |-> Promise!ReplacePayload(map[id], keys)],
                  [id \in T |-> Promise!MergePayload(map[id], keys)],
                  [id \in T |-> Promise!DeletePayloadKeys(map[id], keys)]}
    <3>1. op \in forms(L, fields)
      BY <2>5 DEF Promise!ReplacePayload, Promise!MergePayload, Promise!DeletePayloadKeys,
                  ReplacePayload, MergePayload, DeletePayloadKeys
    <3>2. Promise!PayloadWrites
            = UNION {forms(T, keys) : T \in Promise!Existing, keys \in SUBSET Fields}
      BY DEF Promise!PayloadWrites, map
    <3> HIDE DEF forms
    <3> QED BY <2>1, <2>4, <3>1, <3>2
  <2>8. DOMAIN op # DOMAIN Promise!Nothing
    BY <2>1, <2>6 DEF L, Promise!Nothing
  <2> QED BY <2>7, <2>8 DEF Promise!Writes
<1> QED BY <1>2, <1>3, <1>4

\* A call that starts to write appends one of them, which overwrites the contents.
LEMMA AppendOverwrites ==
  ASSUME IInv, Live(Recovered) = Live(LogState(wal)), BeginWrite,
         NEW op \in Upsertions \cup Deletions \cup PayloadMutations, wal' = Append(wal, op)
  PROVE  /\ op \in Promise!Writes /\ op # Promise!Nothing
         /\ Live(LogState(wal')) = Promise!Overwritten(Live(Recovered), op)
         /\ wal'[Len(wal) + 1] = op /\ Len(wal) \in Nat
<1>1. TypeOK /\ wal \in Seq(Operation) /\ op \in Operation /\ Len(wal) \in Nat
  BY OperationsType DEF IInv, DiskInv, TypeOK
<1>2. Live(Visible) = Live(Recovered)
  BY InvReads DEF ReadsMatchLog, BeginWrite, UpdateLockFree
<1>3. op \in Promise!Writes /\ op # Promise!Nothing
  BY <1>1, <1>2, RecordsAreWrites
<1>4. /\ wal' \in Seq(Operation) /\ Len(wal') = Len(wal) + 1
      /\ wal'[Len(wal) + 1] = op
      /\ \A k \in 1 .. Len(wal) : wal'[k] = wal[k]
  BY <1>1
<1>5. Slice(wal', 0, Len(wal)) = Slice(wal, 0, Len(wal))
  <2> DEFINE log == wal
             longer == wal'
             n == Len(wal)
  <2>1. n \in Nat /\ \A k \in (0 + 1) .. n : longer[k] = log[k]
    BY <1>1, <1>4
  <2> HIDE DEF log, longer, n
  <2>2. Slice(longer, 0, n) = Slice(log, 0, n)
    BY <2>1, SliceOfPrefix
  <2> QED BY <2>2 DEF log, longer, n
<1>6. Live(Slice(wal', 0, Len(wal) + 1))
        = Promise!Overwritten(Live(Slice(wal', 0, Len(wal))), wal'[Len(wal) + 1])
  <2> DEFINE longer == wal'
             n == Len(wal)
  <2>1. longer \in Seq(Operation) /\ n \in Nat /\ n < Len(longer)
    BY <1>1, <1>4
  <2> HIDE DEF longer, n
  <2>2. Live(Slice(longer, 0, n + 1))
          = Promise!Overwritten(Live(Slice(longer, 0, n)), longer[n + 1])
    BY <2>1, RecordOverwrites
  <2> QED BY <2>2 DEF longer, n
<1>7. Live(LogState(wal')) = Promise!Overwritten(Live(Recovered), op)
  BY <1>4, <1>5, <1>6 DEF LogState
<1> QED BY <1>1, <1>3, <1>4, <1>7

LEMMA StepImplements ==
  ASSUME LogIsKept, IInv, [Next]_vars
  PROVE  [Promise!Next]_Promise!vars
<1> DEFINE served == IF status = "open" THEN Live(Visible) ELSE Down
           pending == IF writer # 0 THEN wal[writer] ELSE [id \in {} |-> Gone]
<1>1. IInv'
  BY NextInv
<1>2. /\ Live(Recovered) = Live(LogState(wal))
      /\ Live(Recovered') = Live(LogState(wal'))
  <2>1. RecoveryMatchesLog
    BY InvRecovery
  <2>2. RecoveryMatchesLog'
    BY <1>1, InvRecovery, PTL
  <2> QED BY <2>1, <2>2 DEF RecoveryMatchesLog
<1>3. writer = 0 => pending = Promise!Nothing
  BY DEF Promise!Nothing
<1>b. writer' = 0 => pending' = Promise!Nothing
  BY DEF Promise!Nothing
<1>4. /\ status = "open" /\ writer = 0 => Live(Visible) = Live(Recovered)
      /\ status' = "open" /\ writer' = 0 => Live(Visible') = Live(Recovered')
  <2>1. ReadsMatchLog
    BY InvReads
  <2>2. ReadsMatchLog'
    BY <1>1, InvReads, PTL
  <2> QED BY <1>2, <2>1, <2>2 DEF ReadsMatchLog
<1>5. wal' = wal => Live(Recovered') = Live(Recovered)
  BY <1>2
<1>6. status = "open" => served # Down
  BY VisibleType, LiveType, DownAssumption DEF IInv, DiskInv
<1>a. status # "open" => writer = 0
  BY DEF IInv, DiskInv, OnlyOpenIsBusy
<1>7. CASE Upsert \/ Delete \/ MutatePayload
  <2>1. PICK op \in Upsertions \cup Deletions \cup PayloadMutations :
          BeginWrite /\ AppendRecord(op)
    BY <1>7 DEF Upsert, Delete, MutatePayload
  <2>2. /\ status = "open" /\ writer = 0 /\ status' = status
        /\ UNCHANGED <<manifest, mutable, image>>
        /\ wal' = Append(wal, op) /\ writer' = Len(wal) + 1
    BY <2>1 DEF BeginWrite, UpdateLockFree, AppendRecord, NextSequence
  <2>3. Visible' = Visible
    BY <2>2, VisibleStable
  <2>4. served' = served /\ served # Down
    BY <1>6, <2>2, <2>3
  <2>5. /\ op \in Promise!Writes /\ op # Promise!Nothing
        /\ Live(LogState(wal')) = Promise!Overwritten(Live(Recovered), op)
        /\ wal'[Len(wal) + 1] = op /\ Len(wal) \in Nat
    BY <1>2, <2>1, <2>2, AppendOverwrites
  <2>6. pending' = op /\ pending = Promise!Nothing
    BY <1>3, <2>2, <2>5
  <2> QED BY <1>2, <2>4, <2>5, <2>6 DEF Promise!Next, Promise!Commit
<1>8. CASE Apply
  <2>1. /\ wal' = wal /\ status = "open" /\ status' = "open"
        /\ writer # 0 /\ writer' = 0
    BY <1>8 DEF Apply, disk, IInv, DiskInv, OnlyOpenIsBusy
  <2>2. served # Down /\ served' = Live(Recovered) /\ Live(Recovered') = Live(Recovered)
    BY <1>4, <1>5, <1>6, <2>1
  <2>3. wal \in Seq(Operation) /\ writer = Len(wal) /\ Len(wal) \in Nat \ {0}
    BY <2>1 DEF IInv, DiskInv, TypeOK
  <2> DEFINE n == Len(wal) - 1
  <2>4. n \in Nat /\ n < Len(wal) /\ n + 1 = Len(wal) /\ Applied = n
    BY <2>1, <2>3 DEF Applied
  <2>5. served = Live(Slice(wal, 0, n))
    BY <2>1, <2>4, ServedIsApplied
  <2>6. Live(Recovered) = Promise!Overwritten(served, wal[n + 1])
    <3>1. Live(Slice(wal, 0, n + 1)) = Promise!Overwritten(Live(Slice(wal, 0, n)), wal[n + 1])
      <4> HIDE DEF n
      <4> QED BY <2>3, <2>4, RecordOverwrites
    <3> HIDE DEF n
    <3> QED BY <1>2, <2>4, <2>5, <3>1 DEF LogState
  <2>7. pending = wal[n + 1]
    BY <2>1, <2>3, <2>4
  <2>8. pending # Promise!Nothing
    <3>1. pending \in Operation
      BY <2>3, <2>4, <2>7
    <3>2. DOMAIN pending # {}
      <4> HIDE DEF pending
      <4> QED BY <3>1 DEF Operation
    <3>3. DOMAIN Promise!Nothing = {}
      BY DEF Promise!Nothing
    <3> HIDE DEF pending
    <3> QED BY <3>2, <3>3
  <2>9. pending' = Promise!Nothing
    BY <1>b, <2>1
  <2>10. served' = Promise!Overwritten(served, pending)
    <3> HIDE DEF n, pending, served
    <3> QED BY <2>2, <2>6, <2>7
  <2> QED BY <2>2, <2>8, <2>9, <2>10 DEF Promise!Next, Promise!Acknowledge
<1>9. CASE WriteRaises
  BY <1>9 DEF WriteRaises, LogIsKept
<1>10. CASE \/ FlushWrite \/ FlushPublish \/ FlushInstall \/ FlushRaises
            \/ OptimizeCapture \/ OptimizeWrite \/ OptimizePublish \/ OptimizeInstall
            \/ OptimizeRaises \/ \E s \in SegIds : Reclaim(s)
  <2>1. wal' = wal /\ status' = status /\ writer' = writer
    BY <1>10 DEF FlushWrite, FlushPublish, FlushInstall, FlushRaises, OptimizeCapture,
                 OptimizeWrite, OptimizePublish, OptimizeInstall, OptimizeRaises, Reclaim,
                 disk
  <2>2. CASE status = "open"
    <3>1. Live(Visible') = Live(Visible)
      BY <1>1, <1>10, <2>1, <2>2, OthersInvisible
    <3> QED BY <1>5, <2>1, <2>2, <3>1 DEF Promise!vars
  <2>3. CASE status # "open"
    BY <1>5, <2>1, <2>3 DEF Promise!vars
  <2> QED BY <2>2, <2>3
<1>11. CASE Close \/ ProcessCrash \/ HostCrash
  <2>1. status' = "down" /\ wal' = wal /\ writer' = 0
    <3>1. CASE Close \/ ProcessCrash
      BY <3>1 DEF Close, ProcessCrash, ForgetMemory, disk
    <3>2. CASE HostCrash
      <4>1. PICK n \in synced .. Len(wal) : wal' = SubSeq(wal, 1, n)
        BY <3>2 DEF HostCrash
      <4>2. synced = Len(wal) /\ wal \in Seq(Operation)
        BY <3>2 DEF HostCrash, LogIsKept, IInv, DiskInv, AlwaysSynced, TypeOK
      <4>3. n = Len(wal)
        BY <4>1, <4>2
      <4> QED BY <3>2, <4>1, <4>2, <4>3 DEF HostCrash, ForgetMemory
    <3> QED BY <1>11, <3>1, <3>2
  <2>2. served' = Down /\ Live(Recovered') = Live(Recovered) /\ pending' = Promise!Nothing
    BY <1>5, <1>b, <2>1
  <2> QED BY <2>2 DEF Promise!Next, Promise!Stop
<1>15. CASE DieBeforeWalFsync
  <2>1. PICK op \in Upsertions \cup Deletions \cup PayloadMutations : wal' = Append(wal, op)
    BY <1>15 DEF DieBeforeWalFsync
  <2>2. BeginWrite /\ status = "open" /\ writer = 0 /\ writer' = 0 /\ served' = Down
    BY <1>15 DEF DieBeforeWalFsync, BeginWrite, UpdateLockFree, ForgetMemory
  <2>3. /\ op \in Promise!Writes
        /\ Live(Recovered') = Promise!Overwritten(Live(Recovered), op)
    BY <1>2, <2>1, <2>2, AppendOverwrites
  <2>4. pending' = Promise!Nothing /\ pending = Promise!Nothing /\ served # Down
    BY <1>3, <1>b, <1>6, <2>2
  <2> QED BY <2>2, <2>3, <2>4 DEF Promise!Next, Promise!Interrupted
<1>12. CASE Open \/ Replay
  <2>1. wal' = wal /\ status # "open" /\ status' # "open" /\ writer' = writer
    BY <1>12 DEF Open, Replay, disk
  <2> QED BY <1>5, <2>1 DEF Promise!vars
<1>13. CASE Opened
  <2>1. /\ wal' = wal /\ status = "recovering" /\ status' = "open"
        /\ writer = 0 /\ writer' = 0
    BY <1>13 DEF Opened, disk, IInv, DiskInv, OnlyOpenIsBusy
  <2>2. served = Down /\ served' = Live(Recovered) /\ Live(Recovered') = Live(Recovered)
    BY <1>4, <1>5, <2>1
  <2>3. pending' = pending
    BY <1>3, <1>b, <2>1
  <2> QED BY <2>2, <2>3 DEF Promise!Next, Promise!Restart
<1>14. CASE UNCHANGED vars
  <2>1. UNCHANGED <<wal, image, status, manifest, mutable, writer>>
    BY <1>14 DEF vars, disk, memory
  <2>2. Visible' = Visible
    BY <2>1, VisibleStable
  <2> QED BY <1>5, <2>1, <2>2 DEF Promise!vars
<1> QED
  BY <1>7, <1>8, <1>9, <1>10, <1>11, <1>12, <1>13, <1>14, <1>15 DEF Next

LEMMA InitImplements == Init => Promise!Init
<1> SUFFICES ASSUME Init PROVE Promise!Init
  OBVIOUS
<1>1. IInv
  BY InitInv
<1>2. Slice(wal, 0, 0) = EmptySegment /\ Len(wal) = 0
  BY SliceEmpty DEF Init
<1>3. Live(LogState(wal)) = [id \in Ids |-> Gone]
  BY <1>2 DEF LogState, Live, EmptySegment, Absent
<1>4. RecoveryMatchesLog /\ ReadsMatchLog
  BY <1>1, InvRecovery, InvReads
<1> QED BY <1>3, <1>4 DEF Init, RecoveryMatchesLog, ReadsMatchLog, Promise!Init, Promise!Nothing

\* A collection whose log is kept is a durable map: a write gives the points it names
\* the values it asks for and changes no other, as a whole, also if a crash interrupts
\* it; reads return every acknowledged write and nothing else; and flush, optimize,
\* reclamation, crashes and recovery are steps a client cannot see.
THEOREM Implements ==
  ASSUME LogIsKept
  PROVE  Spec => PromiseSpec
<1>1. IInv /\ [Next]_vars => [Promise!Next]_Promise!vars
  BY StepImplements
<1> QED BY <1>1, InitImplements, InductiveInvariant, PTL DEF Spec, PromiseSpec, Promise!Spec

-----------------------------------------------------------------------------
(***************************************************************************)
(* Acknowledged writes survive although calls may raise after their record *)
(* is in the log: such a record is not applied until a restart replays it, *)
(* or never, if a root claims it first.  So memory no longer holds exactly *)
(* what the log records, and what is carried along is weaker: every value  *)
(* is that of some record that no acknowledged record follows.             *)
(***************************************************************************)
\* No log is cut short: WriteRaises is allowed.
LogIsWhole ==
  HostFails => Durability = "always" /\ BeforeWalFsync \notin Faults

\* No acknowledged record among lo+1 .. hi touches an id.
NoneAcked(log, acked, id, lo, hi) ==
  \A j \in acked : lo < j /\ j <= hi => id \notin DOMAIN log[j]

\* What a record may be after the first n records of the log.
Stands(rec, log, acked, id, n) ==
  \/ rec = Absent /\ NoneAcked(log, acked, id, 0, n)
  \/ \E k \in 1 .. n : /\ id \in DOMAIN log[k]
                       /\ rec.val = log[k][id] /\ rec.ver <= n
                       /\ NoneAcked(log, acked, id, k, n)

\* What a record that holds the tail lo+1 .. hi of the log may be.
Follows(rec, log, acked, id, lo, hi) ==
  \/ rec = Absent /\ NoneAcked(log, acked, id, lo, hi)
  \/ \E k \in (lo + 1) .. hi : /\ id \in DOMAIN log[k]
                               /\ rec = [ver |-> k, val |-> log[k][id]]
                               /\ NoneAcked(log, acked, id, k, hi)

Upholds(seg, log, acked, n) == \A id \in Ids : Stands(seg[id], log, acked, id, n)

Continues(seg, log, acked, lo, hi) ==
  \A id \in Ids : Follows(seg[id], log, acked, id, lo, hi)

\* A prefix of the log that does not reach the record being written.
Early(n) == n \in Nat /\ n <= Len(wal) /\ (writer # 0 => n < Len(wal))

Good(r) == Early(r.boundary) /\ Upholds(Latest(Images(r.segs)), wal, Acked, r.boundary)

RootsUphold == Good(root) /\ Good(durable)

MemoryUpholds ==
  status # "down" =>
    /\ Good(manifest)
    /\ Applied \in manifest.boundary .. Len(wal)
    /\ Continues(mutable, wal, Acked, manifest.boundary, Applied)

OptUpholds ==
  opt.phase # Idle =>
    /\ Early(opt.boundary) /\ manifest.boundary <= opt.boundary
    /\ opt.phase = "captured" => Upholds(opt.captured, wal, Acked, opt.boundary)
    /\ opt.phase \in {"written", "published"} =>
         Upholds(image[opt.seg], wal, Acked, opt.boundary)
    /\ opt.phase = "published" => writer = 0

AckedInv ==
  DiskInv /\ AlwaysSynced /\ RootsUphold /\ MemoryUpholds /\ FlushHolds /\ OptUpholds

-----------------------------------------------------------------------------
\* A segment that holds the tail completes segments that stand for the rest.
LEMMA TailUpholds ==
  ASSUME NEW segs \in Seq(Segment), NEW seg \in Segment, NEW log, NEW acked \in SUBSET Nat,
         NEW lo \in Nat, NEW hi \in Nat, lo <= hi,
         Upholds(Latest(segs), log, acked, lo), Continues(seg, log, acked, lo, hi)
  PROVE  Upholds(Latest(Append(segs, seg)), log, acked, hi)
<1> SUFFICES ASSUME NEW id \in Ids
             PROVE  Stands(Latest(Append(segs, seg))[id], log, acked, id, hi)
  BY DEF Upholds
<1> DEFINE old == Latest(segs)[id]
<1>1. Latest(Append(segs, seg))[id] = IF seg[id].ver > old.ver THEN seg[id] ELSE old
  BY LatestAppend
<1>2. Stands(old, log, acked, id, lo) /\ Follows(seg[id], log, acked, id, lo, hi)
  BY DEF Upholds, Continues
<1>3. old \in Record
  BY LatestType DEF Segment
<1>4. old.ver \in Nat /\ old.ver <= lo
  BY <1>2, <1>3 DEF Stands, Record, Absent
<1> HIDE DEF old
<1>5. CASE seg[id] = Absent /\ NoneAcked(log, acked, id, lo, hi)
  <2>1. Latest(Append(segs, seg))[id] = old
    BY <1>1, <1>4, <1>5 DEF Absent
  <2>2. CASE old = Absent /\ NoneAcked(log, acked, id, 0, lo)
    BY <1>5, <2>1, <2>2 DEF Stands, NoneAcked
  <2>3. ASSUME NEW k \in 1 .. lo, id \in DOMAIN log[k], old.val = log[k][id],
               NoneAcked(log, acked, id, k, lo)
        PROVE  Stands(Latest(Append(segs, seg))[id], log, acked, id, hi)
    <3>1. NoneAcked(log, acked, id, k, hi)
      BY <1>5, <2>3 DEF NoneAcked
    <3> QED BY <1>4, <2>1, <2>3, <3>1 DEF Stands
  <2> QED BY <1>2, <2>2, <2>3 DEF Stands
<1>6. ASSUME NEW k \in (lo + 1) .. hi, id \in DOMAIN log[k],
             seg[id] = [ver |-> k, val |-> log[k][id]], NoneAcked(log, acked, id, k, hi)
      PROVE  Stands(Latest(Append(segs, seg))[id], log, acked, id, hi)
  <2>1. Latest(Append(segs, seg))[id] = seg[id]
    BY <1>1, <1>4, <1>6
  <2> QED BY <1>6, <2>1 DEF Stands
<1> QED BY <1>2, <1>5, <1>6 DEF Follows

\* Leaving tombstones out changes no value.
LEMMA DroppedUpholds ==
  ASSUME NEW seg \in Segment, NEW log, NEW acked, NEW n \in Nat, Upholds(seg, log, acked, n)
  PROVE  Upholds(DropTombstones(seg), log, acked, n)
<1> SUFFICES ASSUME NEW id \in Ids PROVE Stands(DropTombstones(seg)[id], log, acked, id, n)
  BY DEF Upholds
<1>1. Stands(seg[id], log, acked, id, n)
  BY DEF Upholds
<1>2. CASE seg[id].val = Gone
  <2>1. DropTombstones(seg)[id] = Absent /\ Absent.val = Gone /\ Absent.ver = 0
    BY <1>2 DEF DropTombstones, Absent
  <2> QED BY <1>1, <1>2, <2>1 DEF Stands
<1>3. CASE seg[id].val # Gone
  BY <1>1, <1>3 DEF DropTombstones
<1> QED BY <1>2, <1>3

LEMMA NewerContinues ==
  ASSUME NEW seg \in Segment, NEW log, NEW acked \in SUBSET Nat,
         NEW lo \in Nat, NEW mid \in Nat, NEW hi \in Nat, lo <= mid, mid <= hi,
         Continues(seg, log, acked, lo, hi)
  PROVE  Continues(NewerThan(seg, mid), log, acked, mid, hi)
<1> SUFFICES ASSUME NEW id \in Ids
             PROVE  Follows(NewerThan(seg, mid)[id], log, acked, id, mid, hi)
  BY DEF Continues
<1>1. Follows(seg[id], log, acked, id, lo, hi)
  BY DEF Continues
<1>2. CASE seg[id] = Absent /\ NoneAcked(log, acked, id, lo, hi)
  BY <1>2 DEF NewerThan, Follows, NoneAcked, Absent
<1>3. ASSUME NEW k \in (lo + 1) .. hi, id \in DOMAIN log[k],
             seg[id] = [ver |-> k, val |-> log[k][id]], NoneAcked(log, acked, id, k, hi)
      PROVE  Follows(NewerThan(seg, mid)[id], log, acked, id, mid, hi)
  <2>1. CASE k > mid
    BY <1>3, <2>1 DEF NewerThan, Follows
  <2>2. CASE k <= mid
    <3>1. NewerThan(seg, mid)[id] = Absent
      BY <1>3, <2>2 DEF NewerThan
    <3>2. NoneAcked(log, acked, id, mid, hi)
      BY <1>3, <2>2 DEF NoneAcked
    <3> QED BY <3>1, <3>2 DEF Follows
  <2> QED BY <2>1, <2>2
<1> QED BY <1>1, <1>2, <1>3 DEF Follows

\* Applying the next record, or passing over one that was not acknowledged.
LEMMA AppliedContinues ==
  ASSUME NEW seg, NEW log, NEW acked \in SUBSET Nat, NEW lo \in Nat, NEW hi \in Nat, lo <= hi,
         Continues(seg, log, acked, lo, hi)
  PROVE  Continues(ApplyRecord(seg, log[hi + 1], hi + 1), log, acked, lo, hi + 1)
<1> SUFFICES ASSUME NEW id \in Ids
             PROVE  Follows(ApplyRecord(seg, log[hi + 1], hi + 1)[id], log, acked, id, lo, hi + 1)
  BY DEF Continues
<1> DEFINE new == ApplyRecord(seg, log[hi + 1], hi + 1)[id]
<1>1. Follows(seg[id], log, acked, id, lo, hi)
  BY DEF Continues
<1>2. seg[id].ver < hi + 1
  <2>1. CASE seg[id] = Absent
    BY <2>1 DEF Absent
  <2>2. ASSUME NEW k \in (lo + 1) .. hi, seg[id] = [ver |-> k, val |-> log[k][id]]
        PROVE  seg[id].ver < hi + 1
    BY <2>2
  <2> QED BY <1>1, <2>1, <2>2 DEF Follows
<1>3. CASE id \in DOMAIN log[hi + 1]
  <2>1. new = [ver |-> hi + 1, val |-> log[hi + 1][id]]
    BY <1>2, <1>3 DEF ApplyRecord
  <2>2. NoneAcked(log, acked, id, hi + 1, hi + 1) /\ hi + 1 \in (lo + 1) .. (hi + 1)
    BY DEF NoneAcked
  <2> QED BY <1>3, <2>1, <2>2 DEF Follows
<1>4. CASE id \notin DOMAIN log[hi + 1]
  <2>1. new = seg[id]
    BY <1>4 DEF ApplyRecord
  <2>2. \A k \in Nat : NoneAcked(log, acked, id, k, hi) => NoneAcked(log, acked, id, k, hi + 1)
    BY <1>4 DEF NoneAcked
  <2> QED BY <1>1, <2>1, <2>2 DEF Follows
<1> QED BY <1>3, <1>4

LEMMA SkippedContinues ==
  ASSUME NEW seg, NEW log, NEW acked \in SUBSET Nat, NEW lo \in Nat, NEW hi \in Nat,
         hi + 1 \notin acked, Continues(seg, log, acked, lo, hi)
  PROVE  Continues(seg, log, acked, lo, hi + 1)
<1>1. \A id \in Ids, k \in Nat :
        NoneAcked(log, acked, id, k, hi) => NoneAcked(log, acked, id, k, hi + 1)
  BY DEF NoneAcked
<1> SUFFICES ASSUME NEW id \in Ids PROVE Follows(seg[id], log, acked, id, lo, hi + 1)
  BY DEF Continues
<1>2. Follows(seg[id], log, acked, id, lo, hi)
  BY DEF Continues
<1>3. \A k \in (lo + 1) .. hi : k \in Nat /\ k \in (lo + 1) .. (hi + 1)
  OBVIOUS
<1> QED BY <1>1, <1>2, <1>3 DEF Follows

\* The log itself, and nothing at all.
LEMMA SliceContinues ==
  ASSUME NEW log, NEW acked \in SUBSET Nat, NEW lo \in Nat, NEW hi \in Nat
  PROVE  Continues(Slice(log, lo, hi), log, acked, lo, hi)
<1> SUFFICES ASSUME NEW id \in Ids
             PROVE  Follows(Slice(log, lo, hi)[id], log, acked, id, lo, hi)
  BY DEF Continues
<1>1. CASE Touches(log, lo, hi, id) = {} /\ Slice(log, lo, hi)[id] = Absent
  <2>1. NoneAcked(log, acked, id, lo, hi)
    <3>1. \A j \in Nat : lo < j /\ j <= hi => j \in (lo + 1) .. hi
      OBVIOUS
    <3> QED BY <1>1, <3>1 DEF NoneAcked, Touches
  <2> QED BY <1>1, <2>1 DEF Follows
<1>2. ASSUME NEW k \in Touches(log, lo, hi, id), \A j \in Touches(log, lo, hi, id) : j <= k,
             Slice(log, lo, hi)[id] = [ver |-> k, val |-> log[k][id]]
      PROVE  Follows(Slice(log, lo, hi)[id], log, acked, id, lo, hi)
  <2>1. k \in (lo + 1) .. hi /\ id \in DOMAIN log[k]
    BY DEF Touches
  <2>2. NoneAcked(log, acked, id, k, hi)
    BY <1>2, <2>1 DEF NoneAcked, Touches
  <2> QED BY <1>2, <2>1, <2>2 DEF Follows
<1> QED BY <1>1, <1>2, SliceCases

LEMMA EmptyContinues ==
  ASSUME NEW log, NEW acked \in SUBSET Nat, NEW n \in Nat
  PROVE  Continues(EmptySegment, log, acked, n, n)
BY DEF Continues, EmptySegment, Follows, NoneAcked

\* What stands goes on standing while no record of its prefix is changed or becomes
\* acknowledged.
LEMMA UpheldOfPrefix ==
  ASSUME NEW seg, NEW log, NEW other, NEW acked, NEW more, NEW n \in Nat,
         \A k \in 1 .. n : other[k] = log[k],
         \A j \in more : j \in Nat \ {0} /\ (j <= n => j \in acked)
  PROVE  /\ Upholds(seg, log, acked, n) => Upholds(seg, other, more, n)
         /\ \A lo \in Nat : Continues(seg, log, acked, lo, n) => Continues(seg, other, more, lo, n)
<1>1. \A id \in Ids, k \in Nat : NoneAcked(log, acked, id, k, n) => NoneAcked(other, more, id, k, n)
  BY DEF NoneAcked
<1>2. \A k \in Nat : k \in 1 .. n => other[k] = log[k]
  OBVIOUS
<1>3. Upholds(seg, log, acked, n) => Upholds(seg, other, more, n)
  <2> SUFFICES ASSUME NEW id \in Ids, Stands(seg[id], log, acked, id, n)
               PROVE  Stands(seg[id], other, more, id, n)
    BY DEF Upholds
  <2>1. \A k \in 1 .. n : k \in Nat /\ other[k] = log[k]
    OBVIOUS
  <2> QED BY <1>1, <2>1 DEF Stands
<1>4. \A lo \in Nat : Continues(seg, log, acked, lo, n) => Continues(seg, other, more, lo, n)
  <2> SUFFICES ASSUME NEW lo \in Nat, NEW id \in Ids, Follows(seg[id], log, acked, id, lo, n)
               PROVE  Follows(seg[id], other, more, id, lo, n)
    BY DEF Continues
  <2>1. \A k \in (lo + 1) .. n : k \in Nat /\ other[k] = log[k]
    BY <1>2
  <2> QED BY <1>1, <2>1 DEF Follows
<1> QED BY <1>3, <1>4

-----------------------------------------------------------------------------
LEMMA AckedOfLog == Len(wal) \in Nat => Acked \in SUBSET (Nat \ {0})
BY DEF Acked

\* Types that every step needs.
LEMMA AckedTypes ==
  ASSUME AckedInv
  PROVE  /\ TypeOK /\ wal \in Seq(Operation) /\ Len(wal) \in Nat
         /\ Acked \in SUBSET (Nat \ {0})
         /\ \A r \in {root, durable, manifest} :
              r \in Root /\ r.boundary \in Nat /\ Images(r.segs) \in Seq(Segment)
BY ImagesType DEF AckedInv, DiskInv, TypeOK, Root, Acked

\* What a write or a dying process does to the log.
LEMMA Appends ==
  ASSUME AckedInv, Upsert \/ Delete \/ MutatePayload \/ DieBeforeWalFsync
  PROVE  /\ status = "open" /\ writer = 0 /\ flush.phase = Idle /\ opt.phase # "published"
         /\ wal' \in Seq(Operation) /\ Len(wal') = Len(wal) + 1
         /\ \A k \in 1 .. Len(wal) : wal'[k] = wal[k]
         /\ Acked' = Acked
         /\ UNCHANGED <<dirs, image, root, durable>>
         /\ \/ /\ writer' = Len(wal) + 1 /\ synced' = SyncedAfterAppend
               /\ UNCHANGED <<status, manifest, mutable, flush, opt, retired>>
            \/ writer' = 0 /\ DieBeforeWalFsync /\ ForgetMemory /\ UNCHANGED synced
<1>1. /\ wal \in Seq(Operation) /\ Len(wal) \in Nat
      /\ unacked \in SUBSET (1 .. Len(wal)) /\ TypeOK
  BY AckedTypes DEF TypeOK
<1>2. CASE Upsert \/ Delete \/ MutatePayload
  <2>1. PICK op \in Operation : BeginWrite /\ AppendRecord(op)
    BY <1>1, <1>2, WritesAppendOperations
  <2>2. wal' \in Seq(Operation) /\ Len(wal') = Len(wal) + 1 /\ \A k \in 1 .. Len(wal) : wal'[k] = wal[k]
    BY <1>1, <2>1 DEF AppendRecord
  <2>3. writer = 0 /\ writer' = Len(wal) + 1 /\ unacked' = unacked
    BY <2>1 DEF BeginWrite, UpdateLockFree, AppendRecord, NextSequence
  <2>4. Acked' = Acked
    BY <1>1, <2>2, <2>3 DEF Acked
  <2> QED BY <2>1, <2>2, <2>3, <2>4 DEF BeginWrite, UpdateLockFree, AppendRecord
<1>3. CASE DieBeforeWalFsync
  <2>1. PICK op \in Operation : wal' = Append(wal, op)
    BY <1>1, <1>3, DyingAppendsOperation
  <2>2. wal' \in Seq(Operation) /\ Len(wal') = Len(wal) + 1 /\ \A k \in 1 .. Len(wal) : wal'[k] = wal[k]
    BY <1>1, <2>1
  <2>3. writer = 0 /\ writer' = 0 /\ unacked' = unacked \cup {Len(wal) + 1}
    BY <1>3 DEF DieBeforeWalFsync, BeginWrite, UpdateLockFree, ForgetMemory, NextSequence
  <2>4. Acked' = Acked
    BY <1>1, <2>2, <2>3 DEF Acked
  <2> QED
    BY <1>3, <2>2, <2>3, <2>4 DEF DieBeforeWalFsync, BeginWrite, UpdateLockFree, ForgetMemory
<1> QED BY <1>2, <1>3

\* A crash of the host leaves the log whole.
LEMMA CrashKeepsLog ==
  ASSUME LogIsWhole, AckedInv, HostCrash
  PROVE  /\ wal' = wal /\ synced' = Len(wal) /\ UNCHANGED <<dirs, image>> /\ ForgetMemory
         /\ root' \in {root, durable} /\ durable' = root'
         /\ unacked' = unacked \cup ({writer} \ {0})
<1>1. PICK n \in synced .. Len(wal) :
        /\ wal' = SubSeq(wal, 1, n) /\ synced' = n
        /\ unacked' = (unacked \cup ({writer} \ {0})) \cap (1 .. n)
  BY DEF HostCrash
<1>2. synced = Len(wal) /\ wal \in Seq(Operation) /\ Len(wal) \in Nat
  BY AckedTypes DEF HostCrash, AckedInv, AlwaysSynced
<1>3. n = Len(wal) /\ SubSeq(wal, 1, Len(wal)) = wal
  BY <1>1, <1>2
<1>4. unacked \cup ({writer} \ {0}) \subseteq 1 .. Len(wal)
  BY <1>2, AckedTypes DEF TypeOK
<1> QED BY <1>1, <1>3, <1>4 DEF HostCrash

\* Every other step leaves the log alone; only Apply acknowledges, and no more than the
\* record being written.
LEMMA LogStays ==
  ASSUME LogIsWhole, AckedInv, [Next]_vars,
         ~ (Upsert \/ Delete \/ MutatePayload \/ DieBeforeWalFsync)
  PROVE  /\ wal' = wal /\ writer' \in {0, writer}
         /\ \A j \in Acked' : j \in Acked \/ (writer # 0 /\ j = writer)
<1>1. CASE Apply \/ WriteRaises
  BY <1>1 DEF Apply, WriteRaises, disk, Acked
<1>2. CASE HostCrash
  BY <1>2, CrashKeepsLog DEF ForgetMemory, Acked
<1>3. CASE Close \/ ProcessCrash
  BY <1>3 DEF Close, ProcessCrash, disk, ForgetMemory, UpdateLockFree, Acked
<1>4. CASE \/ FlushWrite \/ FlushPublish \/ FlushInstall \/ FlushRaises
           \/ OptimizeCapture \/ OptimizeWrite \/ OptimizePublish \/ OptimizeInstall
           \/ OptimizeRaises \/ (\E s \in SegIds : Reclaim(s))
           \/ Open \/ Replay \/ Opened \/ UNCHANGED vars
  <2>1. UNCHANGED <<wal, writer, unacked>>
    BY <1>4 DEF FlushWrite, FlushPublish, FlushInstall, FlushRaises, OptimizeCapture,
                OptimizeWrite, OptimizePublish, OptimizeInstall, OptimizeRaises, Reclaim,
                Open, Replay, Opened, vars, disk, memory
  <2> QED BY <2>1 DEF Acked
<1> QED BY <1>1, <1>2, <1>3, <1>4 DEF Next

\* A prefix that does not reach the record being written stays as it is, and so does what
\* stands for it.
LEMMA EarlyStays ==
  ASSUME LogIsWhole, AckedInv, TypeOK', [Next]_vars, NEW n, Early(n)
  PROVE  /\ Early(n)' /\ n <= Len(wal') /\ n \in Nat
         /\ \A seg : Upholds(seg, wal, Acked, n) => Upholds(seg, wal', Acked', n)
         /\ \A seg, lo : lo \in Nat /\ Continues(seg, wal, Acked, lo, n)
                            => Continues(seg, wal', Acked', lo, n)
<1>1. n \in Nat /\ n <= Len(wal) /\ (writer # 0 => n < Len(wal)) /\ Len(wal) \in Nat
      /\ writer \in {0, Len(wal)}
  BY AckedTypes DEF Early, TypeOK
<1>2. Acked' \in SUBSET (Nat \ {0}) /\ Len(wal') \in Nat
  BY DEF Acked, TypeOK
<1>3. /\ Early(n)' /\ n <= Len(wal')
      /\ \A k \in 1 .. n : wal'[k] = wal[k]
      /\ \A j \in Acked' : j <= n => j \in Acked
  <2>1. CASE Upsert \/ Delete \/ MutatePayload \/ DieBeforeWalFsync
    BY <1>1, <2>1, Appends DEF Early
  <2>2. CASE ~ (Upsert \/ Delete \/ MutatePayload \/ DieBeforeWalFsync)
    <3>1. /\ wal' = wal /\ writer' \in {0, writer}
          /\ \A j \in Acked' : j \in Acked \/ (writer # 0 /\ j = writer)
      BY <2>2, LogStays
    <3> QED BY <1>1, <3>1 DEF Early
  <2> QED BY <2>1, <2>2
<1>4. \A j \in Acked' : j \in Nat \ {0} /\ (j <= n => j \in Acked)
  BY <1>2, <1>3
<1>5. ASSUME NEW seg
      PROVE  /\ Upholds(seg, wal, Acked, n) => Upholds(seg, wal', Acked', n)
             /\ \A lo \in Nat : Continues(seg, wal, Acked, lo, n)
                                  => Continues(seg, wal', Acked', lo, n)
  BY <1>1, <1>3, <1>4, UpheldOfPrefix
<1> QED BY <1>1, <1>3, <1>5

\* No step changes a directory that a root or the memory names.
LEMMA NamedImagesStay ==
  ASSUME AckedInv, [Next]_vars
  PROVE  \A s \in ToSet(root.segs) \cup InUse : image'[s] = image[s]
<1>1. /\ ToSet(root.segs) \cup InUse \cup retired \subseteq dirs /\ InUse \cap retired = {}
      /\ dirs \subseteq SegIds /\ image \in [SegIds -> Segment]
      /\ \A s \in ToSet(root.segs) : s \notin retired
  BY RootNotRetired DEF AckedInv, DiskInv, RootOnDisk, TypeOK
<1>2. CASE FlushWrite \/ OptimizeWrite
  <2>1. \E s \in SegIds \ dirs : \E seg : image' = [image EXCEPT ![s] = seg]
    BY <1>2 DEF FlushWrite, OptimizeWrite
  <2> QED BY <1>1, <2>1
<1>3. CASE OptimizeRaises
  <2>1. CASE opt.phase = "captured"
    BY <2>1, <1>3 DEF OptimizeRaises, BuiltNotPublished
  <2>2. CASE opt.phase # "captured"
    <3>1. /\ opt.phase = "written" /\ image' = [image EXCEPT ![opt.seg] = EmptySegment]
      BY <1>3, <2>2 DEF OptimizeRaises, BuiltNotPublished
    <3>2. opt.seg \in Unused /\ status = "open" /\ flush.phase # "published" /\ root = manifest
      BY <3>1 DEF AckedInv, DiskInv, OptOwns, OnlyOpenIsBusy, NoOpt, Idle, FlushOwns, RootInMemory
    <3> QED BY <1>1, <3>1, <3>2 DEF Unused, InUse
  <2> QED BY <2>1, <2>2
<1>4. CASE \E s \in SegIds : Reclaim(s)
  <2>1. PICK s \in retired : image' = [image EXCEPT ![s] = EmptySegment]
    BY <1>4 DEF Reclaim
  <2> QED BY <1>1, <2>1
<1>5. CASE Upsert \/ Delete \/ MutatePayload \/ DieBeforeWalFsync
  BY <1>5, Appends
<1>6. CASE \/ Apply \/ WriteRaises \/ FlushPublish \/ FlushInstall \/ FlushRaises
           \/ OptimizeCapture \/ OptimizePublish \/ OptimizeInstall
           \/ Close \/ ProcessCrash \/ HostCrash \/ Open \/ Replay \/ Opened \/ UNCHANGED vars
  BY <1>6 DEF Apply, WriteRaises, FlushPublish, FlushInstall, FlushRaises, OptimizeCapture,
              OptimizePublish, OptimizeInstall, Close, ProcessCrash, HostCrash, Open, Replay,
              Opened, vars, disk
<1> QED BY <1>2, <1>3, <1>4, <1>5, <1>6 DEF Next

\* A good root stays good.
LEMMA GoodStays ==
  ASSUME LogIsWhole, AckedInv, TypeOK', [Next]_vars, NEW r \in {root, durable, manifest}, Good(r)
  PROVE  /\ Early(r.boundary)'
         /\ Upholds(Latest([i \in DOMAIN r.segs |-> image'[r.segs[i]]]), wal', Acked', r.boundary)
<1>1. \A s \in ToSet(r.segs) : image'[s] = image[s]
  BY NamedImagesStay DEF InUse
<1>2. [i \in DOMAIN r.segs |-> image'[r.segs[i]]] = Images(r.segs)
  BY <1>1 DEF Images, ToSet
<1>3. Early(r.boundary) /\ Upholds(Latest(Images(r.segs)), wal, Acked, r.boundary)
  BY DEF Good
<1> QED BY <1>2, <1>3, EarlyStays

-----------------------------------------------------------------------------
LEMMA AckedInit == Init => AckedInv
<1> SUFFICES ASSUME Init PROVE AckedInv
  OBVIOUS
<1>1. DiskInv /\ AlwaysSynced /\ FlushHolds /\ OptUpholds
  BY InitInv DEF IInv, Init, OptUpholds, NoOpt
<1>2. /\ wal = <<>> /\ Len(wal) = 0 /\ writer = 0 /\ status = "open" /\ Applied = 0
      /\ root = [segs |-> <<>>, boundary |-> 0] /\ durable = root /\ manifest = root
      /\ mutable = EmptySegment
  BY DEF Init, Applied
<1>3. Latest(Images(root.segs)) = EmptySegment
  BY <1>2 DEF Images, Latest, EmptySegment
<1>4. Upholds(EmptySegment, wal, Acked, 0)
  <2>1. ASSUME NEW id \in Ids PROVE NoneAcked(wal, Acked, id, 0, 0)
    BY <1>2, AckedOfLog DEF NoneAcked
  <2>2. ASSUME NEW id \in Ids PROVE EmptySegment[id] = Absent
    BY DEF EmptySegment
  <2> QED BY <2>1, <2>2 DEF Upholds, Stands
<1>5. Good(root) /\ Good(durable) /\ Good(manifest)
  BY <1>2, <1>3, <1>4 DEF Good, Early
<1>6. Continues(mutable, wal, Acked, 0, 0)
  BY <1>2, EmptyContinues, AckedOfLog
<1> QED BY <1>1, <1>2, <1>5, <1>6 DEF AckedInv, RootsUphold, MemoryUpholds

\* No frame is left unsynced where the host may crash.
LEMMA SyncedStays ==
  ASSUME LogIsWhole, AckedInv, [Next]_vars
  PROVE  AlwaysSynced'
<1> SUFFICES ASSUME HostFails PROVE synced' = Len(wal')
  BY DEF AlwaysSynced
<1>1. synced = Len(wal) /\ Durability = "always" /\ ~ DieBeforeWalFsync
  BY DEF AckedInv, AlwaysSynced, LogIsWhole, DieBeforeWalFsync
<1>2. CASE Upsert \/ Delete \/ MutatePayload
  BY <1>1, <1>2, Appends DEF SyncedAfterAppend
<1>3. CASE HostCrash
  BY <1>3, CrashKeepsLog
<1>4. CASE Close
  BY <1>4 DEF Close
<1>5. CASE ~ (Upsert \/ Delete \/ MutatePayload \/ HostCrash \/ Close)
  <2>1. UNCHANGED <<wal, synced>>
    BY <1>1, <1>5 DEF Next, Apply, WriteRaises, FlushWrite, FlushPublish, FlushInstall,
         FlushRaises, OptimizeCapture, OptimizeWrite, OptimizePublish, OptimizeInstall,
         OptimizeRaises, Reclaim, ProcessCrash, Open, Replay, Opened, vars, disk
  <2> QED BY <1>1, <2>1
<1> QED BY <1>2, <1>3, <1>4, <1>5

-----------------------------------------------------------------------------
(***************************************************************************)
(* The roots.                                                              *)
(***************************************************************************)
\* Every root is one there was, but for the two publications.
LEMMA RootsComeFrom ==
  ASSUME AckedInv, [Next]_vars
  PROVE  /\ ~ (FlushPublish \/ OptimizePublish) => root' \in {root, durable}
         /\ durable' \in {root, durable}
         /\ status' # "down" => manifest' = root \/ (manifest' = manifest /\ status # "down")
<1>1. CASE Upsert \/ Delete \/ MutatePayload \/ DieBeforeWalFsync
  BY <1>1, Appends DEF ForgetMemory
<1>2. CASE FlushInstall \/ OptimizeInstall
  <2>1. status # "down"
    BY <1>2 DEF FlushInstall, OptimizeInstall, AckedInv, DiskInv, OnlyOpenIsBusy, NoFlush,
                NoOpt, Idle
  <2>2. manifest' = root
    BY <1>2, <2>1 DEF FlushInstall, OptimizeInstall, AckedInv, DiskInv, RootInMemory
  <2> QED BY <1>2, <2>2 DEF FlushInstall, OptimizeInstall
<1>3. CASE FlushPublish \/ OptimizePublish
  <2>1. status # "down"
    BY <1>3 DEF FlushPublish, OptimizePublish, AckedInv, DiskInv, OnlyOpenIsBusy, NoFlush,
                NoOpt, Idle
  <2> QED BY <1>3, <2>1 DEF FlushPublish, OptimizePublish
<1>4. CASE \E s \in SegIds : Reclaim(s)
  BY <1>4 DEF Reclaim, AckedInv, DiskInv, OnlyOpenIsBusy
<1>5. CASE \/ Apply \/ WriteRaises \/ FlushWrite \/ FlushRaises \/ OptimizeCapture
           \/ OptimizeWrite \/ OptimizeRaises \/ Close \/ ProcessCrash \/ HostCrash
           \/ Open \/ Replay \/ Opened \/ UNCHANGED vars
  BY <1>5 DEF Apply, WriteRaises, FlushWrite, FlushRaises, OptimizeCapture, OptimizeWrite,
              OptimizeRaises, Close, ProcessCrash, HostCrash, ForgetMemory, Open, Replay,
              Opened, vars, disk, memory
<1> QED BY <1>1, <1>2, <1>3, <1>4, <1>5 DEF Next

\* What a flush publishes: the segments and the tail that memory held.
LEMMA FlushedRootUpholds ==
  ASSUME LogIsWhole, AckedInv, FlushPublish
  PROVE  Good(root)'
<1>1. /\ root' = FlushManifest /\ status = "open" /\ writer = 0
      /\ UNCHANGED <<wal, image, writer, unacked>>
      /\ image[flush.seg] = mutable /\ flush.seg \in SegIds
  BY DEF FlushPublish, AckedInv, DiskInv, OnlyOpenIsBusy, NoFlush, Idle, FlushHolds, TypeOK,
         FlushState
<1>2. /\ Upholds(Latest(Images(manifest.segs)), wal, Acked, manifest.boundary)
      /\ Continues(mutable, wal, Acked, manifest.boundary, Len(wal))
      /\ manifest.boundary <= Len(wal)
  BY <1>1 DEF AckedInv, MemoryUpholds, Good, Early, Applied
<1>3. /\ manifest \in Root /\ manifest.boundary \in Nat /\ Len(wal) \in Nat
      /\ Images(manifest.segs) \in Seq(Segment) /\ mutable \in Segment
      /\ Acked \in SUBSET Nat /\ manifest.segs \in Seq(SegIds)
      /\ image \in [SegIds -> Segment]
  BY AckedTypes DEF TypeOK, Root
<1>4. Upholds(Latest(Append(Images(manifest.segs), mutable)), wal, Acked, Len(wal))
  BY <1>2, <1>3, TailUpholds
<1>5. Images(Append(manifest.segs, flush.seg)) = Append(Images(manifest.segs), mutable)
  BY <1>1, <1>3, ImagesAppend
<1>6. /\ root'.boundary = Len(wal)
      /\ [i \in DOMAIN root'.segs |-> image'[root'.segs[i]]]
           = Append(Images(manifest.segs), mutable)
  BY <1>1, <1>5 DEF Images, FlushManifest
<1>7. Early(root.boundary)'
  BY <1>1, <1>3, <1>6 DEF Early
<1>8. wal' = wal /\ Acked' = Acked
  BY <1>1 DEF Acked
<1>9. Upholds(Latest([i \in DOMAIN root'.segs |-> image'[root'.segs[i]]]), wal', Acked',
              root'.boundary)
  BY <1>4, <1>6, <1>8
<1> QED BY <1>7, <1>9 DEF Good, Images

\* What an optimize publishes: the segment it built.
LEMMA OptimizedRootUpholds ==
  ASSUME LogIsWhole, AckedInv, OptimizePublish
  PROVE  Good(root)'
<1>1. /\ root' = OptimizeManifest /\ opt.phase = "written" /\ writer = 0
      /\ UNCHANGED <<wal, image, writer, unacked>>
      /\ Early(opt.boundary) /\ Upholds(image[opt.seg], wal, Acked, opt.boundary)
      /\ opt.seg \in SegIds /\ image[opt.seg] \in Segment
  BY DEF OptimizePublish, MayPublish, UpdateLockFree, AckedInv, DiskInv, TypeOK, OptState,
         OptUpholds, NoOpt, Idle
<1>2. [i \in DOMAIN <<opt.seg>> |-> image[<<opt.seg>>[i]]] = <<image[opt.seg]>>
  OBVIOUS
<1>3. Latest(<<image[opt.seg]>>) = image[opt.seg]
  BY <1>1, LatestSingle
<1> QED BY <1>1, <1>2, <1>3 DEF Good, Early, OptimizeManifest, Images, Acked

LEMMA RootsStay ==
  ASSUME LogIsWhole, AckedInv, TypeOK', [Next]_vars
  PROVE  RootsUphold' /\ (status' # "down" => Good(manifest)')
<1>1. /\ Good(root) /\ Good(durable) /\ (status # "down" => Good(manifest))
  BY DEF AckedInv, RootsUphold, MemoryUpholds
<1>2. ASSUME NEW r \in {root, durable, manifest}, Good(r), root' = r PROVE Good(root)'
  BY <1>2, GoodStays DEF Good, Early, Images
<1>3. ASSUME NEW r \in {root, durable, manifest}, Good(r), durable' = r PROVE Good(durable)'
  BY <1>3, GoodStays DEF Good, Early, Images
<1>4. ASSUME NEW r \in {root, durable, manifest}, Good(r), manifest' = r PROVE Good(manifest)'
  BY <1>4, GoodStays DEF Good, Early, Images
<1>5. Good(root)'
  BY <1>1, <1>2, RootsComeFrom, FlushedRootUpholds, OptimizedRootUpholds
<1> QED BY <1>1, <1>3, <1>4, <1>5, RootsComeFrom DEF RootsUphold

-----------------------------------------------------------------------------
(***************************************************************************)
(* The memory.                                                             *)
(***************************************************************************)
\* The mutable segment goes on holding what it held.
LEMMA TailStays ==
  ASSUME LogIsWhole, AckedInv, TypeOK', [Next]_vars, status # "down"
  PROVE  /\ manifest.boundary \in Nat /\ Applied \in Nat /\ manifest.boundary <= Applied
         /\ Applied <= Len(wal) /\ Applied <= Len(wal')
         /\ Continues(mutable, wal', Acked', manifest.boundary, Applied)
<1>1. /\ manifest.boundary \in Nat /\ Len(wal) \in Nat
      /\ Applied \in manifest.boundary .. Len(wal)
      /\ Continues(mutable, wal, Acked, manifest.boundary, Applied)
  BY AckedTypes DEF AckedInv, MemoryUpholds
<1>2. Early(Applied)
  BY <1>1 DEF Early, Applied, AckedInv, DiskInv, OnlyOpenIsBusy, TypeOK
<1> QED BY <1>1, <1>2, EarlyStays

\* Where the step changes neither the memory's root nor its tail.
LEMMA MemoryStays ==
  ASSUME LogIsWhole, AckedInv, TypeOK', [Next]_vars, status # "down", Good(manifest)',
         Applied' = Applied, UNCHANGED <<manifest, mutable>>
  PROVE  MemoryUpholds'
<1>1. /\ manifest.boundary \in Nat /\ Applied \in Nat /\ manifest.boundary <= Applied
      /\ Applied <= Len(wal') /\ Len(wal') \in Nat
      /\ Continues(mutable, wal', Acked', manifest.boundary, Applied)
  BY TailStays DEF TypeOK
<1> QED BY <1>1 DEF MemoryUpholds

\* A write that returns has been applied; one that raises was not acknowledged.
LEMMA WriteEndUpholds ==
  ASSUME LogIsWhole, AckedInv, TypeOK', Apply \/ WriteRaises, Good(manifest)'
  PROVE  MemoryUpholds'
<1>1. /\ writer = Len(wal) /\ writer # 0 /\ status = "open" /\ Len(wal) \in Nat
      /\ wal' = wal /\ writer' = 0 /\ UNCHANGED <<status, manifest>>
      /\ Applied = Len(wal) - 1 /\ Applied' = Len(wal)
  BY AckedTypes DEF Apply, WriteRaises, disk, TypeOK, AckedInv, DiskInv, OnlyOpenIsBusy, Applied
<1>2. [Next]_vars
  BY DEF Next
<1>3. /\ manifest.boundary \in Nat /\ Applied \in Nat /\ manifest.boundary <= Applied
      /\ Continues(mutable, wal, Acked', manifest.boundary, Applied)
  BY <1>1, <1>2, TailStays
<1>4. Acked' \in SUBSET Nat
  BY <1>1, AckedTypes DEF Acked
<1>5. Continues(mutable', wal, Acked', manifest.boundary, Applied + 1)
  <2>1. CASE Apply
    <3>1. mutable' = ApplyRecord(mutable, wal[Applied + 1], Applied + 1)
      BY <1>1, <2>1 DEF Apply
    <3> QED BY <1>3, <1>4, <3>1, AppliedContinues
  <2>2. CASE WriteRaises
    <3>1. mutable' = mutable /\ Applied + 1 \notin Acked'
      BY <1>1, <2>2 DEF WriteRaises, Acked
    <3> QED BY <1>3, <1>4, <3>1, SkippedContinues
  <2> QED BY <2>1, <2>2
<1> QED BY <1>1, <1>3, <1>5 DEF MemoryUpholds

\* A flush leaves nothing behind the boundary; an optimize leaves what came later.
LEMMA InstallUpholds ==
  ASSUME LogIsWhole, AckedInv, TypeOK', FlushInstall \/ OptimizeInstall, Good(manifest)'
  PROVE  MemoryUpholds'
<1>1. /\ status = "open" /\ writer = 0 /\ Len(wal) \in Nat /\ Applied = Len(wal)
      /\ UNCHANGED <<wal, status, writer, unacked>> /\ Applied' = Len(wal) /\ Acked' = Acked
      /\ Acked \in SUBSET Nat
  BY AckedTypes DEF FlushInstall, OptimizeInstall, AckedInv, DiskInv, OnlyOpenIsBusy, NoFlush,
                    NoOpt, Idle, FlushHolds, OptUpholds, Applied, Acked
<1>2. CASE FlushInstall
  <2>1. manifest'.boundary = Len(wal) /\ mutable' = EmptySegment
    BY <1>2 DEF FlushInstall, FlushManifest
  <2> QED BY <1>1, <2>1, EmptyContinues DEF MemoryUpholds
<1>3. CASE OptimizeInstall
  <2>1. manifest'.boundary = opt.boundary /\ mutable' = NewerThan(mutable, opt.boundary)
    BY <1>3 DEF OptimizeInstall, OptimizeManifest, LateRecords
  <2>2. /\ opt.boundary \in Nat /\ manifest.boundary \in Nat
        /\ manifest.boundary <= opt.boundary /\ opt.boundary <= Len(wal)
        /\ Continues(mutable, wal, Acked, manifest.boundary, Len(wal))
        /\ mutable \in Segment
    BY <1>1, <1>3, AckedTypes DEF OptimizeInstall, AckedInv, OptUpholds, MemoryUpholds, Early,
                                  TypeOK, Idle
  <2>3. Continues(NewerThan(mutable, opt.boundary), wal, Acked, opt.boundary, Len(wal))
    BY <1>1, <2>2, NewerContinues
  <2> QED BY <1>1, <2>1, <2>2, <2>3 DEF MemoryUpholds
<1> QED BY <1>2, <1>3

\* open() starts from the root and applies record after record.
LEMMA RestartUpholds ==
  ASSUME LogIsWhole, AckedInv, TypeOK', Open \/ Replay \/ Opened, Good(manifest)'
  PROVE  MemoryUpholds'
<1>1. UNCHANGED <<wal, writer, unacked>> /\ Acked' = Acked /\ Acked \in SUBSET Nat
  BY AckedTypes DEF Open, Replay, Opened, disk, Acked
<1>2. CASE Open
  <2>1. /\ manifest'.boundary = root.boundary /\ mutable' = EmptySegment
        /\ Applied' = root.boundary /\ root.boundary \in Nat /\ root.boundary <= Len(wal)
        /\ Len(wal) \in Nat
    BY <1>2, AckedTypes DEF Open, ReplayFrom, Applied, AckedInv, DiskInv, OnlyOpenIsBusy,
                            RootsUphold, Good, Early
  <2> QED BY <1>1, <2>1, EmptyContinues DEF MemoryUpholds
<1>3. CASE Replay
  <2>1. /\ status = "recovering" /\ Applied = replayed /\ Applied' = replayed + 1
        /\ replayed < Len(wal) /\ manifest' = manifest /\ status' = status
        /\ mutable' = ApplyRecord(mutable, wal[replayed + 1], replayed + 1)
    BY <1>3 DEF Replay, Applied
  <2>2. [Next]_vars /\ status # "down" /\ Len(wal) \in Nat
    BY <1>3, <2>1, AckedTypes DEF Next
  <2>3. /\ manifest.boundary \in Nat /\ replayed \in Nat /\ manifest.boundary <= replayed
        /\ Continues(mutable, wal, Acked, manifest.boundary, replayed)
    BY <1>1, <2>1, <2>2, TailStays
  <2>4. Continues(mutable', wal, Acked, manifest.boundary, replayed + 1)
    BY <1>1, <2>1, <2>3, AppliedContinues
  <2> QED BY <1>1, <2>1, <2>2, <2>3, <2>4 DEF MemoryUpholds
<1>4. CASE Opened
  <2>1. /\ status = "recovering" /\ writer = 0 /\ replayed >= Len(wal)
        /\ status' = "open" /\ UNCHANGED <<manifest, mutable>> /\ [Next]_vars
    BY <1>4 DEF Opened, AckedInv, DiskInv, OnlyOpenIsBusy, Next
  <2>2. Applied = replayed /\ Applied <= Len(wal) /\ Applied \in Nat /\ Len(wal) \in Nat
    BY <2>1, TailStays, AckedTypes DEF Applied
  <2>3. Applied' = Applied
    BY <1>1, <2>1, <2>2 DEF Applied
  <2> QED BY <2>1, <2>3, MemoryStays
<1> QED BY <1>2, <1>3, <1>4

LEMMA MemoryNext ==
  ASSUME LogIsWhole, AckedInv, TypeOK', [Next]_vars
  PROVE  MemoryUpholds'
<1> SUFFICES ASSUME status' # "down" PROVE MemoryUpholds'
  BY DEF MemoryUpholds
<1>1. Good(manifest)'
  BY RootsStay
<1>2. CASE Upsert \/ Delete \/ MutatePayload \/ DieBeforeWalFsync
  <2>1. /\ status = "open" /\ writer = 0 /\ writer' = Len(wal) + 1
        /\ Len(wal') = Len(wal) + 1 /\ Len(wal) \in Nat
        /\ UNCHANGED <<status, manifest, mutable>>
    BY <1>2, Appends, AckedTypes DEF ForgetMemory
  <2>2. Applied' = Applied
    BY <2>1 DEF Applied
  <2> QED BY <1>1, <2>1, <2>2, MemoryStays
<1>3. CASE \/ FlushWrite \/ FlushPublish \/ FlushRaises \/ OptimizeCapture \/ OptimizeWrite
           \/ OptimizePublish \/ OptimizeRaises \/ (\E s \in SegIds : Reclaim(s))
           \/ UNCHANGED vars
  <2>1. UNCHANGED <<wal, status, manifest, mutable, replayed, writer>>
    BY <1>3 DEF FlushWrite, FlushPublish, FlushRaises, OptimizeCapture, OptimizeWrite,
                OptimizePublish, OptimizeRaises, Reclaim, vars, disk, memory
  <2>2. Applied' = Applied
    BY <2>1 DEF Applied
  <2> QED BY <1>1, <2>1, <2>2, MemoryStays
<1>4. CASE Close \/ ProcessCrash \/ HostCrash
  BY <1>4 DEF Close, ProcessCrash, HostCrash, ForgetMemory
<1> QED BY <1>1, <1>2, <1>3, <1>4, WriteEndUpholds, InstallUpholds, RestartUpholds DEF Next

-----------------------------------------------------------------------------
(***************************************************************************)
(* What a flush and an optimize have built.                                *)
(***************************************************************************)
LEMMA FlushNext ==
  ASSUME AckedInv, [Next]_vars
  PROVE  FlushHolds'
<1> SUFFICES ASSUME flush'.phase # Idle
             PROVE  writer' = 0 /\ image'[flush'.seg] = mutable'
  BY DEF FlushHolds
<1>1. image \in [SegIds -> Segment] /\ dirs \subseteq SegIds
  BY DEF AckedInv, DiskInv, TypeOK
<1>2. flush.phase # Idle => /\ status = "open" /\ writer = 0 /\ opt.phase = Idle
                            /\ image[flush.seg] = mutable /\ flush.seg \notin retired
  BY DEF AckedInv, DiskInv, OnlyOpenIsBusy, NoFlush, FlushHolds, FlushOwns, Unused
<1>3. CASE FlushWrite
  BY <1>1, <1>3 DEF FlushWrite, FlushedRecords, UpdateLockFree
<1>4. CASE FlushPublish
  <2>1. flush'.seg = flush.seg /\ flush.phase # Idle
    BY <1>4 DEF FlushPublish, AckedInv, DiskInv, TypeOK, FlushState, NoFlush, Idle
  <2> QED BY <1>2, <1>4, <2>1 DEF FlushPublish
<1>5. CASE \E s \in SegIds : Reclaim(s)
  BY <1>1, <1>2, <1>5 DEF Reclaim
<1>6. CASE Upsert \/ Delete \/ MutatePayload \/ DieBeforeWalFsync
  BY <1>6, Appends DEF ForgetMemory, NoFlush
<1>7. CASE \/ Apply \/ WriteRaises \/ FlushInstall \/ FlushRaises \/ OptimizeCapture
           \/ OptimizeWrite \/ OptimizePublish \/ OptimizeInstall \/ OptimizeRaises
           \/ Close \/ ProcessCrash \/ HostCrash
  BY <1>2, <1>7
  DEF Apply, WriteRaises, FlushInstall, FlushRaises, OptimizeCapture, OptimizeWrite,
      OptimizePublish, OptimizeInstall, OptimizeRaises, BuiltNotPublished, OptimizerLockFree,
      Close, ProcessCrash, HostCrash, ForgetMemory, NoFlush, Idle
<1>8. CASE Open \/ Replay \/ Opened
  BY <1>2, <1>8 DEF Open, Replay, Opened
<1>9. CASE UNCHANGED vars
  BY <1>2, <1>9 DEF vars, disk, memory
<1> QED BY <1>3, <1>4, <1>5, <1>6, <1>7, <1>8, <1>9 DEF Next

\* What readers see stands for every record applied.
LEMMA VisibleUpholds ==
  ASSUME AckedInv, status # "down"
  PROVE  Upholds(Visible, wal, Acked, Applied)
<1>1. /\ Upholds(Latest(Images(manifest.segs)), wal, Acked, manifest.boundary)
      /\ Continues(mutable, wal, Acked, manifest.boundary, Applied)
      /\ Applied \in manifest.boundary .. Len(wal)
  BY DEF AckedInv, MemoryUpholds, Good
<1>2. /\ Images(manifest.segs) \in Seq(Segment) /\ mutable \in Segment
      /\ manifest.boundary \in Nat /\ Len(wal) \in Nat /\ Acked \in SUBSET Nat
  BY AckedTypes DEF TypeOK
<1>3. Applied \in Nat /\ manifest.boundary <= Applied
  BY <1>1, <1>2
<1> QED BY <1>1, <1>2, <1>3, TailUpholds DEF Visible

LEMMA CaptureUpholds ==
  ASSUME AckedInv, OptimizeCapture
  PROVE  OptUpholds'
<1>1. /\ opt' = [phase |-> "captured", captured |-> Visible, boundary |-> Len(wal)]
      /\ UNCHANGED <<wal, writer, manifest, unacked>> /\ Acked' = Acked
      /\ writer = 0 /\ status = "open" /\ Applied = Len(wal) /\ Len(wal) \in Nat
  BY AckedTypes DEF OptimizeCapture, UpdateLockFree, Applied, disk, Acked
<1>2. Upholds(Visible, wal, Acked, Len(wal)) /\ manifest.boundary <= Len(wal)
  BY <1>1, VisibleUpholds DEF AckedInv, MemoryUpholds, Good, Early
<1> QED BY <1>1, <1>2 DEF OptUpholds, Early

LEMMA BuildUpholds ==
  ASSUME AckedInv, OptimizeWrite
  PROVE  OptUpholds'
<1>1. PICK s \in SegIds \ dirs :
        /\ image' = [image EXCEPT ![s] = DropTombstones(opt.captured)]
        /\ opt' = [phase |-> "written", boundary |-> opt.boundary, seg |-> s]
  BY DEF OptimizeWrite
<1>2. /\ opt.phase = "captured" /\ UNCHANGED <<wal, writer, manifest, unacked>> /\ Acked' = Acked
      /\ image'[s] = DropTombstones(opt.captured)
  BY <1>1 DEF OptimizeWrite, Acked, AckedInv, DiskInv, TypeOK
<1>3. /\ Early(opt.boundary) /\ manifest.boundary <= opt.boundary
      /\ Upholds(opt.captured, wal, Acked, opt.boundary)
      /\ opt.captured \in Segment /\ opt.boundary \in Nat
  BY <1>2 DEF AckedInv, DiskInv, TypeOK, OptState, NoOpt, Idle, OptUpholds
<1>4. Upholds(DropTombstones(opt.captured), wal, Acked, opt.boundary)
  BY <1>3, DroppedUpholds
<1> QED BY <1>1, <1>2, <1>3, <1>4 DEF OptUpholds, Early

\* What a build in progress holds stays while writes go on and segments are reclaimed.
LEMMA OptStays ==
  ASSUME LogIsWhole, AckedInv, TypeOK', [Next]_vars, opt.phase # Idle,
         UNCHANGED <<opt, manifest>>, opt.phase = "published" => writer' = 0,
         opt.phase \in {"written", "published"} => image'[opt.seg] = image[opt.seg]
  PROVE  OptUpholds'
<1>1. /\ Early(opt.boundary) /\ manifest.boundary <= opt.boundary
      /\ opt.phase = "captured" => Upholds(opt.captured, wal, Acked, opt.boundary)
      /\ opt.phase \in {"written", "published"}
           => Upholds(image[opt.seg], wal, Acked, opt.boundary)
  BY DEF AckedInv, OptUpholds
<1>2. /\ opt.boundary \in Nat /\ opt.boundary <= Len(wal')
      /\ writer' # 0 => opt.boundary < Len(wal')
      /\ \A seg : Upholds(seg, wal, Acked, opt.boundary)
                    => Upholds(seg, wal', Acked', opt.boundary)
  BY <1>1, EarlyStays DEF Early
<1> QED BY <1>1, <1>2 DEF OptUpholds, Early

LEMMA OptNext ==
  ASSUME LogIsWhole, AckedInv, TypeOK', [Next]_vars
  PROVE  OptUpholds'
<1> SUFFICES ASSUME opt'.phase # Idle PROVE OptUpholds'
  BY DEF OptUpholds
<1>1. image \in [SegIds -> Segment]
  BY DEF AckedInv, DiskInv, TypeOK
<1>2. /\ opt.phase # Idle => status = "open" /\ flush.phase = Idle
      /\ opt.phase \in {"written", "published"} => opt.seg \notin retired
      /\ opt.phase = "published" => writer = 0
  BY DEF AckedInv, DiskInv, OnlyOpenIsBusy, NoOpt, FlushOwns, OptOwns, Unused, OptUpholds, Idle
<1>3. CASE Upsert \/ Delete \/ MutatePayload \/ DieBeforeWalFsync
  <2>1. UNCHANGED <<opt, manifest, image>> /\ opt.phase # "published"
    BY <1>3, Appends DEF ForgetMemory, NoOpt
  <2> QED BY <2>1, OptStays
<1>4. CASE Apply \/ WriteRaises \/ UNCHANGED vars
  <2>1. UNCHANGED <<opt, manifest, image>> /\ (opt.phase = "published" => writer' = 0)
    BY <1>2, <1>4 DEF Apply, WriteRaises, vars, disk, memory
  <2> QED BY <2>1, OptStays
<1>5. CASE \E s \in SegIds : Reclaim(s)
  <2>1. PICK s \in SegIds : Reclaim(s)
    BY <1>5
  <2>2. /\ UNCHANGED <<opt, manifest, writer>> /\ s \in retired
        /\ image' = [image EXCEPT ![s] = EmptySegment]
    BY <2>1 DEF Reclaim
  <2>3. opt.phase \in {"written", "published"} => image'[opt.seg] = image[opt.seg]
    BY <1>1, <1>2, <2>2 DEF AckedInv, DiskInv, TypeOK, OptState, NoOpt, Idle
  <2> QED BY <1>2, <2>2, <2>3, OptStays
<1>6. CASE OptimizePublish
  <2>1. /\ opt.phase = "written" /\ writer' = 0 /\ UNCHANGED <<wal, image, manifest, writer>>
        /\ opt'.phase = "published" /\ opt'.seg = opt.seg /\ opt'.boundary = opt.boundary
        /\ Acked' = Acked
    BY <1>6 DEF OptimizePublish, MayPublish, UpdateLockFree, Acked, AckedInv, DiskInv, TypeOK,
                OptState, NoOpt, Idle
  <2> QED BY <2>1 DEF OptUpholds, AckedInv, Early, Idle
<1>7. CASE FlushWrite \/ FlushPublish \/ FlushInstall \/ FlushRaises
  BY <1>2, <1>7 DEF FlushWrite, FlushPublish, FlushInstall, FlushRaises, OptimizerLockFree, Idle
<1>8. CASE \/ OptimizeInstall \/ OptimizeRaises \/ Close \/ ProcessCrash \/ HostCrash
           \/ Open \/ Replay \/ Opened
  BY <1>2, <1>8 DEF OptimizeInstall, OptimizeRaises, Close, ProcessCrash, HostCrash,
                    ForgetMemory, NoOpt, Open, Replay, Opened
<1> QED
  BY <1>3, <1>4, <1>5, <1>6, <1>7, <1>8, CaptureUpholds, BuildUpholds DEF Next

-----------------------------------------------------------------------------
(***************************************************************************)
(* The theorem.                                                            *)
(***************************************************************************)
LEMMA AckedNext ==
  ASSUME LogIsWhole, AckedInv, [Next]_vars
  PROVE  AckedInv'
<1>1. DiskInv' /\ TypeOK'
  BY DiskNext DEF AckedInv, DiskInv
<1> QED BY <1>1, SyncedStays, RootsStay, MemoryNext, FlushNext, OptNext DEF AckedInv

\* What stands after the whole log is what HoldsAcked allows.
LEMMA UpheldHoldsAcked ==
  ASSUME NEW seg, Acked \in SUBSET Nat, Len(wal) \in Nat, NEW n \in Nat, n <= Len(wal),
         \A j \in Acked : j \in 1 .. n,
         Upholds(seg, wal, Acked, n)
  PROVE  HoldsAcked(seg)
<1> SUFFICES ASSUME NEW id \in Ids
             PROVE  LET touches == {k \in Acked : id \in DOMAIN wal[k]}
                        later   == {k \in 1 .. Len(wal) : /\ id \in DOMAIN wal[k]
                                                          /\ \A j \in touches : j <= k}
                    IN  \/ \E k \in later : seg[id].val = wal[k][id]
                        \/ touches = {} /\ seg[id] = Absent
  BY DEF HoldsAcked
<1>0. \A j \in Acked : j \in Nat /\ 0 < j /\ j <= n
  OBVIOUS
<1>1. CASE seg[id] = Absent /\ NoneAcked(wal, Acked, id, 0, n)
  <2>1. \A j \in Acked : id \notin DOMAIN wal[j]
    BY <1>0, <1>1 DEF NoneAcked
  <2> QED BY <1>1, <2>1
<1>2. ASSUME NEW k \in 1 .. n, id \in DOMAIN wal[k], seg[id].val = wal[k][id],
             NoneAcked(wal, Acked, id, k, n)
      PROVE  LET touches == {j \in Acked : id \in DOMAIN wal[j]}
                 later   == {j \in 1 .. Len(wal) : /\ id \in DOMAIN wal[j]
                                                   /\ \A i \in touches : i <= j}
             IN  \E j \in later : seg[id].val = wal[j][id]
  <2>1. \A i \in Acked : id \in DOMAIN wal[i] => i <= k
    BY <1>0, <1>2 DEF NoneAcked
  <2>2. k \in 1 .. Len(wal)
    OBVIOUS
  <2> QED BY <1>2, <2>1, <2>2
<1> QED BY <1>1, <1>2 DEF Upholds, Stands

LEMMA AckedInvHolds ==
  ASSUME AckedInv
  PROVE  AckedSurvive
<1>1. /\ wal \in Seq(Operation) /\ Len(wal) \in Nat /\ Acked \in SUBSET Nat
      /\ \A j \in Acked : j \in 1 .. Len(wal)
  BY AckedTypes DEF Acked
<1>2. HoldsAcked(Recovered)
  <2>1. /\ root.boundary \in Nat /\ root.boundary <= Len(wal)
        /\ Images(root.segs) \in Seq(Segment)
        /\ Upholds(Latest(Images(root.segs)), wal, Acked, root.boundary)
    BY AckedTypes DEF AckedInv, RootsUphold, Good, Early
  <2>2. Slice(wal, root.boundary, Len(wal)) \in Segment
    BY <1>1, <2>1, SliceType
  <2>3. Continues(Slice(wal, root.boundary, Len(wal)), wal, Acked, root.boundary, Len(wal))
    BY <1>1, <2>1, SliceContinues
  <2>4. Upholds(Recovered, wal, Acked, Len(wal))
    BY <1>1, <2>1, <2>2, <2>3, TailUpholds DEF Recovered
  <2> QED BY <1>1, <2>4, UpheldHoldsAcked
<1>3. ASSUME status = "open" PROVE HoldsAcked(Visible)
  <2>1. Upholds(Visible, wal, Acked, Applied)
    BY <1>3, VisibleUpholds
  <2>2. Applied \in Nat /\ Applied <= Len(wal) /\ (writer # 0 => writer = Len(wal))
    BY <1>1, <1>3, AckedTypes DEF Applied, TypeOK
  <2>3. \A j \in Acked : j \in 1 .. Applied
    BY <1>1, <1>3, <2>2 DEF Applied, Acked
  <2> QED BY <1>1, <2>1, <2>2, <2>3, UpheldHoldsAcked
<1> QED BY <1>2, <1>3 DEF AckedSurvive

\* Where no log is cut short, and whatever calls raise after their record is in the log,
\* no acknowledged write is lost, undone or overtaken by an earlier one: not for readers,
\* not after a crash between any two steps, not after the restart.
THEOREM AcknowledgedSurvive ==
  ASSUME LogIsWhole
  PROVE  Spec => []AckedSurvive
<1>1. AckedInv /\ [Next]_vars => AckedInv'
  BY AckedNext
<1> QED BY <1>1, AckedInit, AckedInvHolds, PTL DEF Spec

\* A write's version exceeds every version the collection holds for its ids, though
\* versions of writes that raised are in the log too, and perhaps in a root.
THEOREM VersionsAlwaysIncrease ==
  ASSUME LogIsWhole
  PROVE  Spec => VersionsIncrease
<1>1. AckedInv /\ [Next]_vars
        => [Apply => \A id \in DOMAIN wal[writer] : writer > Visible[id].ver]_vars
  <2> SUFFICES ASSUME AckedInv, Apply, NEW id \in DOMAIN wal[writer]
               PROVE  writer > Visible[id].ver
    OBVIOUS
  <2>1. /\ writer = Len(wal) /\ writer # 0 /\ status = "open"
        /\ wal \in Seq(Operation) /\ Len(wal) \in Nat
    BY AckedTypes DEF Apply, AckedInv, DiskInv, OnlyOpenIsBusy, TypeOK
  <2>2. id \in Ids
    BY <2>1 DEF Operation
  <2>3. Upholds(Visible, wal, Acked, Len(wal) - 1)
    <3>1. Applied = Len(wal) - 1
      BY <2>1 DEF Applied
    <3> QED BY <2>1, <3>1, VisibleUpholds
  <2>4. Visible[id] = Absent \/ Visible[id].ver <= Len(wal) - 1
    BY <2>2, <2>3 DEF Upholds, Stands
  <2>5. Visible[id].ver \in Nat
    <3>1. Visible \in Segment
      BY AckedTypes, VisibleType
    <3> QED BY <2>2, <3>1 DEF Segment, Record, Absent
  <2> QED BY <2>1, <2>4, <2>5 DEF Absent
<1>2. AckedInv /\ [Next]_vars => AckedInv'
  BY AckedNext
<1> QED BY <1>1, <1>2, AckedInit, PTL DEF Spec, VersionsIncrease
=============================================================================
