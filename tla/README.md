# MiniQdrant in TLA+

TLA+ modules of MiniQdrant's storage core: a collection's log, manifests,
segments and optimizer, the threads that share it, the files of its segments and
snapshots, its HNSW graph, what its searches return, and the database directory
above it. TLC checks small instances; the safety of the collection, its log file,
publication, the views, snapshots, searches, the graph and the directory is proved with
TLAPS for all of them. Paths below
are relative to `src/src/miniqdrant/`.

## 1. Inventory

MiniQdrant is an in-process vector database. Clients call a `Database`, which
owns `Collection`s; each collection is a directory with a write-ahead log, the
manifests, `CURRENT`, and a directory per immutable segment.

| Component | State | Operations | Interacts by |
|---|---|---|---|
| `database.py` | collections by name, the directory `collections/`, a lock | open, create, drop, close, restore | calls into collections, directory renames |
| `collection.py` | manifest, segment handles, one mutable segment, payload schemas, active views, `_update_lock`, `_optimizer_lock` | open, upsert, delete, payload mutations, flush, optimize, views, search, snapshot, close | threads of one process share it under the two locks |
| `persistence/wal.py`, `frame.py` | one append-only file, the last sequence | append, replay, fsync, repair of a torn tail | called under `_update_lock` |
| `persistence/manifest.py` | manifest files and the `CURRENT` pointer | publish, load | called under `_update_lock`; the two callers clean up after it |
| `segment/mutable.py`, `immutable.py`, `codec.py` | records by point id; files of a segment | apply a log record, iterate, write, read, search | built by flush and optimize |
| `segment/references.py` | reference count, retired flag | acquire, release, retire | shared by views and the optimizer |
| `optimizer/` | none | select latest records, build a replacement, choose sources | called without the update lock |
| `filters/`, `query/`, `index/`, `topk.py`, `metrics.py` | per-segment indexes | candidates, plans, Top-K, HNSW, quantization | called from a view's search |
| `persistence/snapshot.py`, `metadata.py` | files | create and validate snapshots, collection metadata | called under both locks, and by restore |
| `lifecycle.py` | the closed flag | check, mark | read before the locks are taken |
| `models.py`, `ids.py`, `config.py`, `json_values.py` | none | validation and conversion | - |
| `cli.py`, `labs/` | none | sequential callers | - |

What is hard here, and what makes it correct:

- **Crashes.** A write is a log append and an application; a flush or an
  optimize is a segment, a manifest, a pointer and a change of memory. Between
  any two of these a crash must leave what `open()` can rebuild: exactly what the
  log records.
- **Boundaries.** A manifest claims a prefix of the log. It may never claim a
  record its segments do not hold, though writes go on while an optimize builds.
- **Versions.** The log sequence is a record's version; the highest visible
  version wins and a tombstone must outlive every older record of its point.
- **Failures of one step of several.** A write that raises after its append, a
  publication that raises before or after its commit point, an fsync that fails.
- **Files.** Appends cut anywhere, renames not yet durable, directories half
  copied or half removed.
- **Lifetimes.** A retired segment lives until its last reader; close waits, and
  what it has closed stays closed.
- **Searching several segments.** Each returns its own best, stale versions among
  them; the answer must be the best of what is visible. An index that answers a
  filter must select what direct evaluation selects, and knows types where
  evaluation compares values.
- **The graph.** It is built by linking and pruning one point at a time, and a
  search stops by a local test; what it may miss depends on both.
- **Copies.** A snapshot is copied file by file from a directory that lives on,
  must be of one moment, and must be refused once it is damaged.

`PROJECT.json` lists these hazards at their lines with the properties that cover
them, and the ones nothing covers yet.

## 2. Modules

| Module | Models | Abstract specification |
|---|---|---|
| `Segments` | versioned records, segments as functions of the point ids, selection of the latest, tombstone dropping, and the log as the reference of what must be held | - |
| `Collection` (extends `Segments`) | one collection: writes, flush, optimize, reclaiming, close, crashes, recovery | `DurableMap`: an atomic durable map that changes by the writes it is asked for |
| `Wal` | the log file, unit by unit | `AtomicLog`: a log of whole records |
| `Publication` | `ManifestStore.publish` and its callers, one system call at a time | `AtomicRoot`: an atomically replaced root |
| `Views` | the threads on one collection: views, flush, optimize, snapshot, close, reference counts | - |
| `Codec` (extends `Segments`) | a segment as seven files, written and read back | - |
| `Snapshots` (extends `Codec`) | the collection's directory file by file: segments written, snapshots copied, synced, renamed and validated | what was taken is what is restored |
| `Hnsw` | the graph of an indexed segment: insertion, pruning, descent, search of a layer, restarts | - |
| `Filters` (extends `Segments`) | filters, their evaluation, payload indexes, candidates and residuals | direct evaluation |
| `Search` (extends `Filters`) | planner, search of a segment, Top-K, search across segments | brute force over the visible points |
| `Database` | the directory of collections: create, drop, restore, open | - |
| `MCCollection`, `MCPublication`, `MCSearch`, `MCDatabase`, `MCHnsw`, `MCSnapshots` | symmetry, batch sizes, payloads, scores and requests for TLC | |
| `SegmentsProofs`, `CollectionProofs`, `WalProofs`, `PublicationProofs`, `ViewsProofs`, `SnapshotsProofs`, `DatabaseProofs`, `SearchProofs` (of `Search` and of `Hnsw`) | theorems | |

The layers meet at the abstract specifications. `Collection` takes the log for a
sequence of whole records of which a suffix may be lost, which is what `Wal`
shows to implement (`AtomicLog`), and takes publication for one step that a host
crash may undo until the directory is fsynced, which is what `Publication` shows
(`AtomicRoot`). `Database` takes an open collection for data that changes
atomically, which is `DurableMap`. `Collection` deletes a retired directory in one
step, `Reclaim`, when nobody holds it; how reference counts bring that about is
`Views`. `Search` asks what is returned from segments whose making `Collection`
describes, so its own writes, flushes and optimizes are single steps; its graph
search may return any non-empty part of what is allowed, of which `Hnsw` shows more.
`Snapshots` takes the manifest and the log for whole, as `Publication` and `Wal`
show, and looks at the other files one by one; what a restore then does with an
accepted snapshot is in `Database`.

### Collection

The variables are the disk (`wal`, `synced`, `dirs`, `image`, `root`, and
`durable`, the root as of the last fsync of its directory), memory (`manifest`
with `_segments`, `mutable`, the progress of a write, a flush, an optimize and a
replay, `retired` handles) and one history variable, `unacked`, the records whose
write call did not return. An action is what happens between two points where
another thread or a crash can come in:

| Code | Actions |
|---|---|
| `upsert`, `delete`, `_mutate_payload` | `Upsert`, `Delete` or `MutatePayload` (append), then `Apply` or `WriteRaises` |
| `flush` | `FlushWrite`, `FlushPublish`, `FlushInstall`, or `FlushRaises` |
| `_optimize` | `OptimizeCapture`, `OptimizeWrite`, `OptimizePublish`, `OptimizeInstall`, or `OptimizeRaises` |
| `SegmentHandle` | `Reclaim` |
| `open` | `Open`, `Replay` per record, `Opened` |
| `close`, the end of the process or of the host | `Close`, `ProcessCrash`, `DieBeforeWalFsync`, `HostCrash` |

The locks need no variables: the update lock is held exactly while a write is
between its two steps, a flush runs, or an optimize is between publication and
installation; the optimizer lock while a flush or an optimize runs. Vectors,
payload values and point ids are model values; a payload is the set of its fields,
so that replace, merge and delete differ. A batch is a function, because all
points of a batch have one version and the first of two with the same id wins.

`Faults` names what may fail: `before_wal_fsync` (the process dies between the
write of a frame and its fsync), and the code's own injection points
`after_wal_fsync` and `before_current_replace`.

`DurableMap` is the map a client sees: `contents`, what a restart would recover;
`served`, what a read returns; and `pending`, the write between its append and its
application. A write is a function from the ids it names to their new values, and
`Writes` are those a client may ask for in the present state: any batch of upserts or
deletions, and a replace, merge or deletion of payload fields on those of the named
points that exist. `Commit` changes the contents by exactly that write, `Acknowledge`
what is served by the same one, and a crash (`Interrupted`) by one write or none. In the
mapping the pending write is the log record that `writer` points to, so that `Commit`
says that the record which was appended is the write it is taken for.

### Wal

`file` is what the process sees, `disk` what the last fsync covered; a frame of
size n is n units, the first `HeaderSize` of them its header. A process crash cuts
the frame being written anywhere; a host crash also loses any suffix of what was
not fsynced. The scan finds the last valid frame and a verdict on the rest:
intact, torn (repaired by truncation and fsync) or corrupt (refused). `promised`
is the history of the records callers may rely on.

Assumptions on the file system: bytes are lost from the end of a file, never from
its middle, a checksum matches only its own frame, and a truncation is lost as a
whole or in part like a write.

### Publication

The directory is a function from names to contents, `synced` the same as of its
last fsync. A host crash undoes any subset of the entries changed since. Each step
of `publish` is an action; `Refused` are the errors the code itself raises,
`Raises` a system call that fails, and `Abandon` the callers' cleanups. File
contents are fsynced before they are renamed, so a renamed file is whole.

### Views

A thread is in one operation at a time (`pc`). `Begin` is `_ensure_open`; everything
that a thread does under one hold of `_update_lock` is one step; `_optimizer_lock`
is the variable `optimizer`, because optimize() and close() keep it over several
steps. flush() holds both locks throughout and is one step, enabled when
`_optimizer_lock` is free. A release and the removal of the directory are two steps,
`Release` and `Remove`, because the handle's lock is dropped between them. close()
is `MarkClosed`, `CloseLocks`, `CloseWaits` (which gives up the update lock and keeps
the other) and `CloseReturns`; the last `ReleaseView` wakes it.

| Code | Actions |
|---|---|
| `capture_view`, `CollectionView.close`, `search` | `Begin`, `CaptureView`, `CloseView`, `Release` and `Remove` per handle, `ReleaseView` |
| `flush` | `Begin`, `Flush` |
| `create_snapshot` | `Begin`, `Snapshot`, whose flush reads the flag again |
| `optimize`, `merge`, `vacuum` | `Begin`, `OptimizeCapture` or `OptimizeTooLate`, `OptimizePublish` or `OptimizeRaises`, `Release` and `Remove`, `OptimizeReturns` |
| `close` | `MarkClosed`, `CloseLocks`, `CloseWaits`, `CloseReturns` |

An open view (`viewing`) is apart from what its thread does: the thread may call anything
else, close() too, before it closes the view, and holds the view's handles (`held`) beside
those of its optimize. Whoever then waits for `_optimizer_lock`, and a close() that waits
for the view, wait for each other for ever (section 4). A thread has one view at a time.
Left out: errors inside capture_view(), which leak its handles.

### Codec and Snapshots

A directory is a function from paths to files, and a file is its content (`File`) or
`Torn`: one that was cut or changed, which the length, the CRC and the SHA-256 of a blob
all find out.
`Codec` says which part of a segment's image each of the seven files holds
(`ImageFiles`), in which order they are written (`Written`), what reading refuses
(`Readable`) and what it gives back (`DecodeRecords`): a tombstone is a version and
a deletion mark without a point.

In `Snapshots` one task at a time, a flush, an optimize or a snapshot, holds
`_optimizer_lock`, and flush and snapshot the update lock too; writers, index
declarations and the release of retired segments run beside it as the locks allow.

| Code | Actions |
|---|---|
| `write_atomic` | `WriteFile` per file, `RenameSegment` |
| `flush`, `_optimize` | `Flush` or `Optimize`, `BuildReplacement`, the files, `PublishFlush` or `PublishOptimize` |
| `create_snapshot`, `create_collection_snapshot` | `CreateSnapshot` (the flush first), `Check`, `Copy` per file or directory, `WriteIndex`, `Sync`, `Replace`, `Confirm`, or `Raise` |
| `validate_collection_snapshot` | `Accepts` |
| the end of the process or of the host | `ProcessCrash`, `HostCrash` |

`Damage` is the environment: it removes, tears or adds any file of a snapshot. A host
crash undoes renames whose parent directory was not fsynced and tears files that
were not. `NewParents` are the destinations in a directory that `mkdir(parents=True)`
has to create: only that directory is fsynced and not the ones above it, so that their
snapshots stay among what a crash may take. `taken` is the history of what the collection
held when a snapshot appeared: points, last sequence and schemas.

### Hnsw

The graph is `vectors`, `levels`, `links` (the neighbours of each point in each
layer), the entry point and its level. A point is its place in the order of ids,
which is the order of insertion. Each turn of a loop of `_insert`, `_greedy`,
`_search_layer` and `search` is a step, with the window (`seen`, `best`,
`frontier`, `current`) in the state; `Look` takes any neighbour next, because the
code iterates over a set. A level, a hash of the id in the code, is any level. The
score is a parameter. Where `Search` has a name too, that of the graph is another:
`GraphSpec`, `GraphNext`, `Nodes` for its points, `Closer` for `_better`. Searches run when no insertion does, as the graph of the code
is built once and then only read.

| Code | Actions |
|---|---|
| `_insert`, `_prune` | `InsertFirst` or `Insert`, `Greedy`, the layer's search, `Choose`, `Connect` per neighbour, `NextLayer`, `Inserted` |
| `_greedy` | `Greedy` |
| `_search_layer` | `Expand`, `Look` |
| `search` | `Search`, `Greedy`, the layer's search, `Restart`, `Answer`, `Return` |

### Filters and Search

A payload is a set of pairs of a path and a scalar, what `resolve_path` yields from
nested objects and arrays. A scalar is its Python type and its value (`Scalars`):
evaluation compares by `Equal`, for which the integer 1, the float 1.0 and True are
the same, as Python's == does, and so do the keys of an index (`Key`), while what an
index accepts depends on the type (`Accepts`). Conditions are records, and `Conditions` a set of them
closed under parts, so that evaluation and index resolution are functions on it
and no recursive operator is needed; a filter is made of conditions that were there
before it, so no set of them goes on for ever (`FilterAssumption`). An index keeps the values it accepts of each
point and the points of each value; `IndexUpsert` and `IndexDelete` follow the
write path, `BuiltIndex` the one that builds it from a segment at once. `Candidates`
resolves a filter to points and to whether the answer is exact; if not, the filter
itself is applied again to what was found (`residual`).

`Search` has one query: `vec` is a point's score under it, and ties are broken by
id. `Strategy` is the planner. A scan is deterministic. A graph search returns the
best allowed ones of some non-empty set of points, whichever the walk comes by;
a quantized search picks as many candidates as the oversampling allows, any of them,
and ranks them by exact score: both contain what the code does and more. `Answers`
is `_search`: each segment is asked for the limit plus the number of its live
records that a newer version hides, and what is not the visible version is
rejected. `mutableIndexes` is kept in the state because its history matters; the
indexes of an immutable segment are a function of its records and schemas.

### Database

A directory is what `Collection.open` asks of it: the name in `collection.json`
and the rest of the data, either of them possibly missing. Copies and removals of
trees go file by file in no particular order. `Open` opens every directory that
has a `collection.json`, hidden stages and backups too, as the code does; the last
in name order is served. `acceptable` is the history of what clients may expect.
Restores run while no database is open, the precondition that
`src/docs/tutorial/10-snapshots-methodology.md` states.

## 3. Runs

| Run | Shows | Bounds |
|---|---|---|
| `collection_safety` | `IInv`, `RecoveryMatchesLog`, `ReadsMatchLog`, `PublicationInvisible`, `PromiseSpec` (implements `DurableMap`) with process and host crashes and failed publications, `always` | 2 points, no payload fields, 3 directories, 3 records |
| `collection_raised` | `AckedSurvive`, `RootOnDisk`, `VersionsIncrease` with all three faults | 2 points, 1 payload field, batches of 2, 2 directories, 3 records |
| `publication` | `TypeOK`, `CurrentComplete`, `PublishedIsImmutable`, `RegisterSpec` (implements `AtomicRoot`) | 4 segments, 5 generations, every fault before the last fsync |
| `wal` | `TypeOK`, `Readable`, `PromisedSurvive`, `PromiseSpec` (implements `AtomicLog`) | 3 records of 3 or 4 units, headers of 2 |
| `views` | `TypeOK`, `HeldOnDisk`, `OfferedIsAlive`, `NothingLeftBehind`, `LogOutlivesReaders`, `ClosedKeepsSegments`, and `CloseEnds` under fairness | 3 threads, one view each, 2 directories |
| `search` | `TypeOK`, `IndexesAgree`, `ExactIsBruteForce`, `ApproximateIsSound` | 2 ids, 3 writes, 2 points with overlapping fields, 1 declarable index (of floats), 8 requests, planner threshold 1, oversampling 1, with and without quantization |
| `hnsw` | `GraphSound`, `Converged`, `FillsWindow`, and `Ends` under fairness | 4 points at 4 places on a line, m = 2, 2 levels, windows of 2 and 4 |
| `snapshots` | `ReopensTheSame`, `AcceptedIsTaken`, `WholeOrNothing` with failures, crashes and damaged snapshots | 2 ids, 3 records, 1 schema, 2 segments, 4 generations, 2 destinations, one of them in a new directory |
| `database` | `TypeOK`, `Kept`, `RollsBack` | 2 names, 2 contents, one leftover stage and backup per name, a crash between any two steps, every task and step may raise |
| `publication_confirm`, `database_reopen`, `search_types` | what the repository says and the code does not do (section 4) | as small as shows it |

Why the bounds are enough. Three records allow a write before an optimize's
capture, one during its build and one after; three directories a segment that
was flushed, the replacement, and a flush that failed or came later. Two points
tell a lost write from an overwritten one, and batches of two give a record that
touches both. Five generations let a publication fail, be repeated, succeed, and be
followed by another. In `Wal` three units per frame give a cut in the header, after
it, and in the body; four units a frame that overwrites a shorter one. In
`Database` two names let a snapshot have a name other than its target. In `Views`
three threads are a reader, an optimize and a close (or two readers of one segment
and an optimize that retires it), two directories a source and its replacement; that
an optimize has one source or several makes no difference to who holds them, and the
theorems are about any number.
In `Search` three writes make a point stale in one segment, visible in a second
and give a third record to rank against it, with limit 1 below and limit 2 at the
number of points; a threshold of 1 makes a segment of two points large enough for
the graph; the filters cover each condition, all three clauses, and one filter
inside another. The index it may declare is one of floats, which holds the integers too,
so that ranges and matches on numbers are well typed and a match on True is not.
In `Hnsw` four points and m = 2 are the fewest that prune a neighbour that was linked before; two levels give a descent; equal vectors are among
the choices, so ties are; a window of 4 is one the graph cannot always fill, which
makes searches restart. In `Snapshots` three records and two segments let the
collection be flushed, changed, merged into one segment whose source is still on
disk, and written to again before the copy; two ids let a tombstone and a point be in
one segment. Its constraint `UntilPublished` stops at what the collection does once a
snapshot was published, which no longer changes that snapshot; damage and crashes after
it are explored. `MaxWal`, `MaxSequence`, `MaxVersion`, `MaxGen`, `MaxPoints`,
`MaxLevel`, `SegIds`, `Segs` and `Slots` are the bounds on what the code leaves
unbounded. Deadlock is checked in every run but `views`: the modelled system can
always at least crash, reopen or close again. In `views` it can stop, and the code
does: the holder of a view who waits for the optimizer lock, or calls close(), and the
close() that waits for that view (section 4); that nothing else makes a close() wait for
ever is `CloseEnds`.

No run checks `PromiseSpec` with payload fields, or `DurableMap`'s `Interrupted`, for
which a process must die between the write of a frame and its fsync: there the
state space is too large, and the theorem `Implements` is what shows it.

Every property of a passing run has a mutant in `PROJECT.json`, a plausible error
in a modelled definition under which TLC finds the property violated.

**Fairness**, only for the liveness properties of `views` and `hnsw`. No call is ever
assumed to be made. In `Views` fairness is weak, for each thread's next step inside an
operation that has begun, and includes that a reader closes its view; none is
assumed for beginning operations. It is enough for `CloseEnds` because once the
flag is set no operation begins, so only those already begun compete for the
locks. In `Hnsw` the one thread that builds or searches runs on (`WF_vars(Step)`), and
nobody has to begin.

## 4. Where the code and its documents disagree

Three have a run that shows them:

- `publication_confirm`: when the fsync after the commit point fails, the cleanup
  of an optimize deletes the generation `CURRENT` names.
- `database_reopen`: one half-made directory makes the whole database refuse to
  open.
- `search_types`: an index leaves out points that match. Evaluation takes 1, 1.0 and
  True for equal (evaluate.py:67), an index answers a value of another type than its
  own with no point at all (index.py:63-66, 77-88), and that answer counts as exact, so
  that no residual corrects it: with `size = 1` and an index of integers,
  `Match('size', 1.0)` finds nothing. A range over an index of integers leaves the
  floats out in the same way.

Six more are in the behaviours of the modules:

- A write that raises after its append leaves a record that the next flush counts
  into the boundary it publishes (`last_sequence`, collection.py:340) without holding
  it (256): "replay_boundary states precisely which prefix is already represented"
  does not hold then. What was acknowledged survives (`AckedSurvive`).
- A flush that read the closed flag in time (collection.py:323) publishes after
  close() has returned, under the feet of whoever opened the collection since
  (`Views`: `Flush` with `walOpen` false). An optimize does not, because it reads the
  flag again (`ClosedKeepsSegments`).
- A thread that holds a view and calls flush(), optimize(), merge(), vacuum() or
  create_snapshot() waits for `_optimizer_lock`, which a close() that waits for the view
  holds (collection.py:459-461): both wait for ever. So does a close() by the holder of
  the view. `CloseEnds` says that nothing else keeps a close() from returning.
- A search that asks the graph for as many candidates as there are points may get
  fewer: what the descent only passes counts as visited (hnsw.py:111-124) though it
  was never scored, and the restarts, which go on "until `breadth` candidates exist"
  (121), leave it out. Four points with the vectors 1, 2, 2, 4, the levels 0, 0, 1, 1
  and m = 2 do it, for the query 1 and a window of 4. `FillsWindow` says that
  nothing else is left out.
- Temporary files that an interrupted publication leaves are not removed by `open()`
  and make later publications raise (`Refused` in `Publication`).
- A snapshot whose destination lies in a directory that create_snapshot has to create
  (snapshot.py:32) may be gone after a crash of the host although it was returned: of the
  new directories only the lowest is fsynced (66), its own entry is not
  (`NewParents` in `Snapshots`). `WholeOrNothing` says that it is gone as a whole.

Each but the last was reproduced by running the code with the failure at that point. Some of the
passing properties hold only because their run excludes a case in which the code does not
keep them; each can be seen by changing the constant named:

- `VersionsIncrease` with `before_wal_fsync` in `Faults` and host crashes: `open()`
  replays frames it never fsyncs; a boundary published over them survives a host
  crash that the frames do not, and sequences are used again.
- `Readable` with `FsyncFails = TRUE`: a failed fsync leaves a frame whose
  sequence the next append uses again, and the log cannot be opened.
- `IndexesAgree`, `ExactIsBruteForce` and `ApproximateIsSound` without `WellTyped`, the
  premise they carry for each filter: the run `search_types`.
- `CurrentComplete` with `confirm` in `Faults`: the run `publication_confirm`.

## 5. Proofs

Every theorem holds for all values of the constants that the named assumptions of
the modules allow (`Gone` is not a value, batches are non-empty sets of points, a
score is an integer, and the like). The last column is what it assumes beyond them.

| Module | Theorem | Statement | Assumes |
|---|---|---|---|
| `CollectionProofs` | `TypeCorrect` | `Spec => []TypeOK` | - |
| | `DirectoriesExist` | `Spec => []RootOnDisk` | - |
| | `InductiveInvariant` | `Spec => []IInv` | `LogIsKept` |
| | `RecoveryCorrect` | `Spec => []RecoveryMatchesLog` | `LogIsKept` |
| | `ReadsCorrect` | `Spec => []ReadsMatchLog` | `LogIsKept` |
| | `PublicationIsInvisible` | `Spec => PublicationInvisible` | `LogIsKept` |
| | `Implements` | `Spec => PromiseSpec` | `LogIsKept` |
| | `AcknowledgedSurvive` | `Spec => []AckedSurvive` | `LogIsWhole` |
| | `VersionsAlwaysIncrease` | `Spec => VersionsIncrease` | `LogIsWhole` |
| `WalProofs` | `TypeCorrect` | `Spec => []TypeOK` | - |
| | `CrashIsNeverCorruption` | `Spec => []("corrupt" \notin Verdicts(file))` | - |
| | `AlwaysReadable` | `Spec => []Readable` | `~FsyncFails` |
| | `PromisedAlwaysSurvive` | `Spec => []PromisedSurvive` | `~FsyncFails` |
| | `ImplementsPromise` | `Spec => PromiseSpec` | `~FsyncFails` |
| `PublicationProofs` | `TypeCorrect` | `Spec => []TypeOK` | `NoLateFault` |
| | `CurrentStaysComplete` | `Spec => []CurrentComplete` | `NoLateFault` |
| | `PublishedStaysImmutable` | `Spec => PublishedIsImmutable` | `NoLateFault` |
| | `ImplementsRegister` | `Spec => RegisterSpec` | `NoLateFault` |
| `ViewsProofs` | `TypeCorrect` | `Spec => []TypeOK` | - |
| | `HeldStaysOnDisk` | `Spec => []HeldOnDisk` | - |
| | `OfferedStaysAlive` | `Spec => []OfferedIsAlive` | - |
| | `NothingStaysBehind` | `Spec => []NothingLeftBehind` | - |
| | `LogClosedLast` | `Spec => LogOutlivesReaders` | - |
| | `ClosedLosesNothing` | `Spec => ClosedKeepsSegments` | - |
| `SnapshotsProofs` | `AlwaysReopensTheSame` | `Spec => []ReopensTheSame` | - |
| | `AcceptedIsAlwaysTaken` | `Spec => []AcceptedIsTaken` | - |
| | `AlwaysWholeOrNothing` | `Spec => []WholeOrNothing` | - |
| `DatabaseProofs` | `TypeCorrect` | `Spec => []TypeOK` | - |
| | `NothingIsLost` | `Spec => []Kept` | - |
| | `FailedRestoreRollsBack` | `Spec => RollsBack` | - |
| `SearchProofs` | `SearchTypes` | `Spec => []TypeOK` | - |
| | `IndexesAlwaysAgree` | `Spec => []IndexesAgree` | - |
| | `ExactSearchIsBruteForce` | `Spec => []ExactIsBruteForce` | - |
| | `ApproximateSearchIsSound` | `Spec => []ApproximateIsSound` | - |
| | `GraphStaysSound` | `GraphSpec => []GraphSound` | - |
| | `WalksStayInLayer` | `GraphSpec => [](WalkInLayer /\ Budget)` | - |
| | `SearchConverges` | `GraphSpec => []Converged` | - |
| | `SearchFillsWindow` | `GraphSpec => []FillsWindow` | - |

The assumptions:

- `LogIsKept`: no call raises between append and application, and a host crash, if
  there are any, finds every frame fsynced. The first of the five cases of section 4
  and the first of its exclusions show that both are needed: without the one, the log
  and what was applied differ; without the other, sequences are used again.
- `LogIsWhole`: the second half of `LogIsKept`. Calls may raise.
- `~FsyncFails`: no fsync of the log fails. It is needed (section 4): append() gives
  the sequence of a frame whose fsync failed to the next one, and open() refuses both.
  What holds without it is that no fsynced frame is lost and that no crash makes open()
  see corruption.
- `NoLateFault`: the fsync after `CURRENT` was replaced does not fail; the run
  `publication_confirm` shows that this is needed. Everything else may fail, and the
  process and the host may stop at any step.

The three theorems about searches have their condition in the formula: they speak of
filters that are `WellTyped` where they meet an index. A match is, if every value that
equals the one it asks for has, like it, the type of the index; a range is, if every
value in it has. The code checks nothing of the kind, and `search_types` shows what
happens otherwise. So this is what a caller must keep for searches to be right, and
the theorems say that it is all.

### The collection

`SegmentsProofs` has the lemmas about the operators: what `Latest` selects, what a
record applied to a slice of the log gives, that covering a prefix is kept by
flushing, merging and dropping tombstones.

What a restart recovers and what readers see are computed from
different things, the root with the log and memory; neither determines the other
during a flush or an optimize. `IInv` ties both to the log: the root, the durable
root and the manifest in memory each *represent* a prefix of the log, that is, their
segments hold for every point the last record of the prefix, or nothing if that is
a tombstone (`Represents`, `Covers`); the mutable segment is the slice of the log
from the manifest's boundary to the last applied record (`MutableHoldsTail`); what a
flush or an optimize has built represents the prefix it will claim (`FlushHolds`,
`OptHolds`), in a directory nobody else uses (`FlushOwns`, `OptOwns`). Overlaying a
slice on what covers the prefix before it gives the state of the log, which is
`RecoveryMatchesLog` and `ReadsMatchLog`; and since both sides of a publication
equal the log, readers cannot see it. For `Implements` the record that a write appends
is shown to be a write of `DurableMap` in the state of the map it meets
(`RecordsAreWrites`), and to overwrite both the log's state and, once applied, what
readers see by just itself (`RecordOverwrites`, `AppendOverwrites`). `DiskInv` is the part about directories; it
needs no assumption and gives `DirectoriesExist`.

`AcknowledgedSurvive` drops the assumption that no call raises. Then memory is no longer a
function of the log: a record that was not applied is in it after a restart, unless
a root claimed it first. The invariant `AckedInv` therefore says less and of more
states. A record *stands* at n if it is that of some k up to n which no acknowledged
record up to n follows (`Stands`), and a segment *continues* from lo to hi if that
holds of every point with k after lo (`Continues`). Roots and what is being built
stand at their boundaries, the mutable segment continues from the manifest's boundary
to the last record applied or passed over. A record becomes acknowledged only when it
is applied, and is the last of the log then, so what stands before it goes on
standing (`EarlyStays`); an overlay of what continues on what stands, stands
(`TailUpholds`), and so does what a replay makes of the log (`SliceContinues`). What
readers see stands at the record before the one being applied, so that its version
exceeds all they hold: `VersionsAlwaysIncrease`.

### The log

`Scan` reads a file frame by frame, so what it returns depends on everything before
the place it has come to; crashes and repairs cut the file anywhere. What makes both
meet is a property of each unit and the one before it (`Framed`): it goes on with the
same frame, or starts a frame where another ended. Every cut of such a file is such a file (`CutIsFramed`). Of a framed file
the scan is shown to be correct at every offset: it finds exactly the frames whose last
unit is there, in order (`ScanIsCorrect`, `LogIsWhatIsHeld`), and what is left after
them is less than a frame (`NeverCorrupt`). No induction theorem is used: a place
where the scan is wrong would have a last one, and there is none (`LeastNat`); that the
recursive function exists at all is shown the same way (`ScanExists`).

`Structure` says that the file and the disk are framed and that the disk holds
nothing that the file does not (`Keeps`), which every step keeps, failed fsyncs
included. `Numbering` says that the frames are numbered from 1 without a gap and that
`_sequence` is the last of them; it needs the assumption, and gives `Readable`. What is
promised is a record that the disk holds (`PromisesAreDurable`). For the refinement
the log of `AtomicLog` is what the scan finds in the file.

### Publication

The manifests up to the one `CURRENT` names are the same in memory and after a host
crash (`Agreed`), and those that `CURRENT` or its durable state name are whole, with
their segments there (`Complete`); until `CURRENT` is replaced no root names the new
segment (`Written`), so that a cleanup may remove it; and each step of publish()
leaves what the next relies on (`Prepared`): the manifest fsynced before the pointer
is written, the pointer written before it is renamed. For the refinement the root
changes with the rename of the pointer and is durable after the second fsync.

### Views

The reference count of a handle is the number of views and optimizes that hold it
(`Counted`), which needs cardinalities of sets of holders; what is retired and held by nobody is
about to be deleted by exactly one thread (`DoomedIsFree`, `NotForgotten`); and only
the thread that has `_optimizer_lock` optimizes or closes (`Locked`), so that after
close() nothing is retired and nobody builds (`ShutDown`).

### Snapshots

`open()` reads the metadata, `CURRENT`, one manifest, the log, and the segments that the
manifest names: of two trees that have these files (`Needed`) in common, one opens with
exactly what the other does (`SoundAgrees`). A tree is `Sound` if they are whole and
what is decoded from the segments covers the log up to the boundary; then it recovers
the state of the log (`SoundReopens`), with the lemmas that the collection's proofs use
too. That what is decoded is what was encoded is `DecodedIsEncoded`.

The invariant says that the collection's directory is always sound (`Served`); that the
directories which may be removed, because they are retired, not yet durable or not yet
published, are not among those that the manifest names (`Apart`, `Built`); that the
temporary directory agrees with what is copied into it, file by file (`Filled`), which
holds because whoever could change those files waits for a lock, and what is reclaimed
without a lock is not copied; and that what lies at a destination is intact, known to be
damaged, or claimed by nobody (`Shelved`). A snapshot is `Intact` if its index lists
exactly the needed files of a sound collection, so that any file that is lost, torn or
added shows (`DamageShows`).

### Database

For each name there is a directory that nothing works on and that holds what is owed
(`Safe`): of a restore that has not published, what the collection was before. While
a restore goes on, `Progress` says where that is at each of its steps. `Kept` follows
directly, and `RollsBack` from the state of the paths before the failure.

### Search

*Filters.* Conditions are nested to any depth. Instead of an induction, a condition of
which something fails is taken that has no part of which it fails; there is one, as
conditions are well founded, and the clause that defines it gives the contradiction.
That a recursive definition over such a set has a solution is proved once
(`RecursionExists`), and so is the same for folds over finite sets (`FoldExists`,
`FoldKeeps`), which is how TLA+ defines Top-K and the merge. What a condition resolves
to has two bounds (`Bounds`): no point that meets it is left out and, if the answer
counts as exact, no other is in. Both survive must, should and must_not, of which only
exact answers may exclude (`CombinedBounds`, `ResolutionBounds`). The first bound alone
is what makes the residual right: a filter that is applied again needs candidates that
are too many, never too few.

*Indexes.* Updating an index write by write gives what building it from the segment
gives (`WrittenIndex`, `DeletedIndex`).

*Answers.* The invariant `StoreInv` adds to the types that the indexes of the mutable
segment are those that would be built, that a version is one record wherever it is
held, and that finitely many ids are held. A heap that candidates are offered to, in any
order, holds the best of them (`TopKIsBest`): equal scores rank by id, so the order is
strict, and the best k of a part together with the rest have the same best k as the
whole (`FirstAndRest`). For `ApproximateIsSound`, whatever a plan returns is a live
point of the segment that meets the filter (`OutcomesAreHits`), and at the visible
version it is the visible record. For `ExactIsBruteForce` a segment's limit must be
enough (`LimitIsEnough`). Take a point that is among the best wanted, in the segment
that holds its newest record: what that segment ranks before it is stale, or is itself
wanted and ranked before it; so there are fewer than the limit plus the stale live
records, which is the number of candidates the code asks for.

### The graph

An insertion keeps to a budget: the links of the new point in its layer and the
neighbours still to connect are together no more than m, and it has no links below
that layer yet (`Budget`). So a prune of a neighbour keeps both the symmetry and the
bound. `WalkInLayer` says that every walk is among the points of its layer. For the
search, the window is the best of what was seen (`WindowIsBest`), for which the lemmas
say what adding a point to the best k of a set gives; and what was visited but never
scored is among what the descent of this search looked at (`passed`, a history
variable), unless the window is full (`PassedAbove`).

### Only model-checked

Liveness, which needs fairness: `CloseEnds` and `Ends`. Each inductive invariant was model-checked before it was
proved; `IInv` of the collection still is, in `collection_safety`.

## 6. Plan

Done: all modules of section 2, and the proofs of section 5. Next:

1. Threads on a database: create, drop and close racing over the closed flags, and
   dropping a collection with open views, with `Views` as the collection.
2. The log that `Collection` uses replaced by `Wal` itself, so that failed fsyncs reach
   the roots.

## 7. Not modelled

- `optimizer/policy.py`: a pure choice that nothing in the package calls.
- The encoding of quantized vectors, floating-point arithmetic, distances, JSON.
- That an optimize which waits for the update lock gets it: the locks of the code are
  not fair, and writers that never pause can keep it waiting.
- Validation errors, which are raised before any state changes.
- Dropping a collection with open views, and threads on one database.
- Errors inside capture_view(), which leak the handles it has acquired; the directory
  a flush leaves behind when it fails, which nothing deletes, is in `Collection`, but
  no property says anything about it.
- Short writes to the log, whose count the code ignores.
- The command line and the labs, which are sequential callers; log rotation, which
  the code does not have.
- A crash of the host during a restore or a create: the crashes of `Database` keep
  every rename.
