-------------------------------- MODULE Views --------------------------------
(***************************************************************************)
(* The threads that share one collection: capture_view, flush, optimize,   *)
(* create_snapshot and close() (collection.py, lifecycle.py), and the      *)
(* reference counts that keep a segment's directory on disk for as long as *)
(* somebody reads it (segment/references.py).                              *)
(*                                                                         *)
(* A thread has at most one view (a bound), and may call anything else     *)
(* before it closes it.  merge() and vacuum() are optimize().              *)
(*                                                                         *)
(* Every operation reads `_closed` before it takes a lock.  What a thread  *)
(* does under one hold of `_update_lock` is one step: no other thread sees *)
(* it half done.  `_optimizer_lock` is held across steps, by `optimizer`.  *)
(*                                                                         *)
(* What segments contain is left to Collection.tla.                        *)
(***************************************************************************)
EXTENDS Naturals, FiniteSets

CONSTANTS Threads,
          Segs,     \* names of segment directories (uuids in the code)
          Nobody

ASSUME ViewsAssumption ==
  /\ Nobody \notin Threads
  /\ IsFiniteSet(Threads) /\ IsFiniteSet(Segs)

VARIABLES
  closed,       \* Lifecycle._closed
  walOpen,      \* whether Wal._closed is still false
  segments,     \* the directories of _segments
  dirs,         \* the segment directories that exist
  references,   \* SegmentHandle._references
  retired,      \* the handles whose _retired is set
  activeViews,  \* _active_views
  optimizer,    \* the thread that holds _optimizer_lock
  pc,           \* where each thread is
  viewing,      \* the threads that have an open view
  held,         \* the handles that a view, or an optimize, has acquired
  doomed        \* directories that a thread is about to delete

handles == <<references, retired>>
vars == <<closed, walOpen, segments, dirs, handles, activeViews, optimizer, pc, viewing,
          held, doomed>>

\* Who acquires handles: the view of a thread, and its optimize.
Holders == Threads \X {"view", "optimize"}

Init ==
  /\ closed = FALSE
  /\ walOpen = TRUE
  /\ segments = {}
  /\ dirs = {}
  /\ references = [s \in Segs |-> 0]
  /\ retired = {}
  /\ activeViews = 0
  /\ optimizer = Nobody
  /\ pc = [t \in Threads |-> "idle"]
  /\ viewing = {}
  /\ held = [h \in Holders |-> {}]
  /\ doomed = [t \in Threads |-> {}]

-----------------------------------------------------------------------------
Goto(t, label) == pc' = [pc EXCEPT ![t] = label]

\* uuid4: a new segment never has a name in use.
Fresh == Segs \ dirs

LockOptimizer(t) == optimizer = Nobody /\ optimizer' = t

UnlockOptimizer(t) == optimizer = t /\ optimizer' = Nobody

\* Mutant: an acquisition is not counted.
Uncounted(S) == references

\* SegmentHandle.acquire on each of _segments.
Acquired(S) == [s \in Segs |-> IF s \in S THEN references[s] + 1 ELSE references[s]]

AcquireSegments(h) ==
  /\ references' = Acquired(segments)
  /\ held' = [held EXCEPT ![h] = segments]

\* _ensure_open: the operation will go on, whatever happens to the flag next.
Begin(t, op) ==
  /\ pc[t] = "idle"
  /\ ~closed
  /\ op = "capture" => t \notin viewing
  /\ Goto(t, op)
  /\ UNCHANGED <<closed, walOpen, segments, dirs, handles, activeViews, optimizer, viewing,
                 held, doomed>>

-----------------------------------------------------------------------------
(***************************************************************************)
(* SegmentHandle.release, for a view that is closed or an optimize that    *)
(* ends: the count is changed under the handle's lock, and the directory   *)
(* is deleted after that lock is let go.                                   *)
(***************************************************************************)
\* What the thread lets go of on its way out.
Leaving(t) == <<t, IF pc[t] = "closing view" THEN "view" ELSE "optimize">>

\* Mutant: a release does not ask whether others still read.
DeletesShared(s) == s \in retired

DeletesOnRelease(s) == s \in retired /\ references[s] = 1

Release(t, s) ==
  /\ pc[t] \in {"closing view", "ending optimize"}
  /\ doomed[t] = {}
  /\ s \in held[Leaving(t)]
  /\ references' = [references EXCEPT ![s] = @ - 1]
  /\ held' = [held EXCEPT ![Leaving(t)] = @ \ {s}]
  /\ doomed' = [doomed EXCEPT ![t] = {d \in {s} : DeletesOnRelease(d)}]
  /\ UNCHANGED <<closed, walOpen, segments, dirs, retired, activeViews, optimizer, pc,
                 viewing>>

\* shutil.rmtree.  A handle is gone with its directory.
Remove(t) ==
  /\ doomed[t] # {}
  /\ dirs' = dirs \ doomed[t]
  /\ retired' = retired \ doomed[t]
  /\ doomed' = [doomed EXCEPT ![t] = {}]
  /\ UNCHANGED <<closed, walOpen, segments, references, activeViews, optimizer, pc,
                 viewing, held>>

-----------------------------------------------------------------------------
(***************************************************************************)
(* Views: capture_view, and CollectionView.close, which first releases the *)
(* handles one by one and then reports to the collection.  search() is a   *)
(* view that is captured, read and closed.                                 *)
(***************************************************************************)
CaptureView(t) ==
  /\ pc[t] = "capture"
  /\ AcquireSegments(<<t, "view">>)
  /\ activeViews' = activeViews + 1
  /\ viewing' = viewing \cup {t}
  /\ Goto(t, "idle")
  /\ UNCHANGED <<closed, walOpen, segments, dirs, retired, optimizer, doomed>>

\* This needs no open collection.
CloseView(t) ==
  /\ pc[t] = "idle" /\ t \in viewing
  /\ Goto(t, "closing view")
  /\ UNCHANGED <<closed, walOpen, segments, dirs, handles, activeViews, optimizer, viewing,
                 held, doomed>>

\* Mutant: the collection is told first.
Unordered(t) == TRUE

AllReleased(t) == held[Leaving(t)] = {} /\ doomed[t] = {}

\* Mutant: the number is compared before it is decremented.
NoViewBefore == activeViews = 0

NoViewLeft == activeViews = 1

\* _release_view: the last view to go wakes close().
ReleaseView(t) ==
  /\ pc[t] = "closing view"
  /\ AllReleased(t)
  /\ activeViews' = activeViews - 1
  /\ viewing' = viewing \ {t}
  /\ pc' = [u \in Threads |->
              IF u = t THEN "idle"
              ELSE IF pc[u] = "waiting" /\ NoViewLeft THEN "closing"
              ELSE pc[u]]
  /\ UNCHANGED <<closed, walOpen, segments, dirs, handles, optimizer, held, doomed>>

-----------------------------------------------------------------------------
(***************************************************************************)
(* flush() and create_snapshot(), which hold both locks throughout.  There *)
(* may be nothing to flush.  A snapshot flushes first, which reads the     *)
(* flag again and raises if it is set; then it copies the segments.        *)
(***************************************************************************)
FlushMutable ==
  \/ UNCHANGED <<segments, dirs>>
  \/ \E s \in Fresh :
       /\ dirs' = dirs \cup {s}
       /\ segments' = segments \cup {s}

Flush(t) ==
  /\ pc[t] = "flush"
  /\ optimizer = Nobody
  /\ FlushMutable
  /\ Goto(t, "idle")
  /\ UNCHANGED <<closed, walOpen, handles, activeViews, optimizer, viewing, held, doomed>>

Snapshot(t) ==
  /\ pc[t] = "snapshot"
  /\ optimizer = Nobody
  /\ IF closed THEN UNCHANGED <<segments, dirs>> ELSE FlushMutable
  /\ Goto(t, "idle")
  /\ UNCHANGED <<closed, walOpen, handles, activeViews, optimizer, viewing, held, doomed>>

-----------------------------------------------------------------------------
(***************************************************************************)
(* optimize(), which reads the flag again once it has `_optimizer_lock`.   *)
(***************************************************************************)
OptimizeTooLate(t) ==
  /\ pc[t] = "optimize"
  /\ optimizer = Nobody
  /\ closed
  /\ Goto(t, "idle")
  /\ UNCHANGED <<closed, walOpen, segments, dirs, handles, activeViews, optimizer, viewing,
                 held, doomed>>

\* Mutant: the flag is not read again.
EvenIfClosed == TRUE

StillOpen == ~closed

OptimizeCapture(t) ==
  /\ pc[t] = "optimize"
  /\ StillOpen
  /\ LockOptimizer(t)
  /\ AcquireSegments(<<t, "optimize">>)
  /\ Goto(t, "building")
  /\ UNCHANGED <<closed, walOpen, segments, dirs, retired, activeViews, viewing, doomed>>

\* Mutants: the replacement is retired with its sources, or nothing is.
RetiredWithReplacement(t, new) == held[<<t, "optimize">>] \cup {new}

NothingRetired(t, new) == {}

Sources(t, new) == held[<<t, "optimize">>]

\* The replacement is written without `_update_lock`, and published and
\* installed under it; then the sources are retired, each of which is deleted
\* at once if nobody holds it.
OptimizePublish(t) ==
  /\ pc[t] = "building"
  /\ \E new \in Fresh :
       LET sources == Sources(t, new)
           unheld  == {s \in sources : references[s] = 0}
       IN  /\ segments' = (segments \ held[<<t, "optimize">>]) \cup {new}
           /\ dirs' = (dirs \cup {new}) \ unheld
           /\ retired' = (retired \cup sources) \ unheld
  /\ Goto(t, "ending optimize")
  /\ UNCHANGED <<closed, walOpen, references, activeViews, optimizer, viewing, held,
                 doomed>>

\* Building or publishing raises: the replacement, if any, is removed.
OptimizeRaises(t) ==
  /\ pc[t] = "building"
  /\ Goto(t, "ending optimize")
  /\ UNCHANGED <<closed, walOpen, segments, dirs, handles, activeViews, optimizer, viewing,
                 held, doomed>>

\* The sources were released on the way out, whatever happened.
OptimizeReturns(t) ==
  /\ pc[t] = "ending optimize"
  /\ AllReleased(t)
  /\ UnlockOptimizer(t)
  /\ Goto(t, "idle")
  /\ UNCHANGED <<closed, walOpen, segments, dirs, handles, activeViews, viewing, held,
                 doomed>>

-----------------------------------------------------------------------------
(***************************************************************************)
(* close().                                                                *)
(***************************************************************************)
\* _mark_closed: a second call returns at once.  Nothing keeps the holder of a view from
\* calling it.
MarkClosed(t) ==
  /\ pc[t] = "idle"
  /\ closed' = TRUE
  /\ IF closed THEN UNCHANGED pc ELSE Goto(t, "close")
  /\ UNCHANGED <<walOpen, segments, dirs, handles, activeViews, optimizer, viewing,
                 held, doomed>>

CloseLocks(t) ==
  /\ pc[t] = "close"
  /\ LockOptimizer(t)
  /\ Goto(t, "closing")
  /\ UNCHANGED <<closed, walOpen, segments, dirs, handles, activeViews, viewing, held,
                 doomed>>

\* Condition.wait lets `_update_lock` go, and keeps `_optimizer_lock`.
CloseWaits(t) ==
  /\ pc[t] = "closing"
  /\ activeViews # 0
  /\ Goto(t, "waiting")
  /\ UNCHANGED <<closed, walOpen, segments, dirs, handles, activeViews, optimizer, viewing,
                 held, doomed>>

CloseReturns(t) ==
  /\ pc[t] = "closing"
  /\ activeViews = 0
  /\ walOpen' = FALSE
  /\ UnlockOptimizer(t)
  /\ Goto(t, "idle")
  /\ UNCHANGED <<closed, segments, dirs, handles, activeViews, viewing, held, doomed>>

-----------------------------------------------------------------------------
\* The steps of an operation that has begun: its thread takes the next one
\* unless it must wait for a lock or for a view.
Step(t) ==
  \/ \E s \in Segs : Release(t, s)
  \/ Remove(t)
  \/ CaptureView(t) \/ CloseView(t) \/ ReleaseView(t)
  \/ Flush(t) \/ Snapshot(t)
  \/ OptimizeTooLate(t) \/ OptimizeCapture(t) \/ OptimizePublish(t)
  \/ OptimizeRaises(t) \/ OptimizeReturns(t)
  \/ CloseLocks(t) \/ CloseWaits(t) \/ CloseReturns(t)

Next ==
  \E t \in Threads :
    \/ \E op \in {"capture", "flush", "optimize", "snapshot"} : Begin(t, op)
    \/ MarkClosed(t)
    \/ Step(t)

Spec == Init /\ [][Next]_vars

\* A thread inside an operation runs on, and one with nothing else to do closes its view.
FairSpec == Spec /\ \A t \in Threads : WF_vars(Step(t))

-----------------------------------------------------------------------------
Labels ==
  {"idle", "capture", "closing view", "flush", "snapshot", "optimize", "building",
   "ending optimize", "close", "closing", "waiting"}

\* Every variable has its type, and `_active_views` counts the open views.
TypeOK ==
  /\ closed \in BOOLEAN
  /\ walOpen \in BOOLEAN
  /\ segments \in SUBSET Segs
  /\ dirs \in SUBSET Segs
  /\ references \in [Segs -> Nat]
  /\ retired \in SUBSET Segs
  /\ viewing \in SUBSET Threads
  /\ activeViews = Cardinality(viewing)
  /\ optimizer \in Threads \cup {Nobody}
  /\ pc \in [Threads -> Labels]
  /\ held \in [Holders -> SUBSET Segs]
  /\ doomed \in [Threads -> SUBSET Segs]

\* "obsolete segments are deleted only after all readers release them": every
\* directory an open view or a running optimize has acquired is on disk, and
\* none is about to be deleted, however releases, captures and retirements
\* interleave ("whose segment files outlive the request", collection.py:64).
HeldOnDisk ==
  \A h \in Holders, u \in Threads : held[h] \subseteq dirs \ doomed[u]

\* What a new reader would acquire is on disk and not retired: acquire() never
\* meets "cannot acquire a deleted segment" (references.py:30).
OfferedIsAlive ==
  segments \subseteq dirs /\ segments \cap retired = {}

\* Whenever no thread holds a handle, the directories on disk are those of the
\* manifest: nothing retired is left behind by readers that came or went while
\* optimize ran.
NothingLeftBehind ==
  (\A h \in Holders : held[h] = {}) /\ (\A t \in Threads : doomed[t] = {})
    => dirs = segments

\* close() closes the log only when nobody holds a segment, neither a view nor an
\* optimize (test_lifecycle.py:49, 72: close waits for the active optimizer and
\* for owned views).
LogOutlivesReaders ==
  [][walOpen /\ ~walOpen' =>
       /\ \A h \in Holders : held[h] = {}
       /\ \A t \in Threads : pc[t] # "building"]_vars

\* "rejects new work" (design, 12): once close() has closed the log, no optimize
\* that was already called replaces or deletes a segment.  A flush that read the
\* flag before close() set it can still add one (README, section 4).
ClosedKeepsSegments ==
  [][~walOpen => segments \subseteq segments' /\ dirs \subseteq dirs']_vars

\* A close() that has marked the collection returns, whoever was reading, flushing,
\* optimizing or taking a snapshot: it is woken by the last view.  Only the holder of
\* a view can keep it for ever, and only if he called it himself, or called what needs
\* `_optimizer_lock` (flush, optimize, merge, vacuum or create_snapshot) before it set
\* the flag: then he waits for that lock, and close() keeps it and waits for his view.
CloseEnds ==
  \A t \in Threads :
    pc[t] = "close" ~>
      \/ pc[t] = "idle"
      \/ [](/\ pc[t] = "waiting"
            /\ \E u \in viewing : u = t \/ pc[u] \in {"flush", "optimize", "snapshot"})
=============================================================================
