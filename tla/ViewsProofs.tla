----------------------------- MODULE ViewsProofs -----------------------------
(***************************************************************************)
(* Reference counts, retirement and close() of Views are right for any     *)
(* number of threads and segments.                                         *)
(***************************************************************************)
EXTENDS Views, FiniteSetTheorems, TLAPS

\* The views and optimizes that hold a segment.
HoldersOf(s) == {h \in Holders : s \in held[h]}

Optimizing == {"building", "ending optimize"}

\* The count of a handle is the number of views and optimizes that hold it.
Counted == \A s \in Segs : references[s] = Cardinality(HoldersOf(s))

\* Only an open view or a running optimize holds handles, and a thread deletes only on
\* its way out.
HoldsInside ==
  \A t \in Threads :
    /\ held[<<t, "view">>] # {} => t \in viewing
    /\ held[<<t, "optimize">>] # {} => pc[t] \in Optimizing
    /\ pc[t] = "closing view" => t \in viewing
    /\ pc[t] = "capture" => t \notin viewing
    /\ doomed[t] # {} => pc[t] \in {"closing view", "ending optimize"}

\* Only the thread with `_optimizer_lock` optimizes or closes.
Locked ==
  \A t \in Threads : pc[t] \in Optimizing \cup {"closing", "waiting"} => optimizer = t

\* A directory on disk is offered to readers or retired.
AllAccounted == dirs = segments \cup retired

\* What is about to be deleted is retired, nobody holds it, and one thread deletes it.
DoomedIsFree ==
  \A t \in Threads :
    /\ doomed[t] \subseteq retired
    /\ \A s \in doomed[t] : references[s] = 0
    /\ \A u \in Threads \ {t} : doomed[t] \cap doomed[u] = {}

\* What is retired and held by nobody is about to be deleted.
NotForgotten ==
  \A s \in retired : references[s] = 0 => \E t \in Threads : s \in doomed[t]

\* After close() nothing is retired, and nobody builds a replacement.
ShutDown ==
  ~ walOpen => closed /\ retired = {} /\ \A t \in Threads : pc[t] # "building"

\* Whoever closes has set the flag.
ClosingIsClosed ==
  \A t \in Threads : pc[t] \in {"close", "closing", "waiting"} => closed

IInv ==
  /\ TypeOK /\ Counted /\ HoldsInside /\ Locked
  /\ HeldOnDisk /\ OfferedIsAlive /\ AllAccounted
  /\ DoomedIsFree /\ NotForgotten /\ ShutDown /\ ClosingIsClosed

-----------------------------------------------------------------------------
\* Sets of threads, and of views and optimizes, are finite.
LEMMA ThreadsFinite ==
  ASSUME NEW S \in SUBSET Threads
  PROVE  IsFiniteSet(S) /\ Cardinality(S) \in Nat /\ (Cardinality(S) = 0 <=> S = {})
BY ViewsAssumption, FS_Subset, FS_CardinalityType, FS_EmptySet

LEMMA HoldersFinite ==
  ASSUME NEW S \in SUBSET Holders
  PROVE  IsFiniteSet(S) /\ Cardinality(S) \in Nat /\ (Cardinality(S) = 0 <=> S = {})
<1> DEFINE Kinds == {"view", "optimize"}
<1>1. IsFiniteSet(Threads) /\ IsFiniteSet(Kinds)
  <2>1. IsFiniteSet({"view"})
    BY FS_Singleton
  <2>2. Kinds = {"view"} \cup {"optimize"}
    OBVIOUS
  <2> QED BY <2>1, <2>2, FS_AddElement, ViewsAssumption
<1> HIDE DEF Kinds
<1>2. IsFiniteSet(Threads \X Kinds)
  BY <1>1, FS_Product
<1>3. IsFiniteSet(Holders)
  BY <1>2 DEF Holders, Kinds
<1> QED BY <1>3, FS_Subset, FS_CardinalityType, FS_EmptySet

\* A holder is the view or the optimize of one thread.
LEMMA HolderKinds ==
  /\ \A t \in Threads : <<t, "view">> \in Holders /\ <<t, "optimize">> \in Holders
                       /\ <<t, "view">> # <<t, "optimize">>
  /\ \A h \in Holders : \E t \in Threads : h = <<t, "view">> \/ h = <<t, "optimize">>
BY DEF Holders

\* A handle has the count 0 exactly if nobody holds it; if it has the count 1, one does.
LEMMA CountOfHolders ==
  ASSUME IInv, NEW s \in Segs
  PROVE  /\ references[s] = 0 <=> \A h \in Holders : s \notin held[h]
         /\ \A h \in Holders :
              s \in held[h] /\ references[s] = 1 => \A g \in Holders \ {h} : s \notin held[g]
<1> DEFINE H == HoldersOf(s)
<1>1. references[s] = Cardinality(H) /\ H \in SUBSET Holders
  BY DEF IInv, Counted, HoldersOf
<1>2. references[s] = 0 <=> H = {}
  BY <1>1, HoldersFinite
<1>3. ASSUME NEW h \in Holders, s \in held[h], references[s] = 1
      PROVE  \A g \in Holders \ {h} : s \notin held[g]
  <2>1. h \in H
    BY <1>3 DEF HoldersOf
  <2>2. Cardinality(H \ {h}) = 0
    <3>1. IsFiniteSet(H) /\ Cardinality(H) = 1
      BY <1>1, <1>3, HoldersFinite
    <3> HIDE DEF H
    <3>2. Cardinality(H \ {h}) = Cardinality(H) - 1
      BY <2>1, <3>1, FS_RemoveElement
    <3> QED BY <3>1, <3>2
  <2>3. H \ {h} = {}
    BY <1>1, <2>2, HoldersFinite
  <2> QED BY <2>3 DEF HoldersOf
<1> QED BY <1>2, <1>3 DEF HoldersOf

LEMMA InitInv == Init => IInv
<1> SUFFICES ASSUME Init PROVE IInv
  OBVIOUS
<1>1. /\ \A s \in Segs : HoldersOf(s) = {}
      /\ \A t \in Threads : held[<<t, "view">>] = {} /\ held[<<t, "optimize">>] = {}
  BY HolderKinds DEF Init, HoldersOf
<1>2. TypeOK
  BY FS_EmptySet DEF Init, TypeOK, Labels
<1>3. Counted
  BY <1>1, FS_EmptySet DEF Init, Counted
<1>4. HoldsInside /\ Locked /\ HeldOnDisk /\ OfferedIsAlive /\ AllAccounted
  BY <1>1 DEF Init, HoldsInside, Locked, Optimizing, HeldOnDisk, OfferedIsAlive, AllAccounted
<1>5. DoomedIsFree /\ NotForgotten /\ ShutDown /\ ClosingIsClosed
  BY DEF Init, DoomedIsFree, NotForgotten, ShutDown, ClosingIsClosed
<1> QED BY <1>2, <1>3, <1>4, <1>5 DEF IInv

\* When close() closes the log, nobody is left who holds, builds or deletes anything.
LEMMA NothingHeldAtClose ==
  ASSUME IInv, NEW t \in Threads, CloseReturns(t)
  PROVE  /\ \A h \in Holders : held[h] = {}
         /\ \A u \in Threads : doomed[u] = {} /\ pc[u] # "building"
         /\ retired = {} /\ closed
<1>1. pc[t] = "closing" /\ activeViews = 0 /\ optimizer = t
  BY DEF CloseReturns, UnlockOptimizer
<1>2. viewing = {}
  BY <1>1, ThreadsFinite DEF IInv, TypeOK
<1>3. \A u \in Threads : pc[u] \notin Optimizing
  BY <1>1 DEF IInv, Locked, Optimizing
<1>4. \A h \in Holders : held[h] = {}
  BY <1>2, <1>3, HolderKinds DEF IInv, HoldsInside
<1>5. \A u \in Threads : doomed[u] = {} /\ pc[u] # "building"
  BY <1>2, <1>3 DEF IInv, HoldsInside, Optimizing
<1>6. retired = {}
  <2> SUFFICES ASSUME NEW s \in retired PROVE FALSE
    OBVIOUS
  <2>1. s \in Segs
    BY DEF IInv, TypeOK
  <2>2. references[s] = 0
    BY <2>1, <1>4, CountOfHolders
  <2> QED BY <2>2, <1>5 DEF IInv, NotForgotten
<1>7. closed
  BY <1>1 DEF IInv, ClosingIsClosed
<1> QED BY <1>4, <1>5, <1>6, <1>7

LEMMA StutterInv == ASSUME IInv, UNCHANGED vars PROVE IInv'
<1>1. UNCHANGED <<closed, walOpen, segments, dirs, references, retired, activeViews, optimizer,
                  pc, viewing, held, doomed>>
  BY DEF vars, handles
<1>2. TypeOK' /\ Counted'
  BY <1>1 DEF IInv, TypeOK, Counted, HoldersOf
<1>3. HoldsInside' /\ Locked' /\ HeldOnDisk' /\ OfferedIsAlive' /\ AllAccounted'
  BY <1>1 DEF IInv, HoldsInside, Locked, HeldOnDisk, OfferedIsAlive, AllAccounted
<1>4. DoomedIsFree' /\ NotForgotten' /\ ShutDown' /\ ClosingIsClosed'
  BY <1>1 DEF IInv, DoomedIsFree, NotForgotten, ShutDown, ClosingIsClosed
<1> QED BY <1>2, <1>3, <1>4 DEF IInv

-----------------------------------------------------------------------------
(***************************************************************************)
(* Steps that move one thread and leave the handles alone.                 *)
(***************************************************************************)
\* What a step keeps that only moves a thread and the lock.
LEMMA OnlyMoves ==
  ASSUME IInv, NEW t \in Threads, NEW label \in Labels, Goto(t, label),
         UNCHANGED <<segments, dirs, handles, activeViews, viewing, held, doomed>>,
         closed' \in BOOLEAN, walOpen' \in BOOLEAN, optimizer' \in Threads \cup {Nobody},
         held[<<t, "optimize">>] # {} => label \in Optimizing,
         label = "closing view" => t \in viewing,
         label = "capture" => t \notin viewing,
         doomed[t] # {} => label \in {"closing view", "ending optimize"}
  PROVE  /\ TypeOK' /\ Counted' /\ HoldsInside' /\ HeldOnDisk' /\ OfferedIsAlive'
         /\ AllAccounted' /\ DoomedIsFree' /\ NotForgotten'
<1>1. /\ pc' \in [Threads -> Labels]
      /\ pc'[t] = label /\ \A u \in Threads \ {t} : pc'[u] = pc[u]
  BY DEF IInv, TypeOK, Goto
<1>2. UNCHANGED <<segments, dirs, references, retired, activeViews, viewing, held, doomed>>
  BY DEF handles
<1>3. TypeOK'
  BY <1>1, <1>2 DEF IInv, TypeOK
<1>4. Counted'
  BY <1>2 DEF IInv, Counted, HoldersOf
<1>5. HoldsInside'
  BY <1>1, <1>2 DEF IInv, HoldsInside
<1>6. HeldOnDisk' /\ OfferedIsAlive' /\ AllAccounted' /\ DoomedIsFree' /\ NotForgotten'
  BY <1>2 DEF IInv, HeldOnDisk, OfferedIsAlive, AllAccounted, DoomedIsFree, NotForgotten
<1> QED BY <1>3, <1>4, <1>5, <1>6

\* Beginning an operation, leaving a lock alone, giving up: only the label changes, or
\* the closed flag is set.
Moves(t, label) ==
  /\ Goto(t, label)
  /\ UNCHANGED <<segments, dirs, handles, activeViews, viewing, held, doomed, walOpen,
                 optimizer>>
  /\ closed' \in BOOLEAN /\ (closed => closed')
  /\ \/ pc[t] = "idle" /\ label = "capture" /\ t \notin viewing
     \/ pc[t] = "idle" /\ label \in {"flush", "optimize", "snapshot"}
     \/ pc[t] = "idle" /\ label = "closing view" /\ t \in viewing
     \/ pc[t] = "idle" /\ label = "close" /\ closed'
     \/ pc[t] \in {"optimize", "flush", "snapshot"} /\ label = "idle"
     \/ pc[t] = "building" /\ label = "ending optimize"
     \/ pc[t] = "closing" /\ label = "waiting"

LEMMA MovesInv ==
  ASSUME IInv, NEW t \in Threads, NEW label \in Labels, Moves(t, label)
  PROVE  IInv'
<1>1. TypeOK /\ HoldsInside /\ Locked /\ ShutDown
  BY DEF IInv
<1>2. /\ held[<<t, "optimize">>] # {} => label \in Optimizing
      /\ label = "closing view" => t \in viewing
      /\ label = "capture" => t \notin viewing
      /\ doomed[t] # {} => label \in {"closing view", "ending optimize"}
  BY <1>1 DEF Moves, HoldsInside, Optimizing
<1>3. /\ TypeOK' /\ Counted' /\ HoldsInside' /\ HeldOnDisk' /\ OfferedIsAlive'
      /\ AllAccounted' /\ DoomedIsFree' /\ NotForgotten'
  BY <1>1, <1>2, OnlyMoves DEF Moves, TypeOK
<1>4. pc'[t] = label /\ \A u \in Threads \ {t} : pc'[u] = pc[u]
  BY <1>1 DEF Moves, Goto, TypeOK
<1>5. Locked'
  BY <1>1, <1>4 DEF Moves, Locked, Optimizing
<1>6. ShutDown'
  BY <1>1, <1>4 DEF Moves, ShutDown, handles
<1>7. ClosingIsClosed'
  BY <1>4 DEF Moves, IInv, ClosingIsClosed
<1> QED BY <1>3, <1>5, <1>6, <1>7 DEF IInv

LEMMA MovingSteps ==
  ASSUME IInv, NEW t \in Threads,
         \/ \E o \in {"capture", "flush", "optimize", "snapshot"} : Begin(t, o)
         \/ CloseView(t) \/ OptimizeTooLate(t) \/ OptimizeRaises(t) \/ CloseWaits(t)
  PROVE  IInv'
<1>1. closed \in BOOLEAN
  BY DEF IInv, TypeOK
<1>2. CASE \E o \in {"capture", "flush", "optimize", "snapshot"} : Begin(t, o)
  <2>1. PICK o \in {"capture", "flush", "optimize", "snapshot"} : Begin(t, o)
    BY <1>2
  <2>2. Moves(t, o) /\ o \in Labels
    BY <1>1, <2>1 DEF Begin, Moves, Labels
  <2> QED BY <2>2, MovesInv
<1>3. CASE CloseView(t) \/ OptimizeRaises(t)
  <2>1. Moves(t, "closing view") \/ Moves(t, "ending optimize")
    BY <1>1, <1>3 DEF CloseView, OptimizeRaises, Moves
  <2> QED BY <2>1, MovesInv DEF Labels
<1>4. CASE OptimizeTooLate(t)
  <2>1. Moves(t, "idle")
    BY <1>1, <1>4 DEF OptimizeTooLate, Moves
  <2> QED BY <2>1, MovesInv DEF Labels
<1>5. CASE CloseWaits(t)
  <2>1. Moves(t, "waiting")
    BY <1>1, <1>5 DEF CloseWaits, Moves
  <2> QED BY <2>1, MovesInv DEF Labels
<1> QED BY <1>2, <1>3, <1>4, <1>5

LEMMA MarkClosedInv == ASSUME IInv, NEW t \in Threads, MarkClosed(t) PROVE IInv'
<1>1. CASE ~ closed
  <2>1. Moves(t, "close")
    BY <1>1 DEF MarkClosed, Moves
  <2> QED BY <2>1, MovesInv DEF Labels
<1>2. CASE closed
  <2>1. closed \in BOOLEAN
    BY DEF IInv, TypeOK
  <2>2. UNCHANGED vars
    BY <1>2, <2>1 DEF MarkClosed, vars
  <2> QED BY <2>2, StutterInv
<1> QED BY <1>1, <1>2

\* The two steps of close() that take and drop the lock, and the end of optimize().
LEMMA LockInv ==
  ASSUME IInv, NEW t \in Threads, CloseLocks(t) \/ CloseReturns(t) \/ OptimizeReturns(t)
  PROVE  IInv'
<1>1. TypeOK /\ HoldsInside /\ Locked /\ ShutDown
  BY DEF IInv
<1>2. PICK label \in {"closing", "idle"} :
        /\ Goto(t, label)
        /\ UNCHANGED <<closed, segments, dirs, handles, activeViews, viewing, held, doomed>>
        /\ held[<<t, "optimize">>] = {} /\ doomed[t] = {}
        /\ optimizer' \in Threads \cup {Nobody} /\ walOpen' \in BOOLEAN
        /\ pc[t] \in {"close", "closing", "ending optimize"}
        /\ \/ pc[t] = "close" /\ label = "closing" /\ optimizer = Nobody /\ optimizer' = t
              /\ walOpen' = walOpen
           \/ label = "idle" /\ optimizer = t /\ optimizer' # t
  <2>1. CASE CloseLocks(t)
    BY <2>1, <1>1 DEF CloseLocks, LockOptimizer, TypeOK, HoldsInside, Optimizing
  <2>2. CASE CloseReturns(t)
    BY <2>2, <1>1, ViewsAssumption
       DEF CloseReturns, UnlockOptimizer, TypeOK, HoldsInside, Optimizing
  <2>3. CASE OptimizeReturns(t)
    BY <2>3, <1>1, ViewsAssumption
       DEF OptimizeReturns, AllReleased, Leaving, UnlockOptimizer, TypeOK
  <2> QED BY <2>1, <2>2, <2>3
<1>3. /\ TypeOK' /\ Counted' /\ HoldsInside' /\ HeldOnDisk' /\ OfferedIsAlive'
      /\ AllAccounted' /\ DoomedIsFree' /\ NotForgotten'
  BY <1>1, <1>2, OnlyMoves DEF TypeOK, Labels
<1>4. pc'[t] = label /\ \A u \in Threads \ {t} : pc'[u] = pc[u]
  BY <1>1, <1>2 DEF Goto, TypeOK
<1>5. Locked'
  BY <1>1, <1>2, <1>4, ViewsAssumption DEF Locked, Optimizing
<1>6. ShutDown'
  <2>1. ASSUME walOpen, ~ walOpen'
        PROVE  closed /\ retired = {} /\ \A u \in Threads : pc[u] # "building"
    <3>1. CloseReturns(t)
      BY <2>1 DEF CloseLocks, OptimizeReturns
    <3> QED BY <3>1, <1>1, NothingHeldAtClose
  <2> QED BY <1>1, <1>2, <1>4, <2>1 DEF ShutDown, handles
<1>7. ClosingIsClosed'
  BY <1>2, <1>4 DEF IInv, ClosingIsClosed
<1> QED BY <1>3, <1>5, <1>6, <1>7 DEF IInv

-----------------------------------------------------------------------------
(***************************************************************************)
(* Acquiring and releasing handles.                                        *)
(***************************************************************************)
\* capture_view and optimize() acquire every segment that is offered.
LEMMA AcquireKeeps ==
  ASSUME IInv, NEW h \in Holders, AcquireSegments(h), held[h] = {},
         UNCHANGED <<segments, dirs, retired, doomed>>
  PROVE  /\ held' \in [Holders -> SUBSET Segs] /\ references' \in [Segs -> Nat]
         /\ \A g \in Holders \ {h} : held'[g] = held[g]
         /\ Counted' /\ HeldOnDisk' /\ OfferedIsAlive' /\ AllAccounted'
         /\ DoomedIsFree' /\ NotForgotten'
<1>1. TypeOK
  BY DEF IInv
<1>2. /\ held' \in [Holders -> SUBSET Segs] /\ held'[h] = segments
      /\ \A g \in Holders \ {h} : held'[g] = held[g]
  BY <1>1 DEF AcquireSegments, TypeOK
<1>3. \A s \in Segs : references'[s] = IF s \in segments THEN references[s] + 1 ELSE references[s]
  BY DEF AcquireSegments, Acquired
<1>4. references' \in [Segs -> Nat]
  BY <1>1, <1>3 DEF AcquireSegments, Acquired, TypeOK
<1>5. ASSUME NEW s \in Segs PROVE references'[s] = Cardinality(HoldersOf(s)')
  <2> DEFINE H == HoldersOf(s)
  <2>1. HoldersOf(s)' = IF s \in segments THEN H \cup {h} ELSE H
    BY <1>2 DEF HoldersOf
  <2>2. h \notin H /\ H \in SUBSET Holders
    BY DEF HoldersOf
  <2>3. references[s] = Cardinality(H) /\ IsFiniteSet(H)
    BY <2>2, HoldersFinite DEF IInv, Counted
  <2> HIDE DEF H
  <2>4. Cardinality(H \cup {h}) = Cardinality(H) + 1
    BY <2>2, <2>3, FS_AddElement
  <2> QED BY <1>3, <2>1, <2>3, <2>4
<1>6. segments \cap retired = {} /\ segments \subseteq dirs
  BY DEF IInv, OfferedIsAlive
<1>7. HeldOnDisk'
  BY <1>2, <1>6 DEF IInv, HeldOnDisk, DoomedIsFree
<1>8. DoomedIsFree' /\ NotForgotten'
  <2>1. \A s \in retired : references'[s] = references[s]
    BY <1>1, <1>3, <1>6 DEF TypeOK
  <2> QED BY <2>1 DEF IInv, DoomedIsFree, NotForgotten
<1>9. OfferedIsAlive' /\ AllAccounted'
  BY DEF IInv, OfferedIsAlive, AllAccounted
<1>10. Counted'
  BY <1>5 DEF Counted
<1> QED BY <1>2, <1>4, <1>7, <1>8, <1>9, <1>10

LEMMA CaptureViewInv == ASSUME IInv, NEW t \in Threads, CaptureView(t) PROVE IInv'
<1> DEFINE h == <<t, "view">>
<1>1. TypeOK /\ HoldsInside /\ pc[t] = "capture" /\ h \in Holders
  BY HolderKinds DEF IInv, CaptureView
<1>2. held[h] = {} /\ doomed[t] = {} /\ t \notin viewing
  BY <1>1 DEF HoldsInside
<1>3. /\ held' \in [Holders -> SUBSET Segs] /\ references' \in [Segs -> Nat]
      /\ \A g \in Holders \ {h} : held'[g] = held[g]
      /\ Counted' /\ HeldOnDisk' /\ OfferedIsAlive' /\ AllAccounted'
      /\ DoomedIsFree' /\ NotForgotten'
  BY <1>1, <1>2, AcquireKeeps DEF CaptureView
<1>4. /\ pc' \in [Threads -> Labels] /\ pc'[t] = "idle"
      /\ \A u \in Threads \ {t} : pc'[u] = pc[u]
  BY <1>1 DEF CaptureView, Goto, TypeOK, Labels
<1>5. activeViews' = Cardinality(viewing') /\ viewing' \in SUBSET Threads
  <2>1. IsFiniteSet(viewing) /\ viewing' = viewing \cup {t} /\ activeViews' = activeViews + 1
    BY <1>1, ThreadsFinite DEF TypeOK, CaptureView
  <2> QED BY <1>1, <1>2, <2>1, FS_AddElement DEF TypeOK
<1>6. TypeOK'
  BY <1>1, <1>3, <1>4, <1>5 DEF CaptureView, TypeOK
<1>7. HoldsInside'
  <2> SUFFICES ASSUME NEW u \in Threads
               PROVE  /\ held'[<<u, "view">>] # {} => u \in viewing'
                      /\ held'[<<u, "optimize">>] # {} => pc'[u] \in Optimizing
                      /\ pc'[u] = "closing view" => u \in viewing'
                      /\ pc'[u] = "capture" => u \notin viewing'
                      /\ doomed'[u] # {} => pc'[u] \in {"closing view", "ending optimize"}
    BY DEF HoldsInside
  <2>1. <<u, "optimize">> \in Holders \ {h} /\ (u # t => <<u, "view">> \in Holders \ {h})
    BY HolderKinds
  <2>2. viewing' = viewing \cup {t} /\ doomed' = doomed
    BY DEF CaptureView
  <2> HIDE DEF h
  <2>3. held'[<<u, "optimize">>] = held[<<u, "optimize">>]
    BY <1>3, <2>1
  <2>4. u # t => held'[<<u, "view">>] = held[<<u, "view">>]
    BY <1>3, <2>1
  <2> QED BY <1>1, <1>2, <1>4, <2>2, <2>3, <2>4 DEF HoldsInside, Optimizing
<1>8. Locked' /\ ShutDown' /\ ClosingIsClosed'
  BY <1>4 DEF CaptureView, IInv, Locked, Optimizing, ShutDown, ClosingIsClosed
<1> QED BY <1>3, <1>6, <1>7, <1>8 DEF IInv

LEMMA OptimizeCaptureInv == ASSUME IInv, NEW t \in Threads, OptimizeCapture(t) PROVE IInv'
<1> DEFINE h == <<t, "optimize">>
<1>1. /\ TypeOK /\ HoldsInside /\ pc[t] = "optimize" /\ ~ closed /\ optimizer = Nobody
      /\ h \in Holders
  BY HolderKinds DEF IInv, OptimizeCapture, StillOpen, LockOptimizer
<1>2. held[h] = {} /\ doomed[t] = {}
  BY <1>1 DEF HoldsInside, Optimizing
<1>3. /\ held' \in [Holders -> SUBSET Segs] /\ references' \in [Segs -> Nat]
      /\ \A g \in Holders \ {h} : held'[g] = held[g]
      /\ Counted' /\ HeldOnDisk' /\ OfferedIsAlive' /\ AllAccounted'
      /\ DoomedIsFree' /\ NotForgotten'
  BY <1>1, <1>2, AcquireKeeps DEF OptimizeCapture
<1>4. /\ pc' \in [Threads -> Labels] /\ pc'[t] = "building"
      /\ \A u \in Threads \ {t} : pc'[u] = pc[u]
  BY <1>1 DEF OptimizeCapture, Goto, TypeOK, Labels
<1>5. optimizer' = t
  BY DEF OptimizeCapture, LockOptimizer
<1>6. TypeOK'
  BY <1>1, <1>3, <1>4, <1>5 DEF OptimizeCapture, TypeOK
<1>7. walOpen' = TRUE /\ walOpen = TRUE
  BY <1>1 DEF OptimizeCapture, IInv, ShutDown, TypeOK
<1>8. HoldsInside'
  <2> SUFFICES ASSUME NEW u \in Threads
               PROVE  /\ held'[<<u, "view">>] # {} => u \in viewing'
                      /\ held'[<<u, "optimize">>] # {} => pc'[u] \in Optimizing
                      /\ pc'[u] = "closing view" => u \in viewing'
                      /\ pc'[u] = "capture" => u \notin viewing'
                      /\ doomed'[u] # {} => pc'[u] \in {"closing view", "ending optimize"}
    BY DEF HoldsInside
  <2>1. <<u, "view">> \in Holders \ {h} /\ (u # t => <<u, "optimize">> \in Holders \ {h})
    BY HolderKinds
  <2>2. viewing' = viewing /\ doomed' = doomed
    BY DEF OptimizeCapture
  <2> HIDE DEF h
  <2>3. held'[<<u, "view">>] = held[<<u, "view">>]
    BY <1>3, <2>1
  <2>4. u # t => held'[<<u, "optimize">>] = held[<<u, "optimize">>]
    BY <1>3, <2>1
  <2> QED BY <1>1, <1>2, <1>4, <2>2, <2>3, <2>4 DEF HoldsInside, Optimizing
<1>9. Locked' /\ ShutDown' /\ ClosingIsClosed'
  BY <1>1, <1>4, <1>5, <1>7, ViewsAssumption
     DEF OptimizeCapture, IInv, Locked, Optimizing, ShutDown, ClosingIsClosed
<1> QED BY <1>3, <1>6, <1>8, <1>9 DEF IInv

LEMMA ReleaseInv == ASSUME IInv, NEW t \in Threads, NEW s \in Segs, Release(t, s) PROVE IInv'
<1> DEFINE h == Leaving(t)
<1>1. /\ TypeOK /\ pc[t] \in {"closing view", "ending optimize"} /\ doomed[t] = {}
      /\ h \in Holders /\ s \in held[h]
  BY HolderKinds DEF IInv, Release, Leaving
<1> HIDE DEF h
<1>2. /\ references' = [references EXCEPT ![s] = @ - 1]
      /\ held' = [held EXCEPT ![h] = @ \ {s}]
      /\ doomed' = [doomed EXCEPT ![t] = {d \in {s} : DeletesOnRelease(d)}]
      /\ UNCHANGED <<closed, walOpen, segments, dirs, retired, activeViews, optimizer, pc,
                     viewing>>
  BY DEF Release, h
<1>3. /\ held'[h] = held[h] \ {s} /\ \A g \in Holders \ {h} : held'[g] = held[g]
      /\ held' \in [Holders -> SUBSET Segs]
  BY <1>1, <1>2 DEF TypeOK
<1>4. /\ doomed'[t] = {d \in {s} : DeletesOnRelease(d)}
      /\ \A u \in Threads \ {t} : doomed'[u] = doomed[u]
      /\ doomed' \in [Threads -> SUBSET Segs]
  BY <1>1, <1>2 DEF TypeOK
<1>5. references[s] \in Nat /\ references[s] # 0
  BY <1>1, CountOfHolders DEF TypeOK
<1>6. /\ references' \in [Segs -> Nat] /\ references'[s] = references[s] - 1
      /\ \A d \in Segs \ {s} : references'[d] = references[d]
  <2>1. references \in [Segs -> Nat]
    BY <1>1 DEF TypeOK
  <2>2. references[s] - 1 \in Nat
    BY <1>5
  <2> QED BY <1>2, <2>1, <2>2
<1>7. TypeOK'
  BY <1>1, <1>2, <1>3, <1>4, <1>6 DEF TypeOK
<1>8. Counted'
  <2> SUFFICES ASSUME NEW d \in Segs PROVE references'[d] = Cardinality(HoldersOf(d)')
    BY DEF Counted
  <2> DEFINE H == HoldersOf(d)
  <2>1. references[d] = Cardinality(H) /\ H \in SUBSET Holders
    BY DEF IInv, Counted, HoldersOf
  <2>2. CASE d # s
    <3>1. HoldersOf(d)' = H
      BY <1>3, <2>2 DEF HoldersOf
    <3> QED BY <1>6, <2>1, <2>2, <3>1
  <2>3. CASE d = s
    <3>1. HoldersOf(d)' = H \ {h} /\ h \in H
      BY <1>1, <1>3, <2>3 DEF HoldersOf
    <3>2. IsFiniteSet(H)
      BY <2>1, HoldersFinite
    <3> HIDE DEF H
    <3>3. Cardinality(H \ {h}) = Cardinality(H) - 1
      BY <3>1, <3>2, FS_RemoveElement
    <3> QED BY <1>6, <2>1, <2>3, <3>1, <3>3
  <2> QED BY <2>2, <2>3
<1>9. doomed'[t] # {} => s \in retired /\ references[s] = 1
  BY <1>4 DEF DeletesOnRelease
<1>10. \A u \in Threads : s \notin doomed[u]
  BY <1>5 DEF IInv, DoomedIsFree
<1>11. HeldOnDisk'
  <2> SUFFICES ASSUME NEW g \in Holders, NEW b \in Threads, NEW d \in held'[g]
               PROVE  d \in dirs /\ d \notin doomed'[b]
    BY <1>2 DEF HeldOnDisk
  <2>1. d \in held[g] /\ d \in dirs /\ d \notin doomed[b]
    BY <1>3 DEF IInv, HeldOnDisk
  <2>2. ASSUME b = t, d \in doomed'[t] PROVE FALSE
    <3>1. d = s /\ references[s] = 1
      BY <1>4, <2>2 DEF DeletesOnRelease
    <3>2. g # h
      BY <1>3, <3>1
    <3> QED BY <1>1, <2>1, <3>1, <3>2, CountOfHolders
  <2> QED BY <1>4, <2>1, <2>2
<1>12. OfferedIsAlive' /\ AllAccounted' /\ Locked' /\ ShutDown' /\ ClosingIsClosed'
  BY <1>2 DEF IInv, OfferedIsAlive, AllAccounted, Locked, ShutDown, ClosingIsClosed
<1>13. HoldsInside'
  <2>1. \A g \in Holders : held'[g] \subseteq held[g]
    BY <1>3
  <2>2. \A u \in Threads : /\ held'[<<u, "view">>] \subseteq held[<<u, "view">>]
                          /\ held'[<<u, "optimize">>] \subseteq held[<<u, "optimize">>]
    BY <2>1, HolderKinds
  <2> QED BY <1>1, <1>2, <1>4, <2>2 DEF IInv, HoldsInside
<1>14. DoomedIsFree'
  <2>1. ASSUME NEW a \in Threads
        PROVE  doomed'[a] \subseteq retired /\ \A d \in doomed'[a] : references'[d] = 0
    <3>1. CASE a = t
      BY <1>4, <1>6, <3>1 DEF DeletesOnRelease
    <3>2. CASE a # t
      BY <1>1, <1>4, <1>6, <1>10, <3>2 DEF IInv, DoomedIsFree, TypeOK
    <3> QED BY <3>1, <3>2
  <2>2. ASSUME NEW a \in Threads, NEW b \in Threads \ {a}
        PROVE  doomed'[a] \cap doomed'[b] = {}
    BY <1>4, <1>10 DEF IInv, DoomedIsFree
  <2> QED BY <1>2, <2>1, <2>2 DEF DoomedIsFree
<1>15. NotForgotten'
  <2> SUFFICES ASSUME NEW d \in retired, references'[d] = 0
               PROVE  \E u \in Threads : d \in doomed'[u]
    BY <1>2 DEF NotForgotten
  <2>1. CASE d = s
    BY <1>4, <1>5, <1>6, <2>1 DEF DeletesOnRelease
  <2>2. CASE d # s
    <3>1. references[d] = 0
      BY <1>1, <1>6, <2>2 DEF TypeOK
    <3>2. PICK u \in Threads : d \in doomed[u]
      BY <3>1 DEF IInv, NotForgotten
    <3>3. u # t
      BY <1>1, <3>2
    <3> QED BY <1>4, <3>2, <3>3
  <2> QED BY <2>1, <2>2
<1> QED BY <1>7, <1>8, <1>11, <1>12, <1>13, <1>14, <1>15 DEF IInv

LEMMA RemoveInv == ASSUME IInv, NEW t \in Threads, Remove(t) PROVE IInv'
<1>1. /\ TypeOK /\ DoomedIsFree /\ HeldOnDisk /\ OfferedIsAlive /\ AllAccounted
      /\ NotForgotten /\ HoldsInside /\ Locked /\ ShutDown /\ ClosingIsClosed /\ Counted
  BY DEF IInv
<1>2. /\ dirs' = dirs \ doomed[t] /\ retired' = retired \ doomed[t]
      /\ doomed' = [doomed EXCEPT ![t] = {}]
      /\ UNCHANGED <<closed, walOpen, segments, references, activeViews, optimizer, pc,
                     viewing, held>>
  BY DEF Remove
<1>3. /\ doomed' \in [Threads -> SUBSET Segs] /\ doomed'[t] = {}
      /\ \A u \in Threads \ {t} : doomed'[u] = doomed[u]
  BY <1>1, <1>2 DEF TypeOK
<1>4. TypeOK'
  BY <1>1, <1>2, <1>3 DEF TypeOK
<1>5. Counted' /\ Locked' /\ ClosingIsClosed'
  BY <1>1, <1>2 DEF Counted, HoldersOf, Locked, ClosingIsClosed
<1>6. HoldsInside' /\ ShutDown'
  BY <1>1, <1>2, <1>3 DEF HoldsInside, ShutDown
<1>7. HeldOnDisk'
  BY <1>1, <1>2, <1>3 DEF HeldOnDisk
<1>8. OfferedIsAlive' /\ AllAccounted'
  BY <1>1, <1>2 DEF OfferedIsAlive, AllAccounted, DoomedIsFree
<1>9. DoomedIsFree'
  BY <1>1, <1>2, <1>3 DEF DoomedIsFree
<1>10. NotForgotten'
  BY <1>1, <1>2, <1>3 DEF NotForgotten
<1> QED BY <1>4, <1>5, <1>6, <1>7, <1>8, <1>9, <1>10 DEF IInv

LEMMA ReleaseViewInv == ASSUME IInv, NEW t \in Threads, ReleaseView(t) PROVE IInv'
<1>1. /\ TypeOK /\ HoldsInside /\ Locked /\ ShutDown /\ ClosingIsClosed
      /\ pc[t] = "closing view" /\ held[<<t, "view">>] = {} /\ doomed[t] = {}
  BY DEF IInv, ReleaseView, AllReleased, Leaving
<1>2. UNCHANGED <<closed, walOpen, segments, dirs, references, retired, optimizer, held, doomed>>
  BY DEF ReleaseView, handles
<1>3. /\ pc' \in [Threads -> Labels] /\ pc'[t] = "idle"
      /\ \A u \in Threads \ {t} : pc'[u] = pc[u] \/ (pc[u] = "waiting" /\ pc'[u] = "closing")
  BY <1>1 DEF ReleaseView, TypeOK, Labels
<1>4. activeViews' = Cardinality(viewing') /\ viewing' \in SUBSET Threads
  <2>1. IsFiniteSet(viewing) /\ t \in viewing
    BY <1>1, ThreadsFinite DEF TypeOK, HoldsInside
  <2>2. viewing' = viewing \ {t} /\ activeViews' = activeViews - 1
    BY DEF ReleaseView
  <2> QED BY <1>1, <2>1, <2>2, FS_RemoveElement DEF TypeOK
<1>5. TypeOK'
  BY <1>1, <1>2, <1>3, <1>4 DEF TypeOK
<1>6. Counted' /\ HeldOnDisk' /\ OfferedIsAlive' /\ AllAccounted' /\ DoomedIsFree' /\ NotForgotten'
  BY <1>2 DEF IInv, Counted, HoldersOf, HeldOnDisk, OfferedIsAlive, AllAccounted, DoomedIsFree,
              NotForgotten
<1>7. HoldsInside' /\ ShutDown'
  <2>1. viewing' = viewing \ {t}
    BY DEF ReleaseView
  <2> QED BY <1>1, <1>2, <1>3, <2>1 DEF HoldsInside, Optimizing, ShutDown
<1>8. Locked' /\ ClosingIsClosed'
  BY <1>1, <1>2, <1>3 DEF Locked, Optimizing, ClosingIsClosed
<1> QED BY <1>5, <1>6, <1>7, <1>8 DEF IInv

LEMMA FlushInv ==
  ASSUME IInv, NEW t \in Threads, Flush(t) \/ Snapshot(t)
  PROVE  IInv'
<1>1. /\ TypeOK /\ pc[t] \in {"flush", "snapshot"} /\ Goto(t, "idle") /\ "idle" \in Labels
      /\ UNCHANGED <<closed, walOpen, handles, activeViews, optimizer, viewing, held, doomed>>
  BY DEF IInv, Flush, Snapshot, Labels
<1>2. CASE UNCHANGED <<segments, dirs>>
  <2>1. Moves(t, "idle")
    BY <1>1, <1>2 DEF Moves, TypeOK
  <2> QED BY <1>1, <2>1, MovesInv
<1>3. ASSUME NEW s \in Fresh, dirs' = dirs \cup {s}, segments' = segments \cup {s} PROVE IInv'
  <2>1. /\ s \in Segs /\ s \notin dirs /\ s \notin retired /\ \A u \in Threads : s \notin doomed[u]
    BY DEF Fresh, IInv, AllAccounted, DoomedIsFree
  <2>2. UNCHANGED <<references, retired>>
    BY <1>1 DEF handles
  <2>3. /\ pc' \in [Threads -> Labels]
        /\ pc'[t] = "idle" /\ \A u \in Threads \ {t} : pc'[u] = pc[u]
    BY <1>1 DEF TypeOK, Goto
  <2>4. TypeOK'
    BY <1>1, <1>3, <2>1, <2>2, <2>3 DEF TypeOK
  <2>5. Counted' /\ DoomedIsFree' /\ NotForgotten'
    <3>1. UNCHANGED <<references, retired, held, doomed>>
      BY <1>1, <2>2
    <3> QED BY <3>1 DEF IInv, Counted, HoldersOf, DoomedIsFree, NotForgotten
  <2>6. HeldOnDisk' /\ OfferedIsAlive' /\ AllAccounted'
    BY <1>1, <1>3, <2>1, <2>2 DEF IInv, HeldOnDisk, OfferedIsAlive, AllAccounted
  <2>7. HoldsInside' /\ Locked'
    BY <1>1, <2>3 DEF IInv, HoldsInside, Optimizing, Locked
  <2>8. ShutDown' /\ ClosingIsClosed'
    BY <1>1, <2>2, <2>3 DEF IInv, ShutDown, ClosingIsClosed
  <2> QED BY <2>4, <2>5, <2>6, <2>7, <2>8 DEF IInv
<1>4. UNCHANGED <<segments, dirs>> \/ FlushMutable
  BY DEF Flush, Snapshot
<1> QED BY <1>2, <1>3, <1>4 DEF FlushMutable

LEMMA OptimizePublishInv == ASSUME IInv, NEW t \in Threads, OptimizePublish(t) PROVE IInv'
<1>1. /\ TypeOK /\ pc[t] = "building" /\ Goto(t, "ending optimize")
      /\ UNCHANGED <<closed, walOpen, references, activeViews, optimizer, viewing, held, doomed>>
  BY DEF IInv, OptimizePublish
<1> DEFINE mine == held[<<t, "optimize">>]
<1>2. \A s \in mine : s \in Segs /\ references[s] # 0
  BY <1>1, HolderKinds, CountOfHolders DEF TypeOK
<1>3. PICK new \in Fresh :
        /\ segments' = (segments \ mine) \cup {new}
        /\ dirs' = dirs \cup {new} /\ retired' = retired \cup mine
  <2>1. \A new \in Fresh : {s \in Sources(t, new) : references[s] = 0} = {}
    BY <1>2 DEF Sources
  <2> QED BY <2>1 DEF OptimizePublish, Sources
<1>4. /\ new \in Segs /\ new \notin dirs /\ new \notin segments /\ new \notin retired
      /\ new \notin mine /\ \A u \in Threads : new \notin doomed[u]
  BY <1>3, HolderKinds DEF Fresh, IInv, AllAccounted, HeldOnDisk, DoomedIsFree
<1>5. /\ pc' \in [Threads -> Labels]
      /\ pc'[t] = "ending optimize" /\ \A u \in Threads \ {t} : pc'[u] = pc[u]
  BY <1>1 DEF TypeOK, Goto, Labels
<1>6. mine \subseteq Segs /\ mine \subseteq dirs
  BY <1>1, HolderKinds DEF IInv, TypeOK, HeldOnDisk
<1> HIDE DEF mine
<1>7. TypeOK'
  BY <1>1, <1>3, <1>4, <1>5, <1>6 DEF TypeOK
<1>8. Counted' /\ HeldOnDisk'
  BY <1>1, <1>3 DEF IInv, Counted, HoldersOf, HeldOnDisk
<1>9. OfferedIsAlive' /\ AllAccounted'
  BY <1>3, <1>4, <1>6 DEF IInv, OfferedIsAlive, AllAccounted
<1>10. DoomedIsFree' /\ NotForgotten'
  BY <1>1, <1>2, <1>3 DEF IInv, DoomedIsFree, NotForgotten
<1>11. HoldsInside' /\ Locked' /\ ClosingIsClosed'
  BY <1>1, <1>5 DEF IInv, HoldsInside, Optimizing, Locked, ClosingIsClosed
<1>12. ShutDown'
  BY <1>1 DEF IInv, ShutDown
<1> QED BY <1>7, <1>8, <1>9, <1>10, <1>11, <1>12 DEF IInv

-----------------------------------------------------------------------------
LEMMA NextInv == ASSUME IInv, [Next]_vars PROVE IInv'
BY StutterInv, MovingSteps, MarkClosedInv, LockInv, CaptureViewInv, OptimizeCaptureInv,
   ReleaseInv, RemoveInv, ReleaseViewInv, FlushInv, OptimizePublishInv
   DEF Next, Step

LEMMA Invariant == Spec => []IInv
BY InitInv, NextInv, PTL DEF Spec

\* Every variable keeps its type, and `_active_views` is the number of open views
\* (capture_view, _release_view).
THEOREM TypeCorrect == Spec => []TypeOK
<1>1. IInv => TypeOK
  BY DEF IInv
<1> QED BY <1>1, Invariant, PTL

\* However many threads read, flush and optimize, what a thread has acquired is on disk
\* and nobody is about to delete it (SegmentHandle.release).
THEOREM HeldStaysOnDisk == Spec => []HeldOnDisk
<1>1. IInv => HeldOnDisk
  BY DEF IInv
<1> QED BY <1>1, Invariant, PTL

\* acquire() never meets a deleted or retired handle (capture_view).
THEOREM OfferedStaysAlive == Spec => []OfferedIsAlive
<1>1. IInv => OfferedIsAlive
  BY DEF IInv
<1> QED BY <1>1, Invariant, PTL

\* Once nobody holds a handle, every retired directory is gone (SegmentHandle.retire,
\* release).
THEOREM NothingStaysBehind == Spec => []NothingLeftBehind
<1>1. ASSUME IInv PROVE NothingLeftBehind
  <2> SUFFICES ASSUME \A h \in Holders : held[h] = {}, \A t \in Threads : doomed[t] = {}
               PROVE  dirs = segments
    BY DEF NothingLeftBehind
  <2>1. ASSUME NEW s \in retired PROVE FALSE
    <3>1. s \in Segs
      BY <1>1 DEF IInv, TypeOK
    <3>2. references[s] = 0
      BY <1>1, <3>1, CountOfHolders
    <3> QED BY <1>1, <3>2 DEF IInv, NotForgotten
  <2> QED BY <1>1, <2>1 DEF IInv, AllAccounted
<1> QED BY <1>1, Invariant, PTL

\* close() closes the log after the last view and the running optimize have released
\* everything (close, _release_view).
THEOREM LogClosedLast == Spec => LogOutlivesReaders
<1>1. ASSUME IInv, [Next]_vars
      PROVE  [walOpen /\ ~ walOpen' => /\ \A h \in Holders : held[h] = {}
                                      /\ \A t \in Threads : pc[t] # "building"]_vars
  <2> SUFFICES ASSUME walOpen, ~ walOpen'
               PROVE  /\ \A h \in Holders : held[h] = {}
                      /\ \A t \in Threads : pc[t] # "building"
    OBVIOUS
  <2>1. PICK t \in Threads : CloseReturns(t)
    BY <1>1 DEF Next, Step, Begin, MarkClosed, Release, Remove, CaptureView, CloseView,
           ReleaseView, Flush, Snapshot, OptimizeTooLate, OptimizeCapture, OptimizePublish,
           OptimizeRaises, OptimizeReturns, CloseLocks, CloseWaits, vars
  <2> QED BY <1>1, <2>1, NothingHeldAtClose
<1> QED BY <1>1, Invariant, PTL DEF Spec, LogOutlivesReaders

\* After close() has closed the log no segment and no directory goes away, whoever was
\* still on his way (optimize reads the flag again under its lock).
THEOREM ClosedLosesNothing == Spec => ClosedKeepsSegments
<1>1. ASSUME IInv, [Next]_vars
      PROVE  [~ walOpen => segments \subseteq segments' /\ dirs \subseteq dirs']_vars
  <2> SUFFICES ASSUME ~ walOpen PROVE segments \subseteq segments' /\ dirs \subseteq dirs'
    OBVIOUS
  <2>1. retired = {} /\ \A t \in Threads : pc[t] # "building"
    BY <1>1 DEF IInv, ShutDown
  <2>2. \A t \in Threads : doomed[t] = {}
    BY <1>1, <2>1 DEF IInv, DoomedIsFree
  <2> QED BY <1>1, <2>1, <2>2
          DEF Next, Step, Begin, MarkClosed, Release, Remove, CaptureView,
              CloseView, ReleaseView, Flush, Snapshot, FlushMutable, OptimizeTooLate, OptimizeCapture,
              OptimizePublish, OptimizeRaises, OptimizeReturns, CloseLocks, CloseWaits,
              CloseReturns, vars
<1> QED BY <1>1, Invariant, PTL DEF Spec, ClosedKeepsSegments
=============================================================================
