---------------------------- MODULE Publication -----------------------------
(***************************************************************************)
(* How a root is published: the files of a collection's directory, one     *)
(* system call at a time (ManifestStore.publish), and what the two callers *)
(* do when it raises (Collection.flush and Collection._optimize).          *)
(*                                                                         *)
(* The directory is a function from names to contents.  A manifest's       *)
(* content is the set of segments it names, CURRENT's the generation of    *)
(* the manifest it names.  Files are fsynced before they are renamed, so   *)
(* what a host crash can undo is the directory's entries, one by one, back *)
(* to what the last fsync of the directory saw.                            *)
(*                                                                         *)
(* Publication happens under `_update_lock`: there is one at a time.       *)
(***************************************************************************)
EXTENDS Naturals

CONSTANTS Segs,       \* names of segment directories
          None,       \* no such file
          Torn,       \* the content of a file whose writing was interrupted
          Faults,     \* the steps of publish() that may raise
          HostFails,  \* whether the host may crash
          MaxGen      \* bound: manifest generations

Steps == {"write", "rename", "sync", "point", "commit", "confirm"}

ASSUME PublicationAssumption ==
  /\ Faults \subseteq Steps
  /\ HostFails \in BOOLEAN
  /\ MaxGen \in Nat \ {0}
  /\ None # Torn
  /\ \A segs \in SUBSET Segs : segs \notin {None, Torn}
  /\ \A gen \in 1 .. MaxGen : gen \notin {None, Torn}

Generations == 1 .. MaxGen

Current == <<"CURRENT", 0>>
CurrentTmp == <<"CURRENT.tmp", 0>>
File(gen) == <<"manifest", gen>>

Tmp(gen) == <<"manifest.tmp", gen>>

Pointers == {Current, CurrentTmp}
Names == Pointers \cup {File(gen) : gen \in Generations} \cup {Tmp(gen) : gen \in Generations}

VARIABLES
  dir,       \* the directory as the process sees it
  synced,    \* the directory as of its last fsync
  segments,  \* the segment directories that exist
  memory,    \* the root in memory, [gen, segs], or None without a process
  pub        \* the running publication: [step, op, segs, new]

vars == <<dir, synced, segments, memory, pub>>

NotPublishing == [step |-> "none"]

-----------------------------------------------------------------------------
LoadsManifest(d) == d[Current] # None /\ d[File(d[Current])] \notin {None, Torn}

\* What open() needs: CURRENT, its manifest, and every segment that names.
Loads(d) == LoadsManifest(d) /\ d[File(d[Current])] \subseteq segments

Loaded(d) == [gen |-> d[Current], segs |-> d[File(d[Current])]]

Init ==
  /\ dir = [name \in Names |->
              CASE name = Current -> 1 [] name = File(1) -> {} [] OTHER -> None]
  /\ synced = dir
  /\ segments = {}
  /\ memory = [gen |-> 1, segs |-> {}]
  /\ pub = NotPublishing

-----------------------------------------------------------------------------
(***************************************************************************)
(* The two callers write a segment and then publish a root: flush adds it  *)
(* to the segments of the root in memory, optimize replaces them by it.    *)
(***************************************************************************)
Begin(op) ==
  /\ memory # None
  /\ pub = NotPublishing
  /\ memory.gen < MaxGen
  /\ \E s \in Segs \ segments :
       /\ segments' = segments \cup {s}
       /\ pub' = [step |-> "check", op |-> op, new |-> s,
                  segs |-> IF op = "flush" THEN memory.segs \cup {s} ELSE {s}]
  /\ UNCHANGED <<dir, synced, memory>>

Flush == Begin("flush")

Optimize == Begin("optimize")

-----------------------------------------------------------------------------
(***************************************************************************)
(* ManifestStore.publish.                                                  *)
(***************************************************************************)
\* Mutant: the generation in memory is published again.
SameGeneration == memory.gen

NextGeneration == memory.gen + 1

\* Mutant: the manifest is written in place.
InPlace == File(NextGeneration)

Temporary == Tmp(NextGeneration)

At(step) == pub # NotPublishing /\ pub.step = step

Goto(step) == pub' = [pub EXCEPT !.step = step]

Check ==
  /\ At("check")
  /\ LoadsManifest(dir)
  /\ NextGeneration > dir[Current]
  /\ Goto("write")
  /\ UNCHANGED <<dir, synced, segments, memory>>

\* open("xb") refuses a file that exists.
Write ==
  /\ At("write")
  /\ dir[Temporary] = None
  /\ dir' = [dir EXCEPT ![Temporary] = pub.segs]
  /\ Goto("rename")
  /\ UNCHANGED <<synced, segments, memory>>

Rename ==
  /\ At("rename")
  /\ dir' = [dir EXCEPT ![File(NextGeneration)] = dir[Temporary],
                        ![Temporary] = None]
  /\ Goto("sync")
  /\ UNCHANGED <<synced, segments, memory>>

\* Mutant: the directory is not fsynced.
NotFsynced == synced

Fsynced == dir

Sync ==
  /\ At("sync")
  /\ synced' = Fsynced
  /\ Goto("point")
  /\ UNCHANGED <<dir, segments, memory>>

Point ==
  /\ At("point")
  /\ dir[CurrentTmp] = None
  /\ dir' = [dir EXCEPT ![CurrentTmp] = NextGeneration]
  /\ Goto("commit")
  /\ UNCHANGED <<synced, segments, memory>>

Commit ==
  /\ At("commit")
  /\ dir' = [dir EXCEPT ![Current] = dir[CurrentTmp], ![CurrentTmp] = None]
  /\ Goto("confirm")
  /\ UNCHANGED <<synced, segments, memory>>

Confirm ==
  /\ At("confirm")
  /\ synced' = Fsynced
  /\ Goto("install")
  /\ UNCHANGED <<dir, segments, memory>>

\* publish() returned: memory follows, and an optimize deletes its sources
\* (at once: Collection.tla has the readers that delay it).
Install ==
  /\ At("install")
  /\ memory' = [gen |-> NextGeneration, segs |-> pub.segs]
  /\ segments' = IF pub.op = "optimize" THEN segments \ memory.segs ELSE segments
  /\ pub' = NotPublishing
  /\ UNCHANGED <<dir, synced>>

-----------------------------------------------------------------------------
(***************************************************************************)
(* Failures.  A flush leaves everything behind.  An optimize unlinks its   *)
(* manifest and CURRENT.tmp and removes its segment, unless publish()      *)
(* returned; the manifest's own temporary file stays.                      *)
(***************************************************************************)
\* Mutant: the manifest in memory is unlinked instead of the new one.
AbandonedInstalled == memory.gen

Abandoned == NextGeneration

Abandon(d) ==
  /\ IF pub.op = "optimize"
     THEN /\ dir' = [d EXCEPT ![File(Abandoned)] = None, ![CurrentTmp] = None]
          /\ segments' = segments \ {pub.new}
     ELSE dir' = d /\ UNCHANGED segments
  /\ pub' = NotPublishing
  /\ UNCHANGED <<synced, memory>>

\* "manifest generation must increase", a CURRENT that cannot be loaded, or a
\* temporary file that is already there.
Refused ==
  /\ pub # NotPublishing
  /\ CASE pub.step = "check" -> ~(LoadsManifest(dir) /\ NextGeneration > dir[Current])
       [] pub.step = "write" -> dir[Temporary] # None
       [] pub.step = "point" -> dir[CurrentTmp] # None
       [] OTHER -> FALSE
  /\ Abandon(dir)

\* What an interrupted write leaves in the directory.
Interrupted ==
  {dir}
    \cup (IF At("write") /\ dir[Temporary] = None
          THEN {[dir EXCEPT ![Temporary] = Torn]} ELSE {})
    \cup (IF At("point") /\ dir[CurrentTmp] = None
          THEN {[dir EXCEPT ![CurrentTmp] = Torn]} ELSE {})

\* A system call fails, or the hook before CURRENT is replaced raises.
Raises ==
  /\ pub # NotPublishing
  /\ pub.step \in Faults
  /\ \E d \in Interrupted : Abandon(d)

ProcessCrash ==
  /\ memory # None
  /\ dir' \in Interrupted
  /\ memory' = None
  /\ pub' = NotPublishing
  /\ UNCHANGED <<synced, segments>>

HostCrash ==
  /\ HostFails
  /\ \E d \in Interrupted : \E undone \in SUBSET {name \in Names : d[name] # synced[name]} :
       dir' = [name \in Names |-> IF name \in undone THEN synced[name] ELSE d[name]]
  /\ synced' = dir'
  /\ memory' = None
  /\ pub' = NotPublishing
  /\ UNCHANGED segments

\* open() removes nothing.
Open ==
  /\ memory = None
  /\ Loads(dir)
  /\ memory' = Loaded(dir)
  /\ UNCHANGED <<dir, synced, segments, pub>>

-----------------------------------------------------------------------------
Next ==
  \/ Flush \/ Optimize
  \/ Check \/ Write \/ Rename \/ Sync \/ Point \/ Commit \/ Confirm \/ Install
  \/ Refused \/ Raises \/ ProcessCrash \/ HostCrash \/ Open

Spec == Init /\ [][Next]_vars

-----------------------------------------------------------------------------
Publishing ==
  [step : Steps \cup {"check", "install"}, op : {"flush", "optimize"}, new : Segs,
   segs : SUBSET Segs]

\* Every entry and the publication have their types; only a temporary file can be
\* half written.
TypeOK ==
  /\ DOMAIN dir = Names /\ DOMAIN synced = Names
  /\ \A d \in {dir, synced} :
       /\ d[Current] \in Generations
       /\ d[CurrentTmp] \in Generations \cup {None, Torn}
       /\ \A gen \in Generations :
            /\ d[File(gen)] # Torn
            /\ \A name \in {File(gen), Tmp(gen)} :
                 d[name] \in {None, Torn} \/ d[name] \in SUBSET Segs
  /\ segments \in SUBSET Segs
  /\ memory \in [gen : Generations, segs : SUBSET Segs] \cup {None}
  /\ pub \in Publishing \cup {NotPublishing}
  /\ memory = None => pub = NotPublishing

-----------------------------------------------------------------------------
(***************************************************************************)
(* Safety.                                                                 *)
(***************************************************************************)
\* Whenever the process or the host stops, CURRENT names a manifest that is
\* there, all of whose segments are there: "a crash selects either the old
\* complete generation or the new complete generation, never a mixed list"
\* (manifest.py:5).
CurrentComplete == Loads(dir)

\* A manifest that a durable CURRENT has named is never changed or removed:
\* "the immutable, checksummed generation" (manifest.py:65).
PublishedIsImmutable ==
  [][\A gen \in Generations :
       gen <= synced[Current] => dir'[File(gen)] = dir[File(gen)]]_vars

\* Publishing implements the atomic replacement of a root that Collection.tla
\* takes it for.
Register == INSTANCE AtomicRoot WITH
  Roots   <- [gen : Generations, segs : SUBSET Segs],
  Down    <- None,
  root    <- Loaded(dir),
  durable <- Loaded(synced),
  known   <- memory

RegisterSpec == Register!Spec
=============================================================================
