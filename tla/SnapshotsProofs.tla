--------------------------- MODULE SnapshotsProofs ---------------------------
(***************************************************************************)
(* Theorems about Snapshots for every set of ids, values, segment names    *)
(* and destinations, every batch and every length of the log: what a crash *)
(* leaves opens again and holds what was acknowledged, and a snapshot is   *)
(* whole or is not there.                                                  *)
(***************************************************************************)
EXTENDS Snapshots, SegmentsProofs, SequenceTheorems

-----------------------------------------------------------------------------
(***************************************************************************)
(* What is carried along.                                                  *)
(***************************************************************************)
\* A tree has a whole file at a path, with a content of the set.
Holds(tree, path, Kind) ==
  /\ path \in DOMAIN tree
  /\ tree[path] = File(Content(tree, path))
  /\ Content(tree, path) \in Kind

Roots == [segments : Seq(SegIds), boundary : Nat]

\* Every file that open() reads is whole, and the segments of the manifest cover the
\* log up to its replay boundary.
Sound(tree) ==
  /\ Holds(tree, Metadata, SUBSET Fields)
  /\ Holds(tree, Current, Nat)
  /\ Holds(tree, LogFile, Seq(Operation))
  /\ Holds(tree, Manifest(Generation(tree)), Roots)
  /\ \A i \in DOMAIN Segments(tree) :
       Readable(tree, Segments(tree)[i]) /\ ReadRecords(tree, Segments(tree)[i]) \in Segment
  /\ Root(tree).boundary <= Len(Log(tree))
  /\ Covers(Latest(SegmentRecords(tree)), Log(tree), Root(tree).boundary)

\* The files that open() reads, which are the ones that a snapshot copies.
Needed(tree) ==
  {Metadata, Current, Manifest(Generation(tree)), LogFile}
    \cup UNION {SegmentPaths(Segments(tree)[i]) : i \in DOMAIN Segments(tree)}

Named(tree) == {Segments(tree)[i] : i \in DOMAIN Segments(tree)}

Building == task.step \in {"build", "write", "publish"}

Snapping == task.step \in {"check", "copy", "sync", "replace", "confirm"}

Builders ==
  [op : {"flush", "optimize", "snapshot"}, step : {"build", "write", "publish"},
   dest : Dests \cup {Nothing}, synced : {FALSE},
   new : SegIds, image : Images, boundary : Nat]

Snappers ==
  [op : {"snapshot"}, step : {"check", "copy", "sync", "replace", "confirm"},
   dest : Dests, synced : BOOLEAN]

TaskType ==
  /\ task = Idle \/ task \in Builders \/ task \in Snappers
  /\ task.step = "build" => task.op = "optimize"
  /\ task.op = "snapshot" => task.dest \in Dests

\* The collection serves what its files hold.
Served ==
  /\ Sound(files)
  /\ mutable = Replayed(files)

\* No directory that may be removed is one that the manifest names, and none of
\* them is the directory of manifests.
Apart ==
  /\ "manifest" \notin Named(files) \cup retired \cup (unsynced \cap SegIds)
  /\ Named(files) \cap unsynced = {}
  /\ Named(files) \cap retired = {}
  /\ \A s \in retired : <<s, "meta">> \in DOMAIN files

\* A segment that is being built is at a name of its own, and what it holds can
\* take the place it is built for.
Built ==
  Building =>
    /\ task.new # "manifest"
    /\ task.step # "publish" => \A path \in DOMAIN files : path[1] # task.new
    /\ task.step = "publish" =>
         /\ Readable(files, task.new)
         /\ ReadRecords(files, task.new) = task.image.records
         /\ task.new \notin Named(files) \cup retired
    /\ Root(files).boundary <= task.boundary /\ task.boundary <= Len(Log(files))
    /\ task.op = "optimize" => Covers(task.image.records, Log(files), task.boundary)
    /\ task.op # "optimize" =>
         /\ task.boundary = Len(Log(files))
         /\ Covers(Latest(Append(SegmentRecords(files), task.image.records)),
                   Log(files), task.boundary)

\* The temporary directory holds the files of the image written so far, or of the
\* collection copied so far; with its index it holds all of them.
Filled ==
  /\ task.step \notin {"write", "copy", "sync", "replace"} => temp = Nothing
  /\ task.step = "write" =>
       /\ DOMAIN temp \subseteq SegmentPaths(task.new)
       /\ \A name \in FileNames \cup {"meta"} :
            <<task.new, name>> \in DOMAIN temp =>
              temp[<<task.new, name>>] = File(FileContent(task.image, name))
  /\ task.step = "copy" =>
       /\ temp = [path \in DOMAIN temp |-> temp[path]]
       /\ DOMAIN temp \subseteq Needed(files)
       /\ \A path \in DOMAIN temp : temp[path] = files[path]
  /\ task.step \in {"sync", "replace"} =>
       /\ DOMAIN temp = Needed(files) \cup {Index}
       /\ temp[Index] = File(Collection(temp))
       /\ \A path \in Needed(files) : temp[path] = files[path]
  /\ task.step = "replace" => task.synced

\* A snapshot with an index that lists it, of a collection that opens, with nothing
\* torn and nothing added.
Intact(tree, what) ==
  /\ Index \in DOMAIN tree /\ tree[Index] = File(Collection(tree))
  /\ Sound(Collection(tree))
  /\ Recovered(Collection(tree)) = what
  /\ DOMAIN Collection(tree) = Needed(Collection(tree))

\* A destination whose snapshot has not been returned, was damaged since, or lies in
\* a directory that a crash may lose.
Unclaimed(d) == d \notin returned \/ d \in damaged \/ d \in NewParents

\* What lies at a destination is intact, known to be damaged, or claimed by nobody.
Shelves(d) ==
  \/ Intact(snaps[d], taken[d])
  \/ d \in damaged /\ ~ Accepts(snaps[d])
  \/ snaps[d] = Nothing /\ Unclaimed(d)

Shelved ==
  /\ snaps = [d \in Dests |-> snaps[d]] /\ taken = [d \in Dests |-> taken[d]]
  /\ \A d \in Dests : Shelves(d)
  /\ loose = {}
  /\ \A d \in unsynced \cap Dests : Unclaimed(d)
  /\ task.step \in {"copy", "sync", "replace", "confirm"} => Unclaimed(task.dest)
  /\ task.step = "confirm" => task.dest \in damaged \/ Intact(snaps[task.dest], taken[task.dest])

IInv == TaskType /\ Served /\ Apart /\ Built /\ Filled /\ Shelved

-----------------------------------------------------------------------------
(***************************************************************************)
(* Paths, files and trees.                                                 *)
(***************************************************************************)
\* The seven files of a segment.
LEMMA PathsOfSegment ==
  ASSUME NEW s
  PROVE  SegmentPaths(s) = {<<s, name>> : name \in FileNames \cup {"meta"}}
BY DEF SegmentPaths, FileNames, Written

\* The files of a collection are at paths of their own.
LEMMA PathsDiffer ==
  ASSUME NEW g
  PROVE  /\ Metadata # Current /\ Metadata # LogFile /\ Metadata # Index /\ Metadata # Stray
         /\ Current # LogFile /\ Current # Index /\ Current # Stray
         /\ LogFile # Index /\ LogFile # Stray /\ Index # Stray
         /\ Manifest(g) \notin {Metadata, Current, LogFile, Index, Stray}
         /\ \A h : Manifest(g) = Manifest(h) => g = h
BY DEF Metadata, Current, LogFile, Index, Stray, Manifest

\* The directory of a segment is apart from them, and from that of any other segment.
LEMMA SegmentsApart ==
  ASSUME NEW s, NEW path \in SegmentPaths(s)
  PROVE  /\ path \notin {Metadata, Current, LogFile, Index, Stray}
         /\ path[1] = s
         /\ \A t : path \in SegmentPaths(t) => s = t
         /\ s # "manifest" => \A g : path # Manifest(g)
<1>1. PICK name \in FileNames \cup {"meta"} : path = <<s, name>>
  BY PathsOfSegment
<1>2. path[1] = s
  BY <1>1
<1>3. ASSUME NEW t, path \in SegmentPaths(t)
      PROVE  s = t
  <2>1. PICK other \in FileNames \cup {"meta"} : path = <<t, other>>
    BY <1>3, PathsOfSegment
  <2> QED BY <1>2, <2>1
<1>4. path \notin {Metadata, Current, LogFile, Index, Stray}
  BY <1>1 DEF Metadata, Current, LogFile, Index, Stray
<1>5. s # "manifest" => \A g : path # Manifest(g)
  BY <1>1 DEF Manifest
<1> QED BY <1>2, <1>3, <1>4, <1>5

LEMMA HeldIsThere ==
  ASSUME NEW tree, NEW path, NEW Kind, Holds(tree, path, Kind)
  PROVE  HasFile(tree, path)
BY DEF Holds, HasFile, File, Torn

-----------------------------------------------------------------------------
(***************************************************************************)
(* What a segment gives back.                                              *)
(***************************************************************************)
\* A record survives _image_files and _decode_image, its tombstone and version too.
LEMMA DecodedIsEncoded ==
  ASSUME NEW image \in Images, NEW blobs,
         \A name \in FileNames : blobs[name] = ImageFiles(image)[name]
  PROVE  DecodeRecords(blobs) = image.records
<1> DEFINE seg == image.records
<1>1. seg \in Segment
  BY DEF Images
<1>2. /\ blobs.points = [id \in LivePoints(seg) |-> seg[id].val.vec]
      /\ blobs.payloads = [id \in LivePoints(seg) |-> seg[id].val.payload]
      /\ blobs.versions = Versions(seg)
      /\ blobs.deleted = Held(seg) \ LivePoints(seg)
  BY DEF FileNames, ImageFiles
<1>3. ASSUME NEW id \in Ids
      PROVE  DecodeRecords(blobs)[id] = seg[id]
  <2>1. seg[id] \in Record
    BY <1>1 DEF Segment
  <2>2. CASE id \notin Held(seg)
    BY <1>2, <2>2 DEF DecodeRecords, Versions, Held
  <2>3. CASE id \in Held(seg) \ LivePoints(seg)
    <3>1. seg[id].val = Gone /\ seg[id] \in [ver : Nat \ {0}, val : Contents]
      BY <2>1, <2>3 DEF LivePoints, Held, Record
    <3>2. DecodeRecords(blobs)[id] = [ver |-> seg[id].ver, val |-> Gone]
      BY <1>2, <2>3 DEF DecodeRecords, Versions
    <3> QED BY <3>1, <3>2
  <2>4. CASE id \in LivePoints(seg)
    <3>1. id \in Held(seg) /\ seg[id].val # Gone /\ seg[id] \in [ver : Nat \ {0}, val : Contents]
      BY <2>1, <2>4 DEF LivePoints, Held, Record
    <3>2. seg[id].val \in [vec : Vecs, payload : SUBSET Fields]
      BY <3>1 DEF Contents, Value
    <3>3. DecodeRecords(blobs)[id]
            = [ver |-> seg[id].ver,
               val |-> [vec |-> seg[id].val.vec, payload |-> seg[id].val.payload]]
      BY <1>2, <2>4, <3>1 DEF DecodeRecords, Versions
    <3> QED BY <3>1, <3>2, <3>3
  <2> QED BY <2>2, <2>3, <2>4 DEF LivePoints
<1>4. DecodeRecords(blobs) = [id \in Ids |-> DecodeRecords(blobs)[id]]
  BY DEF DecodeRecords
<1>5. seg = [id \in Ids |-> seg[id]]
  BY <1>1 DEF Segment
<1> QED BY <1>3, <1>4, <1>5

LEMMA ReadableIsThere ==
  ASSUME NEW tree, NEW s, Readable(tree, s), NEW path \in SegmentPaths(s)
  PROVE  HasFile(tree, path)
BY PathsOfSegment DEF Readable

\* SegmentCodec.read returns the records of the image that write_atomic wrote.
LEMMA WrittenIsRead ==
  ASSUME NEW image \in Images, NEW tree, NEW s,
         \A name \in FileNames \cup {"meta"} :
           /\ <<s, name>> \in DOMAIN tree
           /\ tree[<<s, name>>] = File(FileContent(image, name))
  PROVE  Readable(tree, s) /\ ReadRecords(tree, s) = image.records
<1>1. ASSUME NEW name \in FileNames \cup {"meta"}
      PROVE  /\ HasFile(tree, <<s, name>>)
             /\ Content(tree, <<s, name>>) = FileContent(image, name)
  BY DEF HasFile, File, Torn, Content
<1>2. /\ HasFile(tree, <<s, "meta">>)
      /\ Content(tree, <<s, "meta">>).checksums = ImageFiles(image)
  BY <1>1 DEF FileContent, Meta
<1>3. ASSUME NEW name \in FileNames
      PROVE  /\ HasFile(tree, <<s, name>>)
             /\ Content(tree, <<s, name>>) = ImageFiles(image)[name]
  <2>1. name # "meta"
    BY DEF FileNames
  <2> QED BY <1>1, <2>1 DEF FileContent
<1>4. Readable(tree, s)
  BY <1>2, <1>3 DEF Readable
<1> DEFINE blobs == [name \in FileNames |-> Content(tree, <<s, name>>)]
<1>5. DecodeRecords(blobs) = image.records
  <2>1. \A name \in FileNames : blobs[name] = ImageFiles(image)[name]
    BY <1>3
  <2> HIDE DEF blobs
  <2> QED BY <2>1, DecodedIsEncoded
<1> QED BY <1>4, <1>5 DEF ReadRecords

\* What read finds depends on the files of the segment only.
LEMMA ReadAgrees ==
  ASSUME NEW tree, NEW other, NEW s, Readable(tree, s),
         \A path \in SegmentPaths(s) : path \in DOMAIN other /\ other[path] = tree[path]
  PROVE  Readable(other, s) /\ ReadRecords(other, s) = ReadRecords(tree, s)
<1>1. \A name \in FileNames \cup {"meta"} : 
        /\ <<s, name>> \in DOMAIN other
        /\ other[<<s, name>>] = tree[<<s, name>>]
        /\ Content(other, <<s, name>>) = Content(tree, <<s, name>>)
  BY PathsOfSegment DEF Content
<1>2. Readable(other, s)
  BY <1>1 DEF Readable, HasFile
<1>3. [name \in FileNames |-> Content(other, <<s, name>>)]
        = [name \in FileNames |-> Content(tree, <<s, name>>)]
  BY <1>1
<1> QED BY <1>2, <1>3 DEF ReadRecords

-----------------------------------------------------------------------------
(***************************************************************************)
(* What a sound tree says.                                                 *)
(***************************************************************************)
LEMMA SoundTypes ==
  ASSUME NEW tree, Sound(tree)
  PROVE  /\ Generation(tree) \in Nat
         /\ Log(tree) \in Seq(Operation) /\ Log(tree) = Content(tree, LogFile)
         /\ Root(tree) \in Roots /\ Segments(tree) \in Seq(SegIds)
         /\ Root(tree).boundary \in 0 .. Len(Log(tree))
         /\ Schemas(tree) \in SUBSET Fields
         /\ SegmentRecords(tree) \in Seq(Segment)
         /\ Named(tree) \subseteq SegIds
         /\ Replayed(tree) \in Segment
<1>1. Generation(tree) \in Nat /\ Schemas(tree) \in SUBSET Fields
  BY DEF Sound, Holds, Generation, Schemas
<1>2. Log(tree) \in Seq(Operation) /\ Log(tree) = Content(tree, LogFile)
  BY HeldIsThere DEF Sound, Holds, Log
<1>3. Root(tree) \in Roots /\ Segments(tree) \in Seq(SegIds)
  BY DEF Sound, Holds, Root, Segments, Roots
<1>4. Root(tree).boundary \in Nat /\ Root(tree).boundary <= Len(Log(tree))
  BY <1>3 DEF Sound, Roots
<1>5. Len(Log(tree)) \in Nat
  BY <1>2
<1>6. Root(tree).boundary \in 0 .. Len(Log(tree))
  BY <1>4, <1>5
<1>7. SegmentRecords(tree) \in Seq(Segment)
  <2>1. DOMAIN Segments(tree) = 1 .. Len(Segments(tree)) /\ Len(Segments(tree)) \in Nat
    BY <1>3
  <2>2. SegmentRecords(tree) \in [1 .. Len(Segments(tree)) -> Segment]
    BY <2>1 DEF SegmentRecords, Sound
  <2> QED BY <2>1, <2>2
<1>8. Named(tree) \subseteq SegIds
  BY <1>3 DEF Named
<1>9. Replayed(tree) \in Segment
  BY <1>2, <1>4, <1>5, SliceType DEF Replayed
<1> QED BY <1>1, <1>2, <1>3, <1>6, <1>7, <1>8, <1>9

\* Everything open() reads is there.
LEMMA NeededIsThere ==
  ASSUME NEW tree, Sound(tree), NEW path \in Needed(tree)
  PROVE  HasFile(tree, path)
<1>1. CASE path \in {Metadata, Current, LogFile, Manifest(Generation(tree))}
  BY <1>1, HeldIsThere DEF Sound
<1>2. CASE \E i \in DOMAIN Segments(tree) : path \in SegmentPaths(Segments(tree)[i])
  <2>1. PICK i \in DOMAIN Segments(tree) : path \in SegmentPaths(Segments(tree)[i])
    BY <1>2
  <2>2. Readable(tree, Segments(tree)[i])
    BY DEF Sound
  <2> QED BY <2>1, <2>2, PathsOfSegment DEF Readable
<1> QED BY <1>1, <1>2 DEF Needed

LEMMA NeededOfSegment ==
  ASSUME NEW tree, NEW i \in DOMAIN Segments(tree)
  PROVE  SegmentPaths(Segments(tree)[i]) \subseteq Needed(tree)
BY DEF Needed

\* A tree that agrees with it on what open() reads says the same.
LEMMA SoundAgrees ==
  ASSUME NEW tree, NEW other, Sound(tree),
         \A path \in Needed(tree) : path \in DOMAIN other /\ other[path] = tree[path]
  PROVE  /\ Sound(other)
         /\ Generation(other) = Generation(tree) /\ Log(other) = Log(tree)
         /\ Root(other) = Root(tree) /\ Segments(other) = Segments(tree)
         /\ Schemas(other) = Schemas(tree)
         /\ SegmentRecords(other) = SegmentRecords(tree)
         /\ Named(other) = Named(tree) /\ Needed(other) = Needed(tree)
         /\ Replayed(other) = Replayed(tree) /\ Recovered(other) = Recovered(tree)
<1>1. {Metadata, Current, LogFile, Manifest(Generation(tree))} \subseteq Needed(tree)
  BY DEF Needed
<1>2. /\ Generation(other) = Generation(tree) /\ Schemas(other) = Schemas(tree)
      /\ Content(other, LogFile) = Content(tree, LogFile)
      /\ Root(other) = Root(tree) /\ Segments(other) = Segments(tree)
  BY <1>1 DEF Generation, Schemas, Root, Segments, Content
<1>3. /\ Holds(other, Metadata, SUBSET Fields)
      /\ Holds(other, Current, Nat)
      /\ Holds(other, LogFile, Seq(Operation))
      /\ Holds(other, Manifest(Generation(other)), Roots)
  BY <1>1, <1>2 DEF Sound, Holds, Content
<1>4. Log(other) = Log(tree)
  BY <1>2, <1>3, SoundTypes, HeldIsThere DEF Log
<1>5. \A i \in DOMAIN Segments(tree) :
        /\ Readable(other, Segments(tree)[i])
        /\ ReadRecords(other, Segments(tree)[i]) = ReadRecords(tree, Segments(tree)[i])
  <2> TAKE i \in DOMAIN Segments(tree)
  <2>1. Readable(tree, Segments(tree)[i])
    BY DEF Sound
  <2>2. \A path \in SegmentPaths(Segments(tree)[i]) :
          path \in DOMAIN other /\ other[path] = tree[path]
    BY NeededOfSegment
  <2> QED BY <2>1, <2>2, ReadAgrees
<1>6. SegmentRecords(other) = SegmentRecords(tree)
  BY <1>2, <1>5 DEF SegmentRecords
<1>7. Sound(other)
  BY <1>2, <1>3, <1>4, <1>5, <1>6 DEF Sound
<1>8. Named(other) = Named(tree) /\ Needed(other) = Needed(tree)
  BY <1>2 DEF Named, Needed
<1>9. Replayed(other) = Replayed(tree)
  BY <1>2, <1>4 DEF Replayed
<1>10. Recovered(other) = Recovered(tree)
  BY <1>2, <1>4, <1>6, <1>9 DEF Recovered
<1> QED BY <1>2, <1>4, <1>6, <1>7, <1>8, <1>9, <1>10

\* With the replayed records the segments cover the whole log.
LEMMA SoundCovers ==
  ASSUME NEW tree, Sound(tree)
  PROVE  Covers(Latest(Append(SegmentRecords(tree), Replayed(tree))), Log(tree), Len(Log(tree)))
<1> DEFINE b == Root(tree).boundary
           n == Len(Log(tree))
<1>1. Log(tree) \in Seq(Operation) /\ SegmentRecords(tree) \in Seq(Segment)
  BY SoundTypes
<1>2. b \in 0 .. n /\ n \in Nat
  <2>1. n \in Nat
    BY <1>1
  <2> QED BY <2>1, SoundTypes
<1>3. Covers(Latest(SegmentRecords(tree)), Log(tree), b)
  BY DEF Sound
<1>4. b \in Nat /\ n \in b .. Len(Log(tree))
  BY <1>2
<1> QED BY <1>1, <1>3, <1>4, CoversOverlay DEF Replayed

\* A collection opens there, and holds what the log records.
LEMMA SoundReopens ==
  ASSUME NEW tree, Sound(tree)
  PROVE  /\ Opens(tree)
         /\ Recovered(tree) = [points  |-> Live(LogState(Log(tree))),
                                last    |-> Len(Log(tree)),
                                schemas |-> Schemas(tree)]
<1>1. Opens(tree)
  BY HeldIsThere DEF Sound, Opens, ReadsMetadata
<1>2. Log(tree) \in Seq(Operation)
  BY SoundTypes
<1>3. Len(Log(tree)) \in Nat
  BY <1>2
<1>4. Live(Latest(Append(SegmentRecords(tree), Replayed(tree))))
        = Live(Slice(Log(tree), 0, Len(Log(tree))))
  BY <1>3, SoundCovers, CoversLive
<1> QED BY <1>1, <1>4 DEF Recovered, LogState

\* The directories that the manifest does not name are not read.
LEMMA NotNeeded ==
  ASSUME NEW tree, NEW s, s # "manifest", s \notin Named(tree)
  PROVE  SegmentPaths(s) \cap Needed(tree) = {}
<1> SUFFICES ASSUME NEW path \in SegmentPaths(s), path \in Needed(tree)
             PROVE  FALSE
  OBVIOUS
<1>1. path \notin {Metadata, Current, LogFile, Manifest(Generation(tree))}
  BY SegmentsApart
<1>2. PICK i \in DOMAIN Segments(tree) : path \in SegmentPaths(Segments(tree)[i])
  BY <1>1 DEF Needed
<1>3. s = Segments(tree)[i]
  BY <1>2, SegmentsApart
<1> QED BY <1>3 DEF Named

\* Nor are the index of a snapshot and a stray file.
LEMMA ExtrasNotNeeded ==
  ASSUME NEW tree
  PROVE  Index \notin Needed(tree) /\ Stray \notin Needed(tree)
<1>1. \A i \in DOMAIN Segments(tree) :
        /\ Index \notin SegmentPaths(Segments(tree)[i])
        /\ Stray \notin SegmentPaths(Segments(tree)[i])
  BY SegmentsApart
<1> QED BY <1>1, PathsDiffer DEF Needed

-----------------------------------------------------------------------------
(***************************************************************************)
(* What replacing one of the files does.                                   *)
(***************************************************************************)
\* The segments are those that were there, if their files and the list are.
LEMMA SegmentsAgree ==
  ASSUME NEW tree, NEW other, Sound(tree), Segments(other) = Segments(tree),
         \A i \in DOMAIN Segments(tree) : \A path \in SegmentPaths(Segments(tree)[i]) :
           path \in DOMAIN other /\ other[path] = tree[path]
  PROVE  /\ SegmentRecords(other) = SegmentRecords(tree)
         /\ \A i \in DOMAIN Segments(other) :
              /\ Readable(other, Segments(other)[i])
              /\ ReadRecords(other, Segments(other)[i]) \in Segment
<1>1. \A i \in DOMAIN Segments(tree) :
        /\ Readable(other, Segments(tree)[i])
        /\ ReadRecords(other, Segments(tree)[i]) = ReadRecords(tree, Segments(tree)[i])
  BY ReadAgrees DEF Sound
<1>2. SegmentRecords(other) = SegmentRecords(tree)
  BY <1>1 DEF SegmentRecords
<1> QED BY <1>1, <1>2 DEF Sound

\* A record is appended to the log.
LEMMA LogGrows ==
  ASSUME NEW tree, NEW op \in Operation, NEW other, Sound(tree),
         other = Put(tree, LogFile, Append(Log(tree), op))
  PROVE  /\ Sound(other)
         /\ DOMAIN other = DOMAIN tree
         /\ \A path \in DOMAIN tree : path # LogFile => other[path] = tree[path]
         /\ Log(other) = Append(Log(tree), op)
         /\ Root(other) = Root(tree) /\ Named(other) = Named(tree)
         /\ SegmentRecords(other) = SegmentRecords(tree)
         /\ Replayed(other) = ApplyRecord(Replayed(tree), op, Len(Log(tree)) + 1)
<1> DEFINE log == Log(tree)
           n == Len(log)
           b == Root(tree).boundary
<1>1. log \in Seq(Operation) /\ n \in Nat /\ b \in 0 .. n
  BY SoundTypes
<1>2. Append(log, op) \in Seq(Operation)
  BY <1>1
<1>3. /\ DOMAIN other = DOMAIN tree \cup {LogFile}
      /\ Content(other, LogFile) = Append(log, op)
      /\ Holds(other, LogFile, Seq(Operation))
      /\ \A path \in DOMAIN tree : path # LogFile => other[path] = tree[path]
  BY <1>2 DEF Put, Holds, File, Content
<1>4. LogFile \in DOMAIN tree
  BY DEF Sound, Holds
<1>5. Log(other) = Append(log, op)
  BY <1>3, HeldIsThere DEF Log
<1>6. Holds(other, Metadata, SUBSET Fields) /\ Holds(other, Current, Nat)
  BY <1>3, PathsDiffer DEF Sound, Holds, Content
<1>7. Generation(other) = Generation(tree)
  BY <1>3, PathsDiffer DEF Sound, Holds, Content, Generation
<1>8. /\ Holds(other, Manifest(Generation(other)), Roots)
      /\ Root(other) = Root(tree)
  <2>1. Manifest(Generation(tree)) # LogFile
    BY PathsDiffer
  <2> QED BY <1>3, <1>7, <2>1 DEF Sound, Holds, Content, Root
<1>9. Segments(other) = Segments(tree) /\ Named(other) = Named(tree)
  BY <1>8 DEF Segments, Named
<1>10. \A i \in DOMAIN Segments(tree) : \A path \in SegmentPaths(Segments(tree)[i]) :
         path \in DOMAIN other /\ other[path] = tree[path]
  <2> TAKE i \in DOMAIN Segments(tree)
  <2> TAKE path \in SegmentPaths(Segments(tree)[i])
  <2>1. path \in DOMAIN tree
    BY NeededOfSegment, NeededIsThere DEF HasFile
  <2>2. path # LogFile
    BY SegmentsApart
  <2> QED BY <1>3, <2>1, <2>2
<1>11. /\ SegmentRecords(other) = SegmentRecords(tree)
       /\ \A i \in DOMAIN Segments(other) :
            /\ Readable(other, Segments(other)[i])
            /\ ReadRecords(other, Segments(other)[i]) \in Segment
  BY <1>9, <1>10, SegmentsAgree
<1>12. Covers(Latest(SegmentRecords(other)), Log(other), b)
  <2>1. \A k \in 1 .. b : Append(log, op)[k] = log[k]
    BY <1>1
  <2>2. Covers(Latest(SegmentRecords(tree)), log, b) /\ b \in Nat
    BY <1>1 DEF Sound
  <2>3. Covers(Latest(SegmentRecords(tree)), Append(log, op), b)
    BY <2>1, <2>2, CoversOfPrefix
  <2> QED BY <1>5, <1>11, <2>3
<1>13. Len(Append(log, op)) = n + 1
  BY <1>1
<1>14. Sound(other)
  <2>1. Root(other).boundary <= Len(Log(other))
    BY <1>1, <1>5, <1>8, <1>13
  <2> QED BY <1>3, <1>6, <1>8, <1>11, <1>12, <2>1 DEF Sound
<1>15. Replayed(other) = ApplyRecord(Replayed(tree), op, n + 1)
  <2> DEFINE more == Append(log, op)
  <2>1. Slice(more, b, n + 1) = ApplyRecord(Slice(more, b, n), more[n + 1], n + 1)
    <3>1. b \in Nat /\ n \in b .. Len(more) /\ n < Len(more)
      BY <1>1, <1>13
    <3> HIDE DEF more, n, b
    <3> QED BY <1>2, <3>1, SliceStep DEF more
  <2>2. more[n + 1] = op /\ \A k \in (b + 1) .. n : more[k] = log[k]
    BY <1>1
  <2>3. Slice(more, b, n) = Slice(log, b, n)
    <3>1. b \in Nat
      BY <1>1
    <3> HIDE DEF more, n, b, log
    <3> QED BY <1>1, <2>2, <3>1, SliceOfPrefix
  <2> HIDE DEF more
  <2>4. Replayed(other) = Slice(more, b, n + 1)
    BY <1>5, <1>8, <1>13 DEF Replayed, more
  <2>5. Replayed(tree) = Slice(log, b, n)
    BY DEF Replayed
  <2> QED BY <2>1, <2>2, <2>3, <2>4, <2>5
<1> QED BY <1>3, <1>4, <1>5, <1>8, <1>9, <1>11, <1>14, <1>15

\* A schema is added to the metadata.
LEMMA SchemaAdded ==
  ASSUME NEW tree, NEW field \in Fields, NEW other, Sound(tree),
         other = Put(tree, Metadata, Schemas(tree) \cup {field})
  PROVE  /\ Sound(other)
         /\ DOMAIN other = DOMAIN tree
         /\ \A path \in DOMAIN tree : path # Metadata => other[path] = tree[path]
         /\ Log(other) = Log(tree) /\ Root(other) = Root(tree) /\ Named(other) = Named(tree)
         /\ SegmentRecords(other) = SegmentRecords(tree)
         /\ Replayed(other) = Replayed(tree)
<1>1. Schemas(tree) \cup {field} \in SUBSET Fields
  BY SoundTypes
<1>2. /\ DOMAIN other = DOMAIN tree \cup {Metadata}
      /\ Holds(other, Metadata, SUBSET Fields)
      /\ \A path \in DOMAIN tree : path # Metadata => other[path] = tree[path]
  BY <1>1 DEF Put, Holds, File, Content
<1>3. Metadata \in DOMAIN tree
  BY DEF Sound, Holds
<1>4. /\ Holds(other, LogFile, Seq(Operation)) /\ Holds(other, Current, Nat)
      /\ Content(other, LogFile) = Content(tree, LogFile)
      /\ Generation(other) = Generation(tree)
  BY <1>2, PathsDiffer DEF Sound, Holds, Content, Generation
<1>5. Log(other) = Log(tree)
  BY <1>4, HeldIsThere DEF Log, Sound
<1>6. /\ Holds(other, Manifest(Generation(other)), Roots)
      /\ Root(other) = Root(tree)
  <2>1. Manifest(Generation(tree)) # Metadata
    BY PathsDiffer
  <2> QED BY <1>2, <1>4, <2>1 DEF Sound, Holds, Content, Root
<1>7. Segments(other) = Segments(tree) /\ Named(other) = Named(tree)
  BY <1>6 DEF Segments, Named
<1>8. \A i \in DOMAIN Segments(tree) : \A path \in SegmentPaths(Segments(tree)[i]) :
        path \in DOMAIN other /\ other[path] = tree[path]
  <2> TAKE i \in DOMAIN Segments(tree)
  <2> TAKE path \in SegmentPaths(Segments(tree)[i])
  <2>1. path \in DOMAIN tree
    BY NeededOfSegment, NeededIsThere DEF HasFile
  <2>2. path # Metadata
    BY SegmentsApart
  <2> QED BY <1>2, <2>1, <2>2
<1>9. /\ SegmentRecords(other) = SegmentRecords(tree)
      /\ \A i \in DOMAIN Segments(other) :
           /\ Readable(other, Segments(other)[i])
           /\ ReadRecords(other, Segments(other)[i]) \in Segment
  BY <1>7, <1>8, SegmentsAgree
<1>10. Sound(other)
  BY <1>2, <1>4, <1>5, <1>6, <1>9 DEF Sound
<1>11. Replayed(other) = Replayed(tree)
  BY <1>5, <1>6 DEF Replayed
<1> QED BY <1>2, <1>3, <1>5, <1>6, <1>7, <1>9, <1>10, <1>11

\* A manifest is published.
LEMMA RootReplaced ==
  ASSUME NEW tree, NEW segs \in Seq(SegIds), NEW b \in Nat, NEW other, Sound(tree),
         b <= Len(Log(tree)),
         \A i \in DOMAIN segs : /\ segs[i] # "manifest"
                                /\ Readable(tree, segs[i])
                                /\ ReadRecords(tree, segs[i]) \in Segment,
         Covers(Latest([i \in DOMAIN segs |-> ReadRecords(tree, segs[i])]), Log(tree), b),
         other = Put(Put(tree, Manifest(Generation(tree) + 1),
                         [segments |-> segs, boundary |-> b]),
                     Current, Generation(tree) + 1)
  PROVE  /\ Sound(other)
         /\ DOMAIN tree \subseteq DOMAIN other
         /\ Log(other) = Log(tree)
         /\ Root(other) = [segments |-> segs, boundary |-> b]
<1> DEFINE next == Generation(tree) + 1
           root == [segments |-> segs, boundary |-> b]
           middle == Put(tree, Manifest(next), root)
<1>1. next \in Nat /\ root \in Roots
  BY SoundTypes DEF Roots
<1>2. /\ DOMAIN middle = DOMAIN tree \cup {Manifest(next)}
      /\ Content(middle, Manifest(next)) = root
      /\ Holds(middle, Manifest(next), Roots)
      /\ \A path \in DOMAIN tree : path # Manifest(next) => middle[path] = tree[path]
  <2> HIDE DEF next, root
  <2>1. middle = Put(tree, Manifest(next), root)
    OBVIOUS
  <2> HIDE DEF middle
  <2> QED BY <1>1, <2>1 DEF Put, Holds, File, Content
<1>3. /\ DOMAIN other = DOMAIN middle \cup {Current}
      /\ Content(other, Current) = next
      /\ Holds(other, Current, Nat)
      /\ \A path \in DOMAIN middle : path # Current => other[path] = middle[path]
  <2> HIDE DEF next, root, middle
  <2>1. other = Put(middle, Current, next)
    BY DEF next, root, middle
  <2>2. DOMAIN other = DOMAIN middle \cup {Current}
    BY <2>1 DEF Put
  <2>3. other[Current] = File(next)
    BY <2>1 DEF Put
  <2>4. \A path \in DOMAIN middle : path # Current => other[path] = middle[path]
    BY <2>1 DEF Put
  <2>5. Content(other, Current) = next
    BY <2>3 DEF File, Content
  <2> QED BY <1>1, <2>2, <2>3, <2>4, <2>5 DEF Holds
<1> HIDE DEF next, root, middle
<1>4. \A path \in DOMAIN tree :
        path \notin {Current, Manifest(next)} =>
          path \in DOMAIN other /\ other[path] = tree[path]
  BY <1>2, <1>3
<1>5. Generation(other) = next
  BY <1>3 DEF Generation
<1>6. Manifest(next) \notin {Metadata, Current, LogFile}
  BY PathsDiffer
<1>7. Holds(other, Manifest(next), Roots) /\ Root(other) = root
  BY <1>2, <1>3, <1>5, <1>6 DEF Holds, Content, Root
<1>8. /\ Holds(other, Metadata, SUBSET Fields) /\ Holds(other, LogFile, Seq(Operation))
      /\ Content(other, LogFile) = Content(tree, LogFile)
  BY <1>4, <1>6, PathsDiffer DEF Sound, Holds, Content
<1>9. Log(other) = Log(tree)
  BY <1>8, HeldIsThere DEF Log, Sound
<1>10. Segments(other) = segs /\ Root(other).boundary = b
  BY <1>7 DEF Segments, root
<1>11. \A i \in DOMAIN segs :
         /\ Readable(other, segs[i])
         /\ ReadRecords(other, segs[i]) = ReadRecords(tree, segs[i])
  <2> TAKE i \in DOMAIN segs
  <2>1. ASSUME NEW path \in SegmentPaths(segs[i])
        PROVE  path \in DOMAIN other /\ other[path] = tree[path]
    <3>1. path \in DOMAIN tree
      <4>1. Readable(tree, segs[i])
        OBVIOUS
      <4> QED BY <2>1, <4>1, ReadableIsThere DEF HasFile
    <3>2. path \notin {Current, Manifest(next)}
      BY <2>1, SegmentsApart
    <3> QED BY <1>4, <3>1, <3>2
  <2> QED BY <2>1, ReadAgrees
<1>12. SegmentRecords(other) = [i \in DOMAIN segs |-> ReadRecords(tree, segs[i])]
  BY <1>10, <1>11 DEF SegmentRecords
<1>13. Sound(other)
  BY <1>3, <1>5, <1>7, <1>8, <1>9, <1>10, <1>11, <1>12 DEF Sound
<1>14. Root(other) = [segments |-> segs, boundary |-> b]
  BY <1>7 DEF root
<1>15. DOMAIN tree \subseteq DOMAIN other
  BY <1>2, <1>3
<1> QED BY <1>9, <1>13, <1>14, <1>15

-----------------------------------------------------------------------------
(***************************************************************************)
(* The parts that a step leaves alone.                                     *)
(***************************************************************************)
LEMMA NobodyWorks ==
  ASSUME task' = Idle, temp' = Nothing
  PROVE  TaskType' /\ Built' /\ Filled'
BY DEF TaskType, Built, Filled, Building, Idle

LEMMA FilesStay ==
  ASSUME Served, Apart, UNCHANGED <<files, mutable, retired, unsynced>>
  PROVE  Served' /\ Apart'
BY DEF Served, Apart

LEMMA ShelfStays ==
  ASSUME Shelved, UNCHANGED shelf,
         task'.step \in {"copy", "sync", "replace", "confirm"} => Unclaimed(task'.dest),
         task'.step = "confirm" =>
           task'.dest \in damaged \/ Intact(snaps[task'.dest], taken[task'.dest])
  PROVE  Shelved'
<1>1. snaps' = snaps /\ unsynced' = unsynced /\ loose' = loose /\ returned' = returned
      /\ damaged' = damaged /\ taken' = taken
  BY DEF shelf
<1>2. \A d : Unclaimed(d)' <=> Unclaimed(d)
  BY <1>1 DEF Unclaimed
<1> QED BY <1>1, <1>2 DEF Shelved, Shelves, Unclaimed

\* Nobody is copying unless the snapshot has both locks.
LEMMA WhoHolds ==
  ASSUME TaskType
  PROVE  /\ task.step \in {"idle", "build", "write", "publish"} \/ Snapping
         /\ Snapping => task \in Snappers /\ task.op = "snapshot"
         /\ Building => task \in Builders
         /\ task.op = "optimize" => Building
         /\ ~ UpdateLocked => (Building => task.op = "optimize") /\ ~ Snapping
<1>1. CASE task = Idle
  BY <1>1 DEF Snapping, Building, Idle
<1>2. CASE task \in Builders
  <2>1. /\ task.op \in {"flush", "optimize", "snapshot"}
        /\ task.step \in {"build", "write", "publish"}
    BY <1>2 DEF Builders
  <2> QED BY <1>2, <2>1 DEF Snapping, Building, UpdateLocked
<1>3. CASE task \in Snappers
  <2>1. /\ task.op = "snapshot"
        /\ task.step \in {"check", "copy", "sync", "replace", "confirm"}
    BY <1>3 DEF Snappers
  <2> QED BY <1>3, <2>1 DEF Snapping, Building, UpdateLocked
<1> QED BY <1>1, <1>2, <1>3 DEF TaskType

\* A segment is written at a name that nothing has.
LEMMA FreshIsNew ==
  ASSUME Sound(files), Apart, NEW s \in Fresh
  PROVE  /\ s \in SegIds /\ s # "manifest" /\ s \notin Named(files) \cup retired
         /\ \A path \in DOMAIN files : path[1] # s
<1>1. s \in SegIds /\ \A path \in DOMAIN files : path[1] # s
  BY DEF Fresh
<1>2. s # "manifest"
  <2>1. Manifest(Generation(files)) \in DOMAIN files
    BY DEF Sound, Holds
  <2>2. Manifest(Generation(files))[1] = "manifest"
    BY DEF Manifest
  <2> QED BY <1>1, <2>1, <2>2
<1>3. <<s, "meta">> \notin DOMAIN files
  BY <1>1
<1>4. s \notin retired
  BY <1>3 DEF Apart
<1>5. s \notin Named(files)
  BY <1>3 DEF Sound, Named, Readable, HasFile
<1> QED BY <1>1, <1>2, <1>4, <1>5

-----------------------------------------------------------------------------
(***************************************************************************)
(* The initial state.                                                      *)
(***************************************************************************)
LEMMA InitHolds == Init => IInv
<1> SUFFICES ASSUME Init PROVE IInv
  OBVIOUS
<1> DEFINE root == [segments |-> <<>>, boundary |-> 0]
           one == Put(Nothing, Metadata, {})
           two == Put(one, LogFile, <<>>)
           three == Put(two, Manifest(1), root)
<1>1. files = Put(three, Current, 1)
  BY DEF Init
<1>2. /\ Metadata \in DOMAIN one /\ one[Metadata] = File({})
      /\ DOMAIN one = {Metadata}
  BY DEF Put, Nothing
<1> HIDE DEF one
<1>3. /\ LogFile \in DOMAIN two /\ two[LogFile] = File(<<>>)
      /\ Metadata \in DOMAIN two /\ two[Metadata] = File({})
  BY <1>2, PathsDiffer DEF Put
<1> HIDE DEF two
<1>4. /\ Manifest(1) \in DOMAIN three /\ three[Manifest(1)] = File(root)
      /\ LogFile \in DOMAIN three /\ three[LogFile] = File(<<>>)
      /\ Metadata \in DOMAIN three /\ three[Metadata] = File({})
  BY <1>3, PathsDiffer DEF Put
<1> HIDE DEF three
<1>5. /\ Current \in DOMAIN files /\ files[Current] = File(1)
      /\ Manifest(1) \in DOMAIN files /\ files[Manifest(1)] = File(root)
      /\ LogFile \in DOMAIN files /\ files[LogFile] = File(<<>>)
      /\ Metadata \in DOMAIN files /\ files[Metadata] = File({})
  BY <1>1, <1>4, PathsDiffer DEF Put
<1> HIDE DEF root
<1>6. /\ Generation(files) = 1 /\ Root(files) = root /\ Content(files, LogFile) = <<>>
      /\ Content(files, Metadata) = {} /\ Content(files, Manifest(1)) = root
      /\ Content(files, Current) = 1
  BY <1>5 DEF Generation, Root, Content, File
<1>7. Segments(files) = <<>> /\ Root(files).boundary = 0 /\ root \in Roots
  BY <1>6 DEF Segments, root, Roots
<1>8. /\ Holds(files, Metadata, SUBSET Fields) /\ Holds(files, Current, Nat)
      /\ Holds(files, LogFile, Seq(Operation)) /\ Holds(files, Manifest(1), Roots)
  BY <1>5, <1>6, <1>7 DEF Holds
<1>9. Log(files) = <<>>
  BY <1>6, <1>8, HeldIsThere DEF Log
<1>10. SegmentRecords(files) = <<>> /\ Named(files) = {}
  BY <1>7 DEF SegmentRecords, Named
<1>11. Sound(files)
  <2>1. Covers(Latest(SegmentRecords(files)), Log(files), Root(files).boundary)
    BY <1>7, <1>10, CoversNothing
  <2>2. Root(files).boundary <= Len(Log(files))
    BY <1>7, <1>9
  <2> QED BY <1>6, <1>7, <1>8, <2>1, <2>2 DEF Sound
<1>12. Replayed(files) = EmptySegment
  BY <1>7, <1>9, SliceEmpty DEF Replayed
<1>13. Served /\ Apart
  BY <1>10, <1>11, <1>12 DEF Init, Served, Apart
<1>14. TaskType /\ Built /\ Filled
  BY DEF Init, TaskType, Built, Filled, Building, Idle
<1>15. Shelved
  BY DEF Init, Shelved, Shelves, Unclaimed, Idle
<1> QED BY <1>13, <1>14, <1>15 DEF IInv

-----------------------------------------------------------------------------
(***************************************************************************)
(* Writes.                                                                 *)
(***************************************************************************)
\* An optimize that is under way is not disturbed by a write or a new schema.
LEMMA BuiltStays ==
  ASSUME IInv, ~ UpdateLocked, UNCHANGED <<retired, task, temp, shelf>>,
         NEW changed \in {Metadata, LogFile},
         DOMAIN files' = DOMAIN files,
         \A path \in DOMAIN files : path # changed => files'[path] = files[path],
         Root(files') = Root(files), Named(files') = Named(files),
         Len(Log(files')) \in Nat, Len(Log(files)) <= Len(Log(files')),
         \A k \in 1 .. Len(Log(files)) : Log(files')[k] = Log(files)[k]
  PROVE  TaskType' /\ Apart' /\ Built' /\ Filled' /\ Shelved'
<1>1. TaskType'
  BY DEF IInv, TaskType
<1>2. Apart'
  BY DEF IInv, Apart, shelf
<1>3. Shelved'
  BY ShelfStays DEF IInv, Shelved
<1>4. (Building => task.op = "optimize") /\ ~ Snapping
  BY WhoHolds DEF IInv
<1>5. Filled'
  BY <1>4 DEF IInv, Filled, Snapping
<1>6. Built'
  <2> SUFFICES ASSUME Building PROVE Built'
    BY DEF Built, Building
  <2>1. task.op = "optimize" /\ task \in Builders
    BY <1>4, WhoHolds DEF IInv
  <2>2. /\ Root(files).boundary <= task.boundary /\ task.boundary <= Len(Log(files))
        /\ Covers(task.image.records, Log(files), task.boundary)
        /\ task.new # "manifest"
    BY <2>1 DEF IInv, Built
  <2>3. Len(Log(files)) \in Nat /\ task.boundary \in Nat /\ Root(files).boundary \in Nat
    <3>1. Log(files) \in Seq(Operation) /\ Root(files).boundary \in 0 .. Len(Log(files))
      BY SoundTypes DEF IInv, Served
    <3> QED BY <2>1, <3>1 DEF Builders
  <2>4. Covers(task.image.records, Log(files'), task.boundary)
    <3>1. \A k \in 1 .. task.boundary : Log(files')[k] = Log(files)[k]
      BY <2>2, <2>3
    <3> QED BY <2>2, <2>3, <3>1, CoversOfPrefix
  <2>5. task.boundary <= Len(Log(files'))
    BY <2>2, <2>3
  <2>6. ASSUME task.step = "publish"
        PROVE  /\ Readable(files', task.new)
               /\ ReadRecords(files', task.new) = task.image.records
    <3>1. Readable(files, task.new) /\ ReadRecords(files, task.new) = task.image.records
      BY <2>6 DEF IInv, Built
    <3>2. ASSUME NEW path \in SegmentPaths(task.new)
          PROVE  path \in DOMAIN files' /\ files'[path] = files[path]
      <4>1. path \in DOMAIN files
        BY <3>1, <3>2, ReadableIsThere DEF HasFile
      <4>2. path # changed
        BY <3>2, SegmentsApart
      <4> QED BY <4>1, <4>2
    <3> QED BY <3>1, <3>2, ReadAgrees
  <2>7. task.step = "publish" => task.new \notin Named(files') \cup retired'
    BY DEF IInv, Built
  <2>8. task.step # "publish" => \A path \in DOMAIN files' : path[1] # task.new
    BY DEF IInv, Built
  <2> QED BY <2>1, <2>2, <2>4, <2>5, <2>6, <2>7, <2>8 DEF Built
<1> QED BY <1>1, <1>2, <1>3, <1>5, <1>6

LEMMA WriteKeeps ==
  ASSUME IInv, Write
  PROVE  IInv'
<1>1. PICK op \in Batches :
        /\ files' = Put(files, LogFile, Append(Log(files), op))
        /\ mutable' = ApplyRecord(mutable, op, Len(Log(files)) + 1)
  BY DEF Write
<1>2. op \in Operation
  BY SnapshotsAssumption
<1>3. Sound(files) /\ mutable = Replayed(files)
  BY DEF IInv, Served
<1>4. /\ Sound(files')
      /\ DOMAIN files' = DOMAIN files
      /\ \A path \in DOMAIN files : path # LogFile => files'[path] = files[path]
      /\ Log(files') = Append(Log(files), op)
      /\ Root(files') = Root(files) /\ Named(files') = Named(files)
      /\ Replayed(files') = ApplyRecord(Replayed(files), op, Len(Log(files)) + 1)
  BY <1>1, <1>2, <1>3, LogGrows
<1>5. Served'
  BY <1>1, <1>3, <1>4 DEF Served
<1>6. /\ Len(Log(files')) \in Nat /\ Len(Log(files)) <= Len(Log(files'))
      /\ \A k \in 1 .. Len(Log(files)) : Log(files')[k] = Log(files)[k]
  <2>1. Log(files) \in Seq(Operation)
    BY <1>3, SoundTypes
  <2> QED BY <1>2, <1>4, <2>1
<1>7. ~ UpdateLocked /\ UNCHANGED <<retired, task, temp, shelf>>
  BY DEF Write
<1>8. TaskType' /\ Apart' /\ Built' /\ Filled' /\ Shelved'
  BY <1>4, <1>6, <1>7, BuiltStays
<1> QED BY <1>5, <1>8 DEF IInv

LEMMA CreatePayloadIndexKeeps ==
  ASSUME IInv, CreatePayloadIndex
  PROVE  IInv'
<1>1. PICK field \in Fields : files' = Put(files, Metadata, Schemas(files) \cup {field})
  BY DEF CreatePayloadIndex
<1>2. Sound(files) /\ mutable = Replayed(files)
  BY DEF IInv, Served
<1>3. /\ Sound(files')
      /\ DOMAIN files' = DOMAIN files
      /\ \A path \in DOMAIN files : path # Metadata => files'[path] = files[path]
      /\ Log(files') = Log(files)
      /\ Root(files') = Root(files) /\ Named(files') = Named(files)
      /\ Replayed(files') = Replayed(files)
  BY <1>1, <1>2, SchemaAdded
<1>4. ~ UpdateLocked /\ UNCHANGED <<mutable, retired, task, temp, shelf>>
  BY DEF CreatePayloadIndex
<1>5. Served'
  BY <1>2, <1>3, <1>4 DEF Served
<1>6. /\ Len(Log(files')) \in Nat /\ Len(Log(files)) <= Len(Log(files'))
      /\ \A k \in 1 .. Len(Log(files)) : Log(files')[k] = Log(files)[k]
  <2>1. Log(files) \in Seq(Operation)
    BY <1>2, SoundTypes
  <2> QED BY <1>3, <2>1
<1>7. TaskType' /\ Apart' /\ Built' /\ Filled' /\ Shelved'
  BY <1>3, <1>4, <1>6, BuiltStays
<1> QED BY <1>5, <1>7 DEF IInv

-----------------------------------------------------------------------------
(***************************************************************************)
(* A segment is built and takes its place.                                 *)
(***************************************************************************)
LEMMA ImageType ==
  ASSUME NEW seg \in Segment, NEW schemas \in SUBSET Fields, NEW indexed \in BOOLEAN
  PROVE  Image(seg, schemas, indexed) \in Images /\ Image(seg, schemas, indexed).records = seg
<1>1. LivePoints(seg) \in SUBSET Ids
  BY DEF LivePoints, Held
<1> QED BY <1>1 DEF Image, Images

LEMMA DroppedType ==
  ASSUME NEW seg \in Segment
  PROVE  DropTombstones(seg) \in Segment
BY DEF DropTombstones, Segment, Record

\* flush_mutable, for a flush or a snapshot.
LEMMA FlushBuilds ==
  ASSUME IInv, task = Idle, NEW op \in {"flush", "snapshot"}, NEW dest \in Dests \cup {Nothing},
         op = "snapshot" => dest \in Dests, FlushMutable(op, dest),
         UNCHANGED <<store, temp, shelf>>
  PROVE  IInv'
<1>1. PICK s \in Fresh : Build(op, "write", dest, s, Image(mutable, Schemas(files), FALSE))
  BY DEF FlushMutable
<1> DEFINE image == Image(mutable, Schemas(files), FALSE)
<1>2. Sound(files) /\ mutable = Replayed(files)
  BY DEF IInv, Served
<1>3. /\ Log(files) \in Seq(Operation) /\ Root(files).boundary \in 0 .. Len(Log(files))
      /\ mutable \in Segment /\ Schemas(files) \in SUBSET Fields
  BY <1>2, SoundTypes
<1>4. image \in Images /\ image.records = mutable
  BY <1>3, ImageType
<1> HIDE DEF image
<1>5. task' = [op |-> op, step |-> "write", dest |-> dest, synced |-> FALSE,
               new |-> s, image |-> image, boundary |-> Len(Log(files))]
  BY <1>1 DEF Build, image
<1>6. /\ s \in SegIds /\ s # "manifest" /\ s \notin Named(files) \cup retired
      /\ \A path \in DOMAIN files : path[1] # s
  BY <1>2, FreshIsNew DEF IInv
<1>7. Len(Log(files)) \in Nat
  BY <1>3
<1>8. /\ task' \in Builders /\ task'.op = op /\ task'.step = "write" /\ task'.new = s
      /\ task'.image = image /\ task'.boundary = Len(Log(files)) /\ task'.dest = dest
  BY <1>4, <1>5, <1>6, <1>7 DEF Builders
<1>9. /\ files' = files /\ mutable' = mutable /\ retired' = retired /\ temp' = temp
      /\ unsynced' = unsynced
  BY DEF store, shelf
<1>10. TaskType'
  BY <1>8 DEF TaskType
<1>11. Served' /\ Apart'
  BY <1>9, FilesStay DEF IInv
<1>12. Built'
  <2>1. Covers(Latest(Append(SegmentRecords(files), image.records)), Log(files), Len(Log(files)))
    BY <1>2, <1>4, SoundCovers
  <2>2. Root(files).boundary <= Len(Log(files))
    BY <1>3
  <2> QED BY <1>6, <1>7, <1>8, <1>9, <2>1, <2>2 DEF Built
<1>13. Filled'
  <2>1. temp = Nothing
    BY DEF IInv, Filled, Idle
  <2> QED BY <1>8, <1>9, <2>1 DEF Filled, Nothing
<1>14. Shelved'
  BY <1>8, ShelfStays DEF IInv
<1> QED BY <1>10, <1>11, <1>12, <1>13, <1>14 DEF IInv

LEMMA FlushKeeps ==
  ASSUME IInv, Flush
  PROVE  IInv'
BY FlushBuilds DEF Flush

LEMMA CreateSnapshotKeeps ==
  ASSUME IInv, NEW d \in Dests, CreateSnapshot(d)
  PROVE  IInv'
<1>1. CASE Held(mutable) = {}
  <2>1. task' = [op |-> "snapshot", step |-> "check", dest |-> d, synced |-> FALSE]
    BY <1>1 DEF CreateSnapshot, Task
  <2>2. UNCHANGED <<store, temp, shelf>> /\ task = Idle
    BY DEF CreateSnapshot
  <2>3. Served' /\ Apart'
    BY <2>2, FilesStay DEF IInv, store, shelf
  <2>4. TaskType'
    BY <2>1 DEF TaskType, Snappers
  <2>5. Built'
    BY <2>1 DEF Built, Building
  <2>6. Filled'
    <3>1. temp' = Nothing
      BY <2>2 DEF IInv, Filled, Idle
    <3> QED BY <2>1, <3>1 DEF Filled
  <2>7. Shelved'
    BY <2>1, <2>2, ShelfStays DEF IInv
  <2> QED BY <2>3, <2>4, <2>5, <2>6, <2>7 DEF IInv
<1>2. CASE Held(mutable) # {}
  BY <1>2, FlushBuilds DEF CreateSnapshot
<1> QED BY <1>1, <1>2

LEMMA OptimizeKeeps ==
  ASSUME IInv, Optimize
  PROVE  IInv'
<1> DEFINE captured == Latest(Append(SegmentRecords(files), mutable))
           image == Image(DropTombstones(captured), {}, TRUE)
<1>1. PICK s \in Fresh : Build("optimize", "build", Nothing, s, image)
  BY DEF Optimize
<1>2. Sound(files) /\ mutable = Replayed(files)
  BY DEF IInv, Served
<1>3. /\ Log(files) \in Seq(Operation) /\ Root(files).boundary \in 0 .. Len(Log(files))
      /\ mutable \in Segment /\ SegmentRecords(files) \in Seq(Segment)
  BY <1>2, SoundTypes
<1>4. captured \in Segment
  <2>1. Append(SegmentRecords(files), mutable) \in Seq(Segment)
    BY <1>3
  <2> QED BY <2>1, LatestType
<1>5. image \in Images /\ image.records = DropTombstones(captured)
  <2> HIDE DEF captured
  <2> QED BY <1>4, DroppedType, ImageType
<1>6. Len(Log(files)) \in Nat
  BY <1>3
<1>7. Covers(DropTombstones(captured), Log(files), Len(Log(files)))
  <2>1. Covers(captured, Log(files), Len(Log(files)))
    BY <1>2, SoundCovers
  <2> HIDE DEF captured
  <2> QED BY <1>4, <1>6, <2>1, CoversDropTombstones
<1> HIDE DEF image
<1>8. task' = [op |-> "optimize", step |-> "build", dest |-> Nothing, synced |-> FALSE,
               new |-> s, image |-> image, boundary |-> Len(Log(files))]
  BY <1>1 DEF Build
<1>9. /\ s \in SegIds /\ s # "manifest" /\ s \notin Named(files) \cup retired
      /\ \A path \in DOMAIN files : path[1] # s
  BY <1>2, FreshIsNew DEF IInv
<1>10. /\ task' \in Builders /\ task'.op = "optimize" /\ task'.step = "build" /\ task'.new = s
       /\ task'.image = image /\ task'.boundary = Len(Log(files))
  BY <1>5, <1>6, <1>8, <1>9 DEF Builders
<1>11. /\ files' = files /\ mutable' = mutable /\ retired' = retired /\ temp' = temp
       /\ unsynced' = unsynced /\ UNCHANGED shelf /\ task = Idle
  BY DEF Optimize, store, shelf
<1>12. TaskType'
  BY <1>10 DEF TaskType
<1>13. Served' /\ Apart'
  BY <1>11, FilesStay DEF IInv
<1>14. Built'
  <2>1. Root(files).boundary <= Len(Log(files))
    BY <1>3
  <2> QED BY <1>5, <1>6, <1>7, <1>9, <1>10, <1>11, <2>1 DEF Built
<1>15. Filled'
  <2>1. temp = Nothing
    BY <1>11 DEF IInv, Filled, Idle
  <2> QED BY <1>10, <1>11, <2>1 DEF Filled
<1>16. Shelved'
  BY <1>10, <1>11, ShelfStays DEF IInv
<1> QED BY <1>12, <1>13, <1>14, <1>15, <1>16 DEF IInv

LEMMA BuildReplacementKeeps ==
  ASSUME IInv, BuildReplacement
  PROVE  IInv'
<1>1. /\ task.step = "build" /\ UNCHANGED <<store, temp, shelf>>
      /\ task' = [task EXCEPT !.step = "write", !.image.schemas = Schemas(files)]
  BY DEF BuildReplacement
<1>2. task \in Builders /\ task.op = "optimize"
  BY <1>1, WhoHolds DEF IInv, Building, TaskType
<1>3. Schemas(files) \in SUBSET Fields
  BY SoundTypes DEF IInv, Served
<1>4. [task.image EXCEPT !.schemas = Schemas(files)] \in Images
  BY <1>2, <1>3 DEF Builders, Images
<1>5. /\ task' \in Builders /\ task'.op = "optimize" /\ task'.step = "write"
      /\ task'.new = task.new /\ task'.boundary = task.boundary
      /\ task'.image.records = task.image.records
  BY <1>1, <1>2, <1>4 DEF Builders, Images
<1>6. /\ files' = files /\ mutable' = mutable /\ retired' = retired /\ temp' = temp
      /\ unsynced' = unsynced /\ UNCHANGED shelf
  BY <1>1 DEF store, shelf
<1>7. TaskType'
  BY <1>5 DEF TaskType
<1>8. Served' /\ Apart'
  BY <1>6, FilesStay DEF IInv
<1>9. Built'
  <2>1. Building
    BY <1>1 DEF Building
  <2> QED BY <1>1, <1>2, <1>5, <1>6, <2>1 DEF IInv, Built
<1>10. Filled'
  <2>1. temp = Nothing
    BY <1>1 DEF IInv, Filled
  <2> QED BY <1>5, <1>6, <2>1 DEF Filled, Nothing
<1>11. Shelved'
  BY <1>5, <1>6, ShelfStays DEF IInv
<1> QED BY <1>7, <1>8, <1>9, <1>10, <1>11 DEF IInv

LEMMA WriteFileKeeps ==
  ASSUME IInv, WriteFile
  PROVE  IInv'
<1>1. /\ task.step = "write" /\ UNCHANGED <<store, task, shelf>> /\ Unwritten # {}
  BY DEF WriteFile
<1> DEFINE first == CHOOSE i \in Unwritten : \A j \in Unwritten : i <= j
<1>2. Unwritten \in SUBSET Nat /\ Unwritten \subseteq DOMAIN Written
  BY DEF Unwritten, Written
<1>3. first \in DOMAIN Written
  <2>1. \E i \in Unwritten : \A j \in Unwritten : i <= j
    BY <1>1, <1>2, LeastNat
  <2>2. first \in Unwritten
    BY <2>1
  <2> QED BY <1>2, <2>2
<1>4. PICK name \in FileNames \cup {"meta"} : name = Written[first]
  <2> HIDE DEF first
  <2> QED BY <1>3 DEF Written, FileNames
<1>5. temp' = Put(temp, <<task.new, name>>, FileContent(task.image, name))
  BY <1>4 DEF WriteFile
<1>6. /\ files' = files /\ mutable' = mutable /\ retired' = retired
      /\ unsynced' = unsynced /\ UNCHANGED shelf /\ task' = task
  BY <1>1 DEF store, shelf
<1>7. Served' /\ Apart'
  BY <1>6, FilesStay DEF IInv
<1>8. TaskType' /\ Built'
  BY <1>6 DEF IInv, TaskType, Built, Building
<1>9. Shelved'
  BY <1>1, <1>6, ShelfStays DEF IInv
<1>10. Filled'
  <2>1. /\ DOMAIN temp \subseteq SegmentPaths(task.new)
        /\ \A other \in FileNames \cup {"meta"} :
             <<task.new, other>> \in DOMAIN temp =>
               temp[<<task.new, other>>] = File(FileContent(task.image, other))
    BY <1>1 DEF IInv, Filled
  <2>2. DOMAIN temp' = DOMAIN temp \cup {<<task.new, name>>}
    BY <1>5 DEF Put
  <2>3. DOMAIN temp' \subseteq SegmentPaths(task.new)
    BY <2>1, <2>2, PathsOfSegment
  <2>4. ASSUME NEW other \in FileNames \cup {"meta"}, <<task.new, other>> \in DOMAIN temp'
        PROVE  temp'[<<task.new, other>>] = File(FileContent(task.image, other))
    <3>1. CASE other = name
      BY <1>5, <3>1 DEF Put
    <3>2. CASE other # name
      <4>1. <<task.new, other>> # <<task.new, name>>
        BY <3>2
      <4>2. <<task.new, other>> \in DOMAIN temp
        BY <2>2, <2>4, <4>1
      <4>3. temp'[<<task.new, other>>] = temp[<<task.new, other>>]
        BY <1>5, <2>4, <4>1 DEF Put
      <4> QED BY <2>1, <4>2, <4>3
    <3> QED BY <3>1, <3>2
  <2> QED BY <1>1, <1>6, <2>3, <2>4 DEF Filled
<1> QED BY <1>7, <1>8, <1>9, <1>10 DEF IInv

\* Nobody reads a segment that is being built, and nobody has replaced it.
LEMMA NewIsApart ==
  ASSUME IInv, Building
  PROVE  task.new # "manifest" /\ task.new \notin Named(files) \cup retired
<1>1. CASE task.step = "publish"
  BY <1>1 DEF IInv, Built
<1>2. CASE task.step # "publish"
  <2>1. <<task.new, "meta">> \notin DOMAIN files
    BY <1>2 DEF IInv, Built
  <2>2. task.new \notin retired
    BY <2>1 DEF IInv, Apart
  <2>3. task.new \notin Named(files)
    BY <2>1 DEF IInv, Served, Sound, Named, Readable, HasFile
  <2> QED BY <2>2, <2>3 DEF IInv, Built
<1> QED BY <1>1, <1>2

LEMMA RenameSegmentKeeps ==
  ASSUME IInv, RenameSegment
  PROVE  IInv'
<1>1. /\ task.step = "write" /\ Unwritten = {} /\ files' = With(files, temp) /\ temp' = Nothing
      /\ unsynced' = unsynced \cup {task.new} /\ task' = [task EXCEPT !.step = "publish"]
      /\ UNCHANGED <<mutable, retired, snaps, loose, returned, damaged, taken>>
  BY DEF RenameSegment
<1>2. Building /\ task \in Builders
  BY <1>1, WhoHolds DEF IInv, Building
<1>3. /\ task' \in Builders /\ task'.step = "publish" /\ task'.op = task.op
      /\ task'.new = task.new /\ task'.image = task.image
      /\ task'.boundary = task.boundary /\ task'.dest = task.dest
  BY <1>1, <1>2 DEF Builders
<1>4. task.new \in SegIds /\ task.image \in Images
  BY <1>2 DEF Builders
<1>5. /\ task.new # "manifest" /\ \A path \in DOMAIN files : path[1] # task.new
  BY <1>1, <1>2 DEF IInv, Built
<1>6. /\ DOMAIN files' = DOMAIN files \cup DOMAIN temp
      /\ \A path \in DOMAIN files : files'[path] = files[path]
      /\ \A path \in DOMAIN temp : path \notin DOMAIN files => files'[path] = temp[path]
  BY <1>1 DEF With
<1>7. Sound(files) /\ mutable = Replayed(files)
  BY DEF IInv, Served
<1>8. \A path \in Needed(files) : path \in DOMAIN files' /\ files'[path] = files[path]
  <2>1. \A path \in Needed(files) : path \in DOMAIN files
    BY <1>7, NeededIsThere DEF HasFile
  <2> QED BY <1>6, <2>1
<1>9. /\ Sound(files') /\ Log(files') = Log(files) /\ Root(files') = Root(files)
      /\ SegmentRecords(files') = SegmentRecords(files) /\ Named(files') = Named(files)
      /\ Replayed(files') = Replayed(files)
  BY <1>7, <1>8, SoundAgrees
<1>10. Served'
  BY <1>1, <1>7, <1>9 DEF Served
<1>11. task.new \notin Named(files) \cup retired
  BY <1>2, NewIsApart
<1>12. Apart'
  <2>1. \A s \in retired : <<s, "meta">> \in DOMAIN files'
    BY <1>6 DEF IInv, Apart
  <2> QED BY <1>1, <1>5, <1>9, <1>11, <2>1 DEF IInv, Apart
<1>13. Readable(files', task.new) /\ ReadRecords(files', task.new) = task.image.records
  <2>1. ASSUME NEW name \in FileNames \cup {"meta"}
        PROVE  /\ <<task.new, name>> \in DOMAIN files'
               /\ files'[<<task.new, name>>] = File(FileContent(task.image, name))
    <3>1. <<task.new, name>> \notin DOMAIN files
      BY <1>5
    <3>2. PICK i \in DOMAIN Written : name = Written[i]
      BY DEF Written, FileNames
    <3>3. <<task.new, name>> \in DOMAIN temp
      BY <1>1, <3>2 DEF Unwritten
    <3>4. temp[<<task.new, name>>] = File(FileContent(task.image, name))
      BY <1>1, <3>3 DEF IInv, Filled
    <3> QED BY <1>6, <3>1, <3>3, <3>4
  <2> QED BY <1>4, <2>1, WrittenIsRead
<1>14. TaskType'
  BY <1>3 DEF IInv, TaskType
<1>15. Built'
  <2>1. /\ Root(files).boundary <= task.boundary /\ task.boundary <= Len(Log(files))
        /\ task.op = "optimize" => Covers(task.image.records, Log(files), task.boundary)
        /\ task.op # "optimize" =>
             /\ task.boundary = Len(Log(files))
             /\ Covers(Latest(Append(SegmentRecords(files), task.image.records)),
                       Log(files), task.boundary)
    BY <1>2 DEF IInv, Built
  <2> QED BY <1>1, <1>3, <1>5, <1>9, <1>11, <1>13, <2>1 DEF Built
<1>16. Filled'
  BY <1>1, <1>3 DEF Filled
<1>17. Shelved'
  <2>1. \A d \in unsynced' \cap Dests : d \in unsynced \cap Dests
    BY <1>1, <1>4, SnapshotsAssumption
  <2> QED BY <1>1, <1>3, <2>1 DEF IInv, Shelved, Shelves, Unclaimed
<1> QED BY <1>10, <1>12, <1>14, <1>15, <1>16, <1>17 DEF IInv

LEMMA PublishFlushKeeps ==
  ASSUME IInv, PublishFlush
  PROVE  IInv'
<1>1. /\ task.step = "publish" /\ task.op \in {"flush", "snapshot"}
      /\ unsynced' = unsynced \ {task.new}
      /\ files' = Published(Append(Segments(files), task.new))
      /\ mutable' = EmptySegment
      /\ task' = IF task.op = "flush" THEN Idle ELSE Task("snapshot", "check", task.dest)
      /\ UNCHANGED <<retired, temp, snaps, loose, returned, damaged, taken>>
  BY DEF PublishFlush
<1>2. Building /\ task \in Builders
  BY <1>1, WhoHolds DEF IInv, Building
<1>3. task.new \in SegIds /\ task.image \in Images /\ task.image.records \in Segment
  BY <1>2 DEF Builders, Images
<1>4. /\ task.new # "manifest"
      /\ Readable(files, task.new) /\ ReadRecords(files, task.new) = task.image.records
      /\ task.new \notin Named(files) \cup retired
      /\ task.boundary = Len(Log(files))
      /\ Covers(Latest(Append(SegmentRecords(files), task.image.records)),
                Log(files), task.boundary)
  BY <1>1, <1>2 DEF IInv, Built
<1>5. Sound(files)
  BY DEF IInv, Served
<1>6. /\ Segments(files) \in Seq(SegIds) /\ Log(files) \in Seq(Operation)
      /\ Len(Log(files)) \in Nat
  <2>1. Segments(files) \in Seq(SegIds) /\ Log(files) \in Seq(Operation)
    BY <1>5, SoundTypes
  <2> QED BY <2>1
<1> DEFINE segs == Append(Segments(files), task.new)
<1>7. /\ segs \in Seq(SegIds) /\ DOMAIN segs = DOMAIN Segments(files) \cup {Len(Segments(files)) + 1}
      /\ segs[Len(Segments(files)) + 1] = task.new
      /\ \A i \in DOMAIN Segments(files) : segs[i] = Segments(files)[i]
  BY <1>3, <1>6
<1>8. {segs[i] : i \in DOMAIN segs} = Named(files) \cup {task.new}
  <2> HIDE DEF segs
  <2> QED BY <1>7 DEF Named
<1>9. [i \in DOMAIN segs |-> ReadRecords(files, segs[i])]
        = Append(SegmentRecords(files), task.image.records)
  <2> DEFINE n == Len(Segments(files))
             read == [i \in DOMAIN segs |-> ReadRecords(files, segs[i])]
             more == Append(SegmentRecords(files), task.image.records)
  <2>1. n \in Nat /\ DOMAIN Segments(files) = 1 .. n /\ DOMAIN segs = 1 .. (n + 1)
    BY <1>6
  <2>2. SegmentRecords(files) \in Seq(Segment) /\ Len(SegmentRecords(files)) = n
    <3>1. SegmentRecords(files) \in Seq(Segment)
      BY <1>5, SoundTypes
    <3>2. DOMAIN SegmentRecords(files) = 1 .. n
      BY <2>1 DEF SegmentRecords
    <3> QED BY <2>1, <3>1, <3>2
  <2>3. /\ more \in Seq(Segment) /\ Len(more) = n + 1 /\ more[n + 1] = task.image.records
        /\ \A i \in 1 .. n : more[i] = SegmentRecords(files)[i]
    BY <1>3, <2>1, <2>2
  <2>4. ASSUME NEW i \in 1 .. (n + 1)
        PROVE  read[i] = more[i]
    <3>1. CASE i = n + 1
      BY <1>4, <1>7, <2>1, <2>3, <3>1
    <3>2. CASE i \in 1 .. n
      BY <1>7, <2>1, <2>3, <3>2 DEF SegmentRecords
    <3> HIDE DEF n, read, more
    <3> QED BY <2>1, <3>1, <3>2
  <2>5. read = [i \in 1 .. (n + 1) |-> read[i]] /\ more = [i \in 1 .. (n + 1) |-> more[i]]
    BY <2>1, <2>3
  <2> HIDE DEF read, more
  <2>6. read = more
    BY <2>4, <2>5
  <2> QED BY <2>6 DEF read, more
<1>10. \A i \in DOMAIN segs : /\ segs[i] # "manifest"
                              /\ Readable(files, segs[i])
                              /\ ReadRecords(files, segs[i]) \in Segment
  <2>1. \A i \in DOMAIN Segments(files) :
          /\ Segments(files)[i] # "manifest"
          /\ Readable(files, Segments(files)[i])
          /\ ReadRecords(files, Segments(files)[i]) \in Segment
    BY <1>5 DEF IInv, Apart, Named, Sound
  <2> HIDE DEF segs
  <2> QED BY <1>3, <1>4, <1>7, <2>1
<1> HIDE DEF segs
<1>11. files' = Put(Put(files, Manifest(Generation(files) + 1),
                        [segments |-> segs, boundary |-> task.boundary]),
                    Current, Generation(files) + 1)
  BY <1>1 DEF Published, segs
<1>12. /\ Sound(files') /\ DOMAIN files \subseteq DOMAIN files' /\ Log(files') = Log(files)
       /\ Root(files') = [segments |-> segs, boundary |-> task.boundary]
  <2>1. task.boundary \in Nat /\ task.boundary <= Len(Log(files))
    BY <1>4, <1>6
  <2>2. Covers(Latest([i \in DOMAIN segs |-> ReadRecords(files, segs[i])]),
               Log(files), task.boundary)
    BY <1>4, <1>9
  <2> QED BY <1>5, <1>7, <1>10, <1>11, <2>1, <2>2, RootReplaced
<1>13. Named(files') = Named(files) \cup {task.new}
  BY <1>8, <1>12 DEF Named, Segments
<1>14. Served'
  <2>1. Replayed(files') = Slice(Log(files), Len(Log(files)), Len(Log(files)))
    BY <1>4, <1>12 DEF Replayed
  <2> QED BY <1>1, <1>6, <1>12, <2>1, SliceEmpty DEF Served
<1>15. Apart'
  BY <1>1, <1>4, <1>12, <1>13 DEF IInv, Apart
<1>16. temp' = Nothing
  BY <1>1 DEF IInv, Filled
<1>17. CASE task.op = "flush"
  <2>1. task' = Idle
    BY <1>1, <1>17
  <2>2. TaskType' /\ Built' /\ Filled'
    BY <1>16, <2>1, NobodyWorks
  <2>3. Shelved'
    BY <1>1, <2>1 DEF IInv, Shelved, Shelves, Unclaimed, Idle
  <2> QED BY <1>14, <1>15, <2>2, <2>3 DEF IInv
<1>18. CASE task.op = "snapshot"
  <2>1. task' = [op |-> "snapshot", step |-> "check", dest |-> task.dest, synced |-> FALSE]
    BY <1>1, <1>18 DEF Task
  <2>2. TaskType'
    BY <1>18, <2>1 DEF IInv, TaskType, Snappers
  <2>3. Built' /\ Filled'
    BY <1>16, <2>1 DEF Built, Filled, Building
  <2>4. Shelved'
    BY <1>1, <2>1 DEF IInv, Shelved, Shelves, Unclaimed
  <2> QED BY <1>14, <1>15, <2>2, <2>3, <2>4 DEF IInv
<1> QED BY <1>1, <1>17, <1>18

LEMMA PublishOptimizeKeeps ==
  ASSUME IInv, PublishOptimize
  PROVE  IInv'
<1>1. /\ task.step = "publish" /\ task.op = "optimize"
      /\ unsynced' = unsynced \ {task.new}
      /\ files' = Published(<<task.new>>)
      /\ mutable' = NewerThan(mutable, task.boundary)
      /\ retired' = retired \cup Named(files)
      /\ task' = Idle
      /\ UNCHANGED <<temp, snaps, loose, returned, damaged, taken>>
  BY DEF PublishOptimize, Named
<1>2. Building /\ task \in Builders
  BY <1>1, WhoHolds DEF IInv, Building
<1>3. task.new \in SegIds /\ task.image.records \in Segment /\ task.boundary \in Nat
  BY <1>2 DEF Builders, Images
<1>4. /\ task.new # "manifest"
      /\ Readable(files, task.new) /\ ReadRecords(files, task.new) = task.image.records
      /\ task.new \notin Named(files) \cup retired
      /\ Root(files).boundary <= task.boundary /\ task.boundary <= Len(Log(files))
      /\ Covers(task.image.records, Log(files), task.boundary)
  BY <1>1, <1>2 DEF IInv, Built
<1>5. Sound(files) /\ mutable = Replayed(files)
  BY DEF IInv, Served
<1> DEFINE segs == <<task.new>>
<1>6. segs \in Seq(SegIds) /\ DOMAIN segs = {1} /\ segs[1] = task.new
  BY <1>3
<1>7. [i \in DOMAIN segs |-> ReadRecords(files, segs[i])] = <<task.image.records>>
  BY <1>4
<1>8. Covers(Latest([i \in DOMAIN segs |-> ReadRecords(files, segs[i])]),
             Log(files), task.boundary)
  BY <1>3, <1>4, <1>7, LatestSingle
<1>9. files' = Put(Put(files, Manifest(Generation(files) + 1),
                       [segments |-> segs, boundary |-> task.boundary]),
                   Current, Generation(files) + 1)
  BY <1>1 DEF Published
<1>10. \A i \in DOMAIN segs : /\ segs[i] # "manifest"
                              /\ Readable(files, segs[i])
                              /\ ReadRecords(files, segs[i]) \in Segment
  BY <1>3, <1>4, <1>6
<1> HIDE DEF segs
<1>11. /\ Sound(files') /\ DOMAIN files \subseteq DOMAIN files' /\ Log(files') = Log(files)
       /\ Root(files') = [segments |-> segs, boundary |-> task.boundary]
  BY <1>3, <1>4, <1>5, <1>6, <1>8, <1>9, <1>10, RootReplaced
<1>12. Named(files') = {task.new}
  BY <1>6, <1>11 DEF Named, Segments
<1>13. Served'
  <2> DEFINE b == Root(files).boundary
             n == Len(Log(files))
  <2>1. Log(files) \in Seq(Operation) /\ b \in 0 .. n
    BY <1>5, SoundTypes
  <2>2. n \in 0 .. Len(Log(files)) /\ b \in Nat
    BY <2>1
  <2>3. NewerThan(Slice(Log(files), b, n), task.boundary) = Slice(Log(files), task.boundary, n)
    <3> HIDE DEF b, n
    <3> QED BY <1>3, <1>4, <2>1, <2>2, SliceNewer DEF b
  <2>4. mutable = Slice(Log(files), b, n)
    BY <1>5 DEF Replayed
  <2>5. Replayed(files') = Slice(Log(files), task.boundary, n)
    BY <1>11 DEF Replayed
  <2> QED BY <1>1, <1>11, <2>3, <2>4, <2>5 DEF Served
<1>14. Apart'
  <2>1. \A s \in retired' : <<s, "meta">> \in DOMAIN files'
    <3>1. \A s \in Named(files) : <<s, "meta">> \in DOMAIN files
      BY <1>5 DEF Sound, Named, Readable, HasFile
    <3> QED BY <1>1, <1>11, <3>1 DEF IInv, Apart
  <2> QED BY <1>1, <1>4, <1>12, <2>1 DEF IInv, Apart
<1>15. TaskType' /\ Built' /\ Filled'
  <2>1. temp' = Nothing
    BY <1>1 DEF IInv, Filled
  <2> QED BY <1>1, <2>1, NobodyWorks
<1>16. Shelved'
  BY <1>1 DEF IInv, Shelved, Shelves, Unclaimed, Idle
<1> QED BY <1>13, <1>14, <1>15, <1>16 DEF IInv

\* A directory that the manifest does not name is removed.
LEMMA DirectoryRemoved ==
  ASSUME NEW tree, NEW s, Sound(tree), s # "manifest", s \notin Named(tree),
         NEW other, other = Without(tree, SegmentPaths(s))
  PROVE  \A path \in Needed(tree) : path \in DOMAIN other /\ other[path] = tree[path]
<1> SUFFICES ASSUME NEW path \in Needed(tree)
             PROVE  path \in DOMAIN other /\ other[path] = tree[path]
  OBVIOUS
<1>1. path \in DOMAIN tree
  BY NeededIsThere DEF HasFile
<1>2. path \notin SegmentPaths(s)
  BY NotNeeded
<1> QED BY <1>1, <1>2 DEF Without

LEMMA ReclaimKeeps ==
  ASSUME IInv, NEW s \in SegIds, Reclaim(s)
  PROVE  IInv'
<1>1. /\ s \in retired /\ files' = Without(files, SegmentPaths(s)) /\ retired' = retired \ {s}
      /\ UNCHANGED <<mutable, task, temp, shelf>>
  BY DEF Reclaim
<1>2. s # "manifest" /\ s \notin Named(files)
  BY <1>1 DEF IInv, Apart
<1>3. Sound(files) /\ mutable = Replayed(files)
  BY DEF IInv, Served
<1>4. \A path \in Needed(files) : path \in DOMAIN files' /\ files'[path] = files[path]
  BY <1>1, <1>2, <1>3, DirectoryRemoved
<1>5. /\ Sound(files') /\ Log(files') = Log(files) /\ Root(files') = Root(files)
      /\ SegmentRecords(files') = SegmentRecords(files) /\ Named(files') = Named(files)
      /\ Needed(files') = Needed(files) /\ Replayed(files') = Replayed(files)
  BY <1>3, <1>4, SoundAgrees
<1>6. DOMAIN files' \subseteq DOMAIN files
  BY <1>1 DEF Without
<1>7. ASSUME NEW t, t # s, NEW path \in SegmentPaths(t), path \in DOMAIN files
      PROVE  path \in DOMAIN files' /\ files'[path] = files[path]
  <2>1. path \notin SegmentPaths(s)
    BY <1>7, SegmentsApart
  <2> QED BY <1>1, <1>7, <2>1 DEF Without
<1>8. Served'
  BY <1>1, <1>3, <1>5 DEF Served
<1>9. Apart'
  <2>1. ASSUME NEW t \in retired'
        PROVE  <<t, "meta">> \in DOMAIN files'
    <3>1. t # s /\ <<t, "meta">> \in DOMAIN files
      BY <1>1 DEF IInv, Apart
    <3>2. <<t, "meta">> \in SegmentPaths(t)
      BY PathsOfSegment
    <3> QED BY <1>7, <3>1, <3>2
  <2> QED BY <1>1, <1>5, <2>1 DEF IInv, Apart, shelf
<1>10. TaskType'
  BY <1>1 DEF IInv, TaskType
<1>11. Built'
  <2> SUFFICES ASSUME Building PROVE Built'
    BY <1>1 DEF Built, Building
  <2>1. ASSUME task.step = "publish"
        PROVE  /\ Readable(files', task.new)
               /\ ReadRecords(files', task.new) = task.image.records
    <3>1. /\ Readable(files, task.new) /\ ReadRecords(files, task.new) = task.image.records
          /\ task.new # s
      BY <1>1, <2>1 DEF IInv, Built
    <3>2. \A path \in SegmentPaths(task.new) :
            path \in DOMAIN files' /\ files'[path] = files[path]
      BY <1>7, <3>1, ReadableIsThere DEF HasFile
    <3> QED BY <3>1, <3>2, ReadAgrees
  <2>2. task.step # "publish" => \A path \in DOMAIN files' : path[1] # task.new
    BY <1>6 DEF IInv, Built
  <2> QED BY <1>1, <1>5, <2>1, <2>2 DEF IInv, Built
<1>12. Filled'
  <2>1. task.step = "copy" =>
          /\ DOMAIN temp \subseteq Needed(files')
          /\ \A path \in DOMAIN temp : temp[path] = files'[path]
    BY <1>4, <1>5 DEF IInv, Filled
  <2>2. task.step \in {"sync", "replace"} =>
          /\ DOMAIN temp = Needed(files') \cup {Index}
          /\ \A path \in Needed(files') : temp[path] = files'[path]
    BY <1>4, <1>5 DEF IInv, Filled
  <2> QED BY <1>1, <2>1, <2>2 DEF IInv, Filled
<1>13. Shelved'
  BY <1>1, ShelfStays DEF IInv, Shelved
<1> QED BY <1>8, <1>9, <1>10, <1>11, <1>12, <1>13 DEF IInv

-----------------------------------------------------------------------------
(***************************************************************************)
(* A snapshot is filled and put in its place.                              *)
(***************************************************************************)
\* An empty directory is not a snapshot.
LEMMA NothingIsNoSnapshot ==
  ~ Accepts(Nothing) /\ \A what : ~ Intact(Nothing, what)
BY DEF Accepts, HasFile, Nothing, Intact

LEMMA IntactIsAccepted ==
  ASSUME NEW tree, NEW what, Intact(tree, what)
  PROVE  Accepts(tree) /\ Recovered(Collection(tree)) = what
<1>1. Index \in DOMAIN tree /\ tree[Index] = File(Collection(tree)) /\ Sound(Collection(tree))
  BY DEF Intact
<1>2. HasFile(tree, Index) /\ FilesMatch(tree)
  BY <1>1 DEF HasFile, FilesMatch, Content, File, Torn
<1> QED BY <1>1, <1>2, SoundReopens DEF Accepts, Intact

\* The steps of a snapshot change neither the collection nor the destinations.
LEMMA OnlyTaskMoves ==
  ASSUME IInv, Snapping, UNCHANGED <<store, shelf>>,
         task' \in Snappers
  PROVE  TaskType' /\ Served' /\ Apart' /\ Built'
<1>1. Served' /\ Apart'
  BY FilesStay DEF IInv, store, shelf
<1>2. /\ task'.op = "snapshot" /\ task'.dest \in Dests
      /\ task'.step \in {"check", "copy", "sync", "replace", "confirm"}
  BY DEF Snappers
<1> QED BY <1>1, <1>2 DEF TaskType, Built, Building

LEMMA CheckKeeps ==
  ASSUME IInv, Check
  PROVE  IInv'
<1>1. /\ task.step = "check" /\ snaps[task.dest] = Nothing
      /\ task' = [task EXCEPT !.step = "copy"] /\ UNCHANGED <<store, temp, shelf>>
  BY DEF Check
<1>2. Snapping /\ task \in Snappers
  BY <1>1, WhoHolds DEF IInv, Snapping
<1>3. task' \in Snappers /\ task'.step = "copy" /\ task'.dest = task.dest /\ task.dest \in Dests
  BY <1>1, <1>2 DEF Snappers
<1>4. TaskType' /\ Served' /\ Apart' /\ Built'
  BY <1>1, <1>2, <1>3, OnlyTaskMoves
<1>5. Filled'
  <2>1. temp' = Nothing
    BY <1>1 DEF IInv, Filled
  <2> QED BY <1>3, <2>1 DEF Filled, Nothing
<1>6. Shelved'
  <2>1. Unclaimed(task.dest)
    BY <1>1, <1>3, NothingIsNoSnapshot DEF IInv, Shelved, Shelves, Unclaimed
  <2> QED BY <1>1, <1>3, <2>1, ShelfStays DEF IInv
<1> QED BY <1>4, <1>5, <1>6 DEF IInv

\* The pieces of a copy are what open() reads.
LEMMA PiecesAreNeeded ==
  ASSUME Sound(files)
  PROVE  /\ DOMAIN Pieces \subseteq Nat
         /\ \A i \in DOMAIN Pieces : Pieces[i] \subseteq Needed(files)
         /\ \A path \in Needed(files) : \E i \in DOMAIN Pieces : path \in Pieces[i]
<1> DEFINE single == <<{Metadata}, {Current}, {Manifest(Generation(files))}, {LogFile}>>
           n == Len(Segments(files))
           whole == [i \in 1 .. n |-> SegmentPaths(Segments(files)[i])]
           Trees == SUBSET Needed(files)
<1>1. n \in Nat /\ DOMAIN Segments(files) = 1 .. n
  <2>1. Segments(files) \in Seq(SegIds)
    BY SoundTypes
  <2> QED BY <2>1
<1>2. single \in Seq(Trees) /\ Len(single) = 4
  BY DEF Needed
<1>3. \A i \in 1 .. n : whole[i] = SegmentPaths(Segments(files)[i]) /\ whole[i] \in Trees
  BY <1>1, NeededOfSegment
<1>4. whole \in Seq(Trees) /\ Len(whole) = n
  <2>1. whole \in [1 .. n -> Trees]
    BY <1>3
  <2> QED BY <1>1, <2>1
<1>5. Pieces = single \o whole
  BY <1>1 DEF Pieces
<1>6. /\ single[1] = {Metadata} /\ single[2] = {Current}
      /\ single[3] = {Manifest(Generation(files))} /\ single[4] = {LogFile}
  OBVIOUS
<1> HIDE DEF single, whole, n, Trees
<1>7. /\ DOMAIN Pieces = 1 .. (4 + n)
      /\ \A i \in DOMAIN Pieces : Pieces[i] \in Trees
      /\ \A i \in 1 .. 4 : Pieces[i] = single[i]
      /\ \A i \in 1 .. n : Pieces[4 + i] = whole[i]
  <2>1. /\ Pieces \in Seq(Trees) /\ Len(Pieces) = 4 + n
        /\ \A i \in 1 .. (4 + n) :
             Pieces[i] = IF i <= 4 THEN single[i] ELSE whole[i - 4]
    <3>1. /\ single \o whole \in Seq(Trees)
          /\ Len(single \o whole) = Len(single) + Len(whole)
          /\ \A i \in 1 .. (Len(single) + Len(whole)) :
               (single \o whole)[i]
                 = IF i <= Len(single) THEN single[i] ELSE whole[i - Len(single)]
      BY <1>2, <1>4, ConcatProperties
    <3> QED BY <1>2, <1>4, <1>5, <3>1
  <2>2. \A i \in 1 .. 4 : Pieces[i] = single[i]
    BY <1>1, <1>5, <2>1
  <2>3. ASSUME NEW i \in 1 .. n
        PROVE  Pieces[4 + i] = whole[i]
    <3>1. PICK j \in 1 .. (4 + n) : j = 4 + i
      BY <1>1
    <3>2. ~ j <= 4 /\ j - 4 = i
      BY <1>1, <3>1
    <3> QED BY <1>5, <2>1, <3>1, <3>2
  <2>4. DOMAIN Pieces = 1 .. (4 + n) /\ \A i \in DOMAIN Pieces : Pieces[i] \in Trees
    BY <1>5, <2>1
  <2> QED BY <2>2, <2>3, <2>4
<1>8. ASSUME NEW path \in Needed(files)
      PROVE  \E i \in DOMAIN Pieces : path \in Pieces[i]
  <2>1. CASE path = Metadata
    BY <1>1, <1>6, <1>7, <2>1
  <2>2. CASE path = Current
    BY <1>1, <1>6, <1>7, <2>2
  <2>3. CASE path = Manifest(Generation(files))
    BY <1>1, <1>6, <1>7, <2>3
  <2>4. CASE path = LogFile
    BY <1>1, <1>6, <1>7, <2>4
  <2>5. CASE \E i \in DOMAIN Segments(files) : path \in SegmentPaths(Segments(files)[i])
    <3>1. PICK i \in 1 .. n : path \in SegmentPaths(Segments(files)[i])
      BY <1>1, <2>5
    <3>2. path \in Pieces[4 + i] /\ 4 + i \in 1 .. (4 + n)
      BY <1>1, <1>3, <1>7, <3>1
    <3> QED BY <1>7, <3>2
  <2> QED BY <2>1, <2>2, <2>3, <2>4, <2>5 DEF Needed
<1>9. \A i \in DOMAIN Pieces : Pieces[i] \subseteq Needed(files)
  BY <1>7 DEF Trees
<1>10. DOMAIN Pieces \subseteq Nat
  BY <1>7
<1> QED BY <1>8, <1>9, <1>10

LEMMA CopyKeeps ==
  ASSUME IInv, Copy
  PROVE  IInv'
<1>1. task.step = "copy" /\ Uncopied # {} /\ UNCHANGED <<store, task, shelf>>
  BY DEF Copy
<1>2. Snapping /\ task \in Snappers
  BY <1>1, WhoHolds DEF IInv, Snapping
<1> DEFINE first == CHOOSE i \in Uncopied : \A j \in Uncopied : i <= j
<1>3. first \in DOMAIN Pieces
  <2>1. Uncopied \in SUBSET Nat
    BY PiecesAreNeeded DEF IInv, Served, Uncopied
  <2>2. \E i \in Uncopied : \A j \in Uncopied : i <= j
    BY <1>1, <2>1, LeastNat
  <2>3. first \in Uncopied
    BY <2>2
  <2> QED BY <2>3 DEF Uncopied
<1>4. temp' = With(temp, [path \in Pieces[first] |-> files[path]])
  BY DEF Copy
<1> HIDE DEF first
<1>5. Pieces[first] \subseteq Needed(files)
  BY <1>3, PiecesAreNeeded DEF IInv, Served
<1>6. TaskType' /\ Served' /\ Apart' /\ Built'
  BY <1>1, <1>2, OnlyTaskMoves
<1>7. Filled'
  <2>1. /\ DOMAIN temp \subseteq Needed(files)
        /\ \A path \in DOMAIN temp : temp[path] = files[path]
    BY <1>1 DEF IInv, Filled
  <2>2. /\ temp' = [path \in DOMAIN temp' |-> temp'[path]]
        /\ DOMAIN temp' = DOMAIN temp \cup Pieces[first]
    BY <1>4 DEF With
  <2>3. \A path \in DOMAIN temp' : temp'[path] = files[path]
    BY <1>4, <2>1 DEF With
  <2>4. files' = files /\ task' = task
    BY <1>1 DEF store
  <2> QED BY <1>1, <1>5, <2>1, <2>2, <2>3, <2>4 DEF Filled
<1>8. Shelved'
  <2>1. Unclaimed(task.dest)
    BY <1>1 DEF IInv, Shelved
  <2> QED BY <1>1, <2>1, ShelfStays DEF IInv
<1> QED BY <1>6, <1>7, <1>8 DEF IInv

LEMMA WriteIndexKeeps ==
  ASSUME IInv, WriteIndex
  PROVE  IInv'
<1>1. /\ task.step = "copy" /\ Uncopied = {} /\ temp' = Put(temp, Index, temp)
      /\ task' = [task EXCEPT !.step = "sync"] /\ UNCHANGED <<store, shelf>>
  BY DEF WriteIndex
<1>2. Snapping /\ task \in Snappers
  BY <1>1, WhoHolds DEF IInv, Snapping
<1>3. task' \in Snappers /\ task'.step = "sync" /\ task'.dest = task.dest
  BY <1>1, <1>2 DEF Snappers
<1>4. TaskType' /\ Served' /\ Apart' /\ Built'
  BY <1>1, <1>2, <1>3, OnlyTaskMoves
<1>5. Filled'
  <2>1. /\ temp = [path \in DOMAIN temp |-> temp[path]]
        /\ DOMAIN temp \subseteq Needed(files)
        /\ \A path \in DOMAIN temp : temp[path] = files[path]
    BY <1>1 DEF IInv, Filled
  <2>2. \A i \in DOMAIN Pieces : Pieces[i] \subseteq DOMAIN temp
    BY <1>1 DEF Uncopied
  <2>3. DOMAIN temp = Needed(files)
    BY <2>1, <2>2, PiecesAreNeeded DEF IInv, Served
  <2>4. Index \notin DOMAIN temp
    BY <2>3, ExtrasNotNeeded
  <2>5. DOMAIN temp' = Needed(files) \cup {Index} /\ temp'[Index] = File(temp)
    BY <1>1, <2>3 DEF Put
  <2>6. \A path \in Needed(files) : temp'[path] = files[path]
    BY <1>1, <2>1, <2>3, <2>4 DEF Put
  <2>7. Collection(temp') = temp
    <3>1. DOMAIN temp' \ {Index} = DOMAIN temp
      BY <2>3, <2>4, <2>5
    <3>2. Collection(temp') = [path \in DOMAIN temp |-> temp'[path]]
      BY <3>1 DEF Collection, Without
    <3>3. [path \in DOMAIN temp |-> temp'[path]] = [path \in DOMAIN temp |-> temp[path]]
      BY <2>1, <2>3, <2>6
    <3> QED BY <2>1, <3>2, <3>3
  <2>8. files' = files
    BY <1>1 DEF store
  <2> QED BY <1>3, <2>5, <2>6, <2>7, <2>8 DEF Filled
<1>6. Shelved'
  <2>1. Unclaimed(task.dest)
    BY <1>1 DEF IInv, Shelved
  <2> QED BY <1>1, <1>3, <2>1, ShelfStays DEF IInv
<1> QED BY <1>4, <1>5, <1>6 DEF IInv

LEMMA SyncKeeps ==
  ASSUME IInv, Sync
  PROVE  IInv'
<1>1. /\ task.step = "sync" /\ UNCHANGED <<store, temp, shelf>>
      /\ task' = [task EXCEPT !.step = "replace", !.synced = TRUE]
  BY DEF Sync, FsyncTree
<1>2. Snapping /\ task \in Snappers
  BY <1>1, WhoHolds DEF IInv, Snapping
<1>3. /\ task' \in Snappers /\ task'.step = "replace" /\ task'.dest = task.dest
      /\ task'.synced
  BY <1>1, <1>2 DEF Snappers
<1>4. TaskType' /\ Served' /\ Apart' /\ Built'
  BY <1>1, <1>2, <1>3, OnlyTaskMoves
<1>5. Filled'
  BY <1>1, <1>3 DEF IInv, Filled, store
<1>6. Shelved'
  <2>1. Unclaimed(task.dest)
    BY <1>1 DEF IInv, Shelved
  <2> QED BY <1>1, <1>3, <2>1, ShelfStays DEF IInv
<1> QED BY <1>4, <1>5, <1>6 DEF IInv

LEMMA ReplaceKeeps ==
  ASSUME IInv, Replace
  PROVE  IInv'
<1>1. /\ task.step = "replace"
      /\ snaps' = [snaps EXCEPT ![task.dest] = temp] /\ temp' = Nothing
      /\ unsynced' = unsynced \cup {task.dest}
      /\ loose' = IF task.synced THEN loose ELSE loose \cup {task.dest}
      /\ taken' = [taken EXCEPT ![task.dest] = Acknowledged]
      /\ task' = [task EXCEPT !.step = "confirm"]
      /\ UNCHANGED <<store, returned, damaged>>
  BY DEF Replace
<1>2. Snapping /\ task \in Snappers
  BY <1>1, WhoHolds DEF IInv, Snapping
<1>3. /\ task' \in Snappers /\ task'.step = "confirm" /\ task'.op = "snapshot"
      /\ task'.dest = task.dest /\ task.dest \in Dests
  BY <1>1, <1>2 DEF Snappers
<1>4. files' = files /\ mutable' = mutable /\ retired' = retired
  BY <1>1 DEF store
<1>5. Sound(files)
  BY DEF IInv, Served
<1>6. /\ DOMAIN temp = Needed(files) \cup {Index} /\ temp[Index] = File(Collection(temp))
      /\ \A path \in Needed(files) : temp[path] = files[path]
      /\ task.synced
  BY <1>1 DEF IInv, Filled
<1>7. Intact(temp, Acknowledged)
  <2>1. DOMAIN Collection(temp) = Needed(files)
    BY <1>6, ExtrasNotNeeded DEF Collection, Without
  <2>2. \A path \in Needed(files) :
          path \in DOMAIN Collection(temp) /\ Collection(temp)[path] = files[path]
    BY <1>6, <2>1 DEF Collection, Without
  <2>3. /\ Sound(Collection(temp)) /\ Needed(Collection(temp)) = Needed(files)
        /\ Recovered(Collection(temp)) = Recovered(files)
    BY <1>5, <2>2, SoundAgrees
  <2>4. Recovered(files) = Acknowledged
    BY <1>5, SoundReopens DEF Acknowledged
  <2> QED BY <1>6, <2>1, <2>3, <2>4 DEF Intact
<1>8. TaskType'
  BY <1>3 DEF TaskType
<1>9. Served'
  BY <1>4 DEF IInv, Served
<1>10. Apart'
  <2>1. Named(files) \subseteq SegIds
    BY <1>5, SoundTypes
  <2>2. unsynced' \cap SegIds = unsynced \cap SegIds
    BY <1>1, <1>3, SnapshotsAssumption
  <2>3. Named(files) \cap unsynced' = {}
    BY <2>1, <2>2 DEF IInv, Apart
  <2> QED BY <1>4, <2>2, <2>3 DEF IInv, Apart
<1>11. Built' /\ Filled'
  BY <1>1, <1>3 DEF Built, Building, Filled
<1>12. Shelved'
  <2>1. snaps = [d \in Dests |-> snaps[d]] /\ taken = [d \in Dests |-> taken[d]]
    BY DEF IInv, Shelved
  <2>2. /\ snaps'[task.dest] = temp /\ taken'[task.dest] = Acknowledged
        /\ \A d \in Dests : d # task.dest => snaps'[d] = snaps[d] /\ taken'[d] = taken[d]
    BY <1>1, <1>3, <2>1
  <2>3. snaps' = [d \in Dests |-> snaps'[d]] /\ taken' = [d \in Dests |-> taken'[d]]
    BY <1>1, <2>1
  <2>4. \A d : Unclaimed(d)' <=> Unclaimed(d)
    BY <1>1 DEF Unclaimed
  <2>5. \A d \in Dests : Shelves(d)'
    <3> SUFFICES ASSUME NEW d \in Dests PROVE Shelves(d)'
      OBVIOUS
    <3>1. CASE d = task.dest
      BY <1>7, <2>2, <3>1 DEF Shelves
    <3>2. CASE d # task.dest
      BY <1>1, <2>2, <2>4, <3>2 DEF IInv, Shelved, Shelves
    <3> QED BY <3>1, <3>2
  <2>6. loose' = {}
    BY <1>1, <1>6 DEF IInv, Shelved
  <2>7. Unclaimed(task.dest)
    BY <1>1 DEF IInv, Shelved
  <2>8. \A d \in unsynced' \cap Dests : Unclaimed(d)'
    BY <1>1, <2>4, <2>7 DEF IInv, Shelved
  <2>9. Intact(snaps'[task'.dest], taken'[task'.dest])
    BY <1>3, <1>7, <2>2
  <2>10. task'.dest \notin returned' \/ task'.dest \in damaged' \/ task'.dest \in NewParents
    BY <1>1, <1>3, <2>7 DEF Unclaimed
  <2> QED BY <1>3, <2>3, <2>5, <2>6, <2>8, <2>9, <2>10 DEF Shelved, Shelves, Unclaimed
<1> QED BY <1>8, <1>9, <1>10, <1>11, <1>12 DEF IInv

LEMMA ConfirmKeeps ==
  ASSUME IInv, Confirm
  PROVE  IInv'
<1>1. /\ task.step = "confirm" /\ unsynced' = unsynced \ ({task.dest} \ NewParents)
      /\ returned' = returned \cup {task.dest} /\ task' = Idle
      /\ UNCHANGED <<store, temp, snaps, loose, damaged, taken>>
  BY DEF Confirm
<1>2. files' = files /\ mutable' = mutable /\ retired' = retired
  BY <1>1 DEF store
<1>3. TaskType' /\ Built' /\ Filled'
  <2>1. temp' = Nothing
    BY <1>1 DEF IInv, Filled
  <2> QED BY <1>1, <2>1, NobodyWorks
<1>4. Served' /\ Apart'
  BY <1>1, <1>2 DEF IInv, Served, Apart
<1>5. Shelved'
  <2>1. task.dest \in damaged \/ Intact(snaps[task.dest], taken[task.dest])
    BY <1>1 DEF IInv, Shelved
  <2>2. \A d : d # task.dest \/ d \in damaged => (Unclaimed(d)' <=> Unclaimed(d))
    BY <1>1 DEF Unclaimed
  <2>3. \A d \in Dests : Shelves(d)'
    <3> SUFFICES ASSUME NEW d \in Dests PROVE Shelves(d)'
      OBVIOUS
    <3>1. Shelves(d)
      BY DEF IInv, Shelved, Shelves
    <3> QED BY <1>1, <2>1, <2>2, <3>1 DEF Shelves
  <2>4. \A d \in unsynced' \cap Dests : Unclaimed(d)'
    <3> SUFFICES ASSUME NEW d \in unsynced' \cap Dests PROVE Unclaimed(d)'
      OBVIOUS
    <3>1. CASE d = task.dest
      BY <1>1, <3>1 DEF Unclaimed
    <3>2. CASE d # task.dest
      BY <1>1, <2>2, <3>2 DEF IInv, Shelved
    <3> QED BY <3>1, <3>2
  <2> QED BY <1>1, <2>3, <2>4 DEF IInv, Shelved, Shelves, Idle, Unclaimed
<1> QED BY <1>3, <1>4, <1>5 DEF IInv

-----------------------------------------------------------------------------
(***************************************************************************)
(* Failures, crashes and damage.                                           *)
(***************************************************************************)
LEMMA RaiseKeeps ==
  ASSUME IInv, Raise
  PROVE  IInv'
<1>1. /\ files' = IF task.op = "optimize" THEN Without(files, SegmentPaths(task.new)) ELSE files
      /\ task' = Idle /\ temp' = Nothing
      /\ UNCHANGED <<mutable, retired, shelf>>
  BY DEF Raise
<1>2. TaskType' /\ Built' /\ Filled'
  BY <1>1, NobodyWorks
<1>3. Shelved'
  BY <1>1, ShelfStays DEF IInv, Idle
<1>4. CASE task.op # "optimize"
  BY <1>1, <1>2, <1>3, <1>4, FilesStay DEF IInv, shelf
<1>5. CASE task.op = "optimize"
  <2>1. Building
    BY <1>5, WhoHolds DEF IInv
  <2>2. /\ task.new # "manifest" /\ task.new \notin Named(files) \cup retired
        /\ files' = Without(files, SegmentPaths(task.new))
    BY <1>1, <1>5, <2>1, NewIsApart
  <2>3. Sound(files) /\ mutable = Replayed(files)
    BY DEF IInv, Served
  <2>4. \A path \in Needed(files) : path \in DOMAIN files' /\ files'[path] = files[path]
    BY <2>2, <2>3, DirectoryRemoved
  <2>5. Sound(files') /\ Named(files') = Named(files) /\ Replayed(files') = Replayed(files)
    BY <2>3, <2>4, SoundAgrees
  <2>6. ASSUME NEW s \in retired
        PROVE  <<s, "meta">> \in DOMAIN files'
    <3>1. <<s, "meta">> \in DOMAIN files
      BY DEF IInv, Apart
    <3>2. <<s, "meta">> \in SegmentPaths(s) /\ s # task.new
      BY <2>2, PathsOfSegment
    <3>3. <<s, "meta">> \notin SegmentPaths(task.new)
      BY <3>2, SegmentsApart
    <3> QED BY <2>2, <3>1, <3>3 DEF Without
  <2>7. Served' /\ Apart'
    BY <1>1, <2>3, <2>5, <2>6 DEF IInv, Served, Apart, shelf
  <2> QED BY <1>2, <1>3, <2>7 DEF IInv
<1> QED BY <1>4, <1>5

LEMMA ProcessCrashKeeps ==
  ASSUME IInv, ProcessCrash
  PROVE  IInv'
<1>1. /\ files' = files /\ mutable' = Replayed(files) /\ retired' = {}
      /\ task' = Idle /\ temp' = Nothing /\ UNCHANGED shelf
  BY DEF ProcessCrash, Reopened
<1>2. TaskType' /\ Built' /\ Filled'
  BY <1>1, NobodyWorks
<1>3. Served' /\ Apart'
  BY <1>1 DEF IInv, Served, Apart, shelf
<1>4. Shelved'
  BY <1>1, ShelfStays DEF IInv, Idle
<1> QED BY <1>2, <1>3, <1>4 DEF IInv

LEMMA HostCrashKeeps ==
  ASSUME IInv, HostCrash
  PROVE  IInv'
<1>1. PICK lost \in SUBSET unsynced :
        /\ Reopened(Without(files, UNION {SegmentPaths(s) : s \in lost \cap SegIds}))
        /\ snaps' = [d \in Dests |->
                       IF d \in lost THEN Nothing
                       ELSE IF d \in loose THEN [path \in DOMAIN snaps[d] |-> Torn]
                       ELSE snaps[d]]
  BY DEF HostCrash
<1>2. unsynced' = {} /\ loose' = {} /\ UNCHANGED <<returned, damaged, taken>>
  BY DEF HostCrash
<1>3. /\ files' = Without(files, UNION {SegmentPaths(s) : s \in lost \cap SegIds})
      /\ mutable' = Replayed(files') /\ retired' = {} /\ task' = Idle /\ temp' = Nothing
  BY <1>1 DEF Reopened
<1>4. Sound(files)
  BY DEF IInv, Served
<1>5. ASSUME NEW path \in Needed(files)
      PROVE  path \in DOMAIN files' /\ files'[path] = files[path]
  <2>1. path \in DOMAIN files
    BY <1>4, NeededIsThere DEF HasFile
  <2>2. ASSUME NEW s \in lost \cap SegIds
        PROVE  path \notin SegmentPaths(s)
    <3>1. s # "manifest" /\ s \notin Named(files)
      BY DEF IInv, Apart
    <3> QED BY <3>1, NotNeeded
  <2> QED BY <1>3, <2>1, <2>2 DEF Without
<1>6. Sound(files') /\ Named(files') = Named(files)
  BY <1>4, <1>5, SoundAgrees
<1>7. Served'
  BY <1>3, <1>6 DEF Served
<1>8. Apart'
  BY <1>2, <1>3, <1>6 DEF IInv, Apart
<1>9. TaskType' /\ Built' /\ Filled'
  BY <1>3, NobodyWorks
<1>10. Shelved'
  <2>1. \A d : Unclaimed(d)' <=> Unclaimed(d)
    BY <1>2 DEF Unclaimed
  <2>2. \A d \in Dests : Shelves(d)'
    <3> SUFFICES ASSUME NEW d \in Dests PROVE Shelves(d)'
      OBVIOUS
    <3>1. CASE d \in lost
      <4>1. Unclaimed(d) /\ snaps'[d] = Nothing
        BY <1>1, <3>1 DEF IInv, Shelved
      <4> QED BY <2>1, <4>1 DEF Shelves
    <3>2. CASE d \notin lost
      <4>1. snaps'[d] = snaps[d]
        BY <1>1, <3>2 DEF IInv, Shelved
      <4> QED BY <1>2, <2>1, <4>1 DEF IInv, Shelved, Shelves
    <3> QED BY <3>1, <3>2
  <2>3. snaps' = [d \in Dests |-> snaps'[d]] /\ taken' = [d \in Dests |-> taken'[d]]
    BY <1>1, <1>2 DEF IInv, Shelved
  <2> QED BY <1>2, <1>3, <2>2, <2>3 DEF Shelved, Shelves, Idle
<1> QED BY <1>7, <1>8, <1>9, <1>10 DEF IInv

\* A snapshot with a file torn, lost or added is refused.
LEMMA DamageShows ==
  ASSUME NEW tree, NEW what, Intact(tree, what), NEW other,
         \/ \E path \in DOMAIN tree : other = [tree EXCEPT ![path] = Torn]
         \/ \E path \in DOMAIN tree : other = Without(tree, {path})
         \/ other = With(tree, [path \in {Stray} |-> Torn])
  PROVE  ~ Accepts(other)
<1>1. /\ Index \in DOMAIN tree /\ tree[Index] = File(Collection(tree))
      /\ DOMAIN Collection(tree) = Needed(Collection(tree))
      /\ Sound(Collection(tree))
  BY DEF Intact
<1>2. /\ DOMAIN Collection(tree) = DOMAIN tree \ {Index}
      /\ \A path \in DOMAIN Collection(tree) :
           /\ Collection(tree)[path] = tree[path]
           /\ tree[path] # Torn
  <2>1. /\ DOMAIN Collection(tree) = DOMAIN tree \ {Index}
        /\ \A path \in DOMAIN Collection(tree) : Collection(tree)[path] = tree[path]
    BY DEF Collection, Without
  <2>2. \A path \in DOMAIN Collection(tree) : Collection(tree)[path] # Torn
    BY <1>1, NeededIsThere DEF HasFile
  <2> QED BY <2>1, <2>2
<1>3. ASSUME Index \in DOMAIN other, other[Index] = tree[Index], Accepts(other)
      PROVE  Collection(other) = Collection(tree)
  BY <1>1, <1>3 DEF Accepts, FilesMatch, Content, File
<1>4. DOMAIN Collection(other) = DOMAIN other \ {Index}
  BY DEF Collection, Without
<1>5. ASSUME NEW path \in DOMAIN tree, other = [tree EXCEPT ![path] = Torn]
      PROVE  ~ Accepts(other)
  <2>1. other[path] = Torn /\ DOMAIN other = DOMAIN tree
    BY <1>5
  <2>2. CASE path = Index
    BY <2>1, <2>2 DEF Accepts, HasFile
  <2>3. CASE path # Index
    <3>1. Index \in DOMAIN other /\ other[Index] = tree[Index]
      BY <1>1, <1>5, <2>3
    <3>2. path \in DOMAIN Collection(other) /\ Collection(other)[path] = Torn
      BY <2>1, <2>3 DEF Collection, Without
    <3>3. path \in DOMAIN Collection(tree) /\ Collection(tree)[path] # Torn
      BY <1>2, <2>3
    <3> QED BY <1>3, <3>1, <3>2, <3>3
  <2> QED BY <2>2, <2>3
<1>6. ASSUME NEW path \in DOMAIN tree, other = Without(tree, {path})
      PROVE  ~ Accepts(other)
  <2>1. /\ DOMAIN other = DOMAIN tree \ {path}
        /\ \A p \in DOMAIN other : other[p] = tree[p]
    BY <1>6 DEF Without
  <2>2. CASE path = Index
    BY <2>1, <2>2 DEF Accepts, HasFile
  <2>3. CASE path # Index
    <3>1. Index \in DOMAIN other /\ other[Index] = tree[Index]
      BY <1>1, <2>1, <2>3
    <3>2. path \notin DOMAIN Collection(other) /\ path \in DOMAIN Collection(tree)
      BY <1>2, <1>4, <2>1, <2>3
    <3> QED BY <1>3, <3>1, <3>2
  <2> QED BY <2>2, <2>3
<1>7. ASSUME other = With(tree, [path \in {Stray} |-> Torn])
      PROVE  ~ Accepts(other)
  <2>1. /\ DOMAIN other = DOMAIN tree \cup {Stray}
        /\ \A p \in DOMAIN tree : other[p] = tree[p]
    BY <1>7 DEF With
  <2>2. Stray \notin DOMAIN Collection(tree) /\ Stray # Index
    BY <1>1, ExtrasNotNeeded, PathsDiffer
  <2>3. Stray \in DOMAIN Collection(other)
    BY <1>4, <2>1, <2>2
  <2> QED BY <1>1, <1>3, <2>1, <2>2, <2>3
<1> QED BY <1>5, <1>6, <1>7

LEMMA DamageKeeps ==
  ASSUME IInv, NEW d \in Dests, Damage(d)
  PROVE  IInv'
<1>1. /\ d \in returned \ damaged /\ snaps[d] # Nothing
      /\ \/ \E path \in DOMAIN snaps[d] : snaps' = [snaps EXCEPT ![d][path] = Torn]
         \/ \E path \in DOMAIN snaps[d] : snaps' = [snaps EXCEPT ![d] = Without(@, {path})]
         \/ snaps' = [snaps EXCEPT ![d] = With(@, [path \in {Stray} |-> Torn])]
      /\ damaged' = damaged \cup {d}
      /\ UNCHANGED <<store, task, temp, unsynced, loose, returned, taken>>
  BY DEF Damage
<1>2. snaps = [e \in Dests |-> snaps[e]] /\ taken = [e \in Dests |-> taken[e]]
  BY DEF IInv, Shelved
<1>3. /\ snaps' = [e \in Dests |-> snaps'[e]]
      /\ \A e \in Dests : e # d => snaps'[e] = snaps[e]
      /\ \/ \E path \in DOMAIN snaps[d] : snaps'[d] = [snaps[d] EXCEPT ![path] = Torn]
         \/ \E path \in DOMAIN snaps[d] : snaps'[d] = Without(snaps[d], {path})
         \/ snaps'[d] = With(snaps[d], [path \in {Stray} |-> Torn])
  BY <1>1, <1>2
<1>4. Intact(snaps[d], taken[d])
  BY <1>1 DEF IInv, Shelved, Shelves, Unclaimed
<1>5. ~ Accepts(snaps'[d])
  BY <1>3, <1>4, DamageShows
<1>6. \A e : Unclaimed(e) =>
        Unclaimed(e)' /\ (e \notin returned' \/ e \in damaged' \/ e \in NewParents)
  BY <1>1 DEF Unclaimed
<1>7. \A e \in Dests : Shelves(e)'
  <2> SUFFICES ASSUME NEW e \in Dests PROVE Shelves(e)'
    OBVIOUS
  <2>1. CASE e = d
    BY <1>1, <1>5, <2>1 DEF Shelves
  <2>2. CASE e # d
    BY <1>1, <1>3, <1>6, <2>2 DEF IInv, Shelved, Shelves
  <2> QED BY <2>1, <2>2
<1>8. task.step = "confirm" =>
        task.dest \in damaged' \/ Intact(snaps'[task.dest], taken[task.dest])
  <2> SUFFICES ASSUME task.step = "confirm", task.dest # d, task.dest \notin damaged
               PROVE  Intact(snaps'[task.dest], taken[task.dest])
    BY <1>1
  <2>1. task.dest \in Dests
    BY WhoHolds DEF IInv, Snapping, Snappers
  <2> QED BY <1>3, <2>1 DEF IInv, Shelved
<1>9. Shelved'
  <2>1. task.step \in {"copy", "sync", "replace", "confirm"} =>
          task.dest \notin returned' \/ task.dest \in damaged' \/ task.dest \in NewParents
    BY <1>6 DEF IInv, Shelved
  <2>2. \A e \in unsynced \cap Dests : Unclaimed(e)'
    BY <1>6 DEF IInv, Shelved
  <2> QED BY <1>1, <1>2, <1>3, <1>7, <1>8, <2>1, <2>2 DEF IInv, Shelved, Shelves, Unclaimed
<1>10. Served' /\ Apart'
  BY <1>1, FilesStay DEF IInv, store
<1>11. TaskType' /\ Built' /\ Filled'
  BY <1>1 DEF IInv, TaskType, Built, Building, Filled, store
<1> QED BY <1>9, <1>10, <1>11 DEF IInv

-----------------------------------------------------------------------------
(***************************************************************************)
(* The theorems.                                                           *)
(***************************************************************************)
\* Every action keeps what is carried along, in whatever state of the others it runs.
LEMMA Inductive == IInv /\ [Next]_vars => IInv'
<1> SUFFICES ASSUME IInv, [Next]_vars PROVE IInv'
  OBVIOUS
<1>1. CASE Write
  BY <1>1, WriteKeeps
<1>2. CASE CreatePayloadIndex
  BY <1>2, CreatePayloadIndexKeeps
<1>3. CASE Flush
  BY <1>3, FlushKeeps
<1>4. CASE Optimize
  BY <1>4, OptimizeKeeps
<1>5. CASE BuildReplacement
  BY <1>5, BuildReplacementKeeps
<1>6. CASE WriteFile
  BY <1>6, WriteFileKeeps
<1>7. CASE RenameSegment
  BY <1>7, RenameSegmentKeeps
<1>8. CASE PublishFlush
  BY <1>8, PublishFlushKeeps
<1>9. CASE PublishOptimize
  BY <1>9, PublishOptimizeKeeps
<1>10. CASE \E s \in SegIds : Reclaim(s)
  BY <1>10, ReclaimKeeps
<1>11. CASE \E d \in Dests : CreateSnapshot(d) \/ Damage(d)
  BY <1>11, CreateSnapshotKeeps, DamageKeeps
<1>12. CASE Check
  BY <1>12, CheckKeeps
<1>13. CASE Copy
  BY <1>13, CopyKeeps
<1>14. CASE WriteIndex
  BY <1>14, WriteIndexKeeps
<1>15. CASE Sync
  BY <1>15, SyncKeeps
<1>16. CASE Replace
  BY <1>16, ReplaceKeeps
<1>17. CASE Confirm
  BY <1>17, ConfirmKeeps
<1>18. CASE Raise
  BY <1>18, RaiseKeeps
<1>19. CASE ProcessCrash
  BY <1>19, ProcessCrashKeeps
<1>20. CASE HostCrash
  BY <1>20, HostCrashKeeps
<1>21. CASE UNCHANGED vars
  <2>1. UNCHANGED <<store, task, temp, shelf>>
    BY <1>21 DEF vars
  <2>2. Served' /\ Apart'
    BY <2>1, FilesStay DEF IInv, store, shelf
  <2>3. Shelved'
    BY <2>1, ShelfStays DEF IInv, Shelved
  <2>4. TaskType' /\ Built' /\ Filled'
    BY <2>1 DEF IInv, TaskType, Built, Building, Filled, store, shelf
  <2> QED BY <2>2, <2>3, <2>4 DEF IInv
<1> QED
  BY <1>1, <1>2, <1>3, <1>4, <1>5, <1>6, <1>7, <1>8, <1>9, <1>10, <1>11, <1>12, <1>13, <1>14,
     <1>15, <1>16, <1>17, <1>18, <1>19, <1>20, <1>21 DEF Next

LEMMA InvariantHolds == Spec => []IInv
BY InitHolds, Inductive, PTL DEF Spec

\* A process that opens the collection, at any moment and after any crash, finds every
\* segment that the manifest names complete, and with the log they hold exactly what was
\* acknowledged: no name of a directory is used twice, nothing that the manifest names
\* is reclaimed or lost with an unsynced parent, and a decoded image is the encoded one.
THEOREM AlwaysReopensTheSame == Spec => []ReopensTheSame
<1>1. IInv => ReopensTheSame
  BY SoundReopens DEF IInv, Served, ReopensTheSame, Acknowledged
<1> QED BY <1>1, InvariantHolds, PTL

\* Whatever a host crash or a later change did to it, a snapshot that
\* validate_collection_snapshot accepts restores what the collection held when it was
\* published: while files are copied, nobody writes, flushes or optimizes, and what is
\* reclaimed meanwhile is not copied.
THEOREM AcceptedIsAlwaysTaken == Spec => []AcceptedIsTaken
<1>1. IInv => AcceptedIsTaken
  BY IntactIsAccepted, NothingIsNoSnapshot DEF IInv, Shelved, Shelves, AcceptedIsTaken
<1> QED BY <1>1, InvariantHolds, PTL

\* At any moment and after any crash, a destination that nothing else wrote to holds a
\* snapshot that is accepted, or nothing; and a snapshot that create_snapshot returned
\* is still there.
THEOREM AlwaysWholeOrNothing == Spec => []WholeOrNothing
<1>1. IInv => WholeOrNothing
  BY IntactIsAccepted DEF IInv, Shelved, Shelves, WholeOrNothing, Unclaimed
<1> QED BY <1>1, InvariantHolds, PTL
=============================================================================
