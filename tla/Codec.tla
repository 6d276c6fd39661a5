------------------------------- MODULE Codec --------------------------------
(***************************************************************************)
(* A segment as the files of a directory (segment/codec.py).               *)
(*                                                                         *)
(* A directory tree is a function from paths to files.  A file that was    *)
(* cut short or changed is Torn: the length, the CRC and the SHA-256 of a  *)
(* blob all find out, so a file is read as it was written or not at all.   *)
(***************************************************************************)
EXTENDS Segments

File(content) == <<content>>

Torn == <<>>

HasFile(tree, path) == path \in DOMAIN tree /\ tree[path] # Torn

Content(tree, path) == tree[path][1]

\* A file is created, or replaced by a rename.
Put(tree, path, content) ==
  [p \in DOMAIN tree \cup {path} |-> IF p = path THEN File(content) ELSE tree[p]]

\* A tree and the files of another that are at paths of their own.
With(tree, more) ==
  [path \in DOMAIN tree \cup DOMAIN more |->
     IF path \in DOMAIN tree THEN tree[path] ELSE more[path]]

Without(tree, paths) == [path \in DOMAIN tree \ paths |-> tree[path]]

-----------------------------------------------------------------------------
\* The records of a segment, the schemas it is to be indexed by, and its graph.
Images == [records : Segment, schemas : SUBSET Fields, indexed : BOOLEAN, graph : SUBSET Ids]

Held(seg) == {id \in Ids : seg[id] # Absent}

LivePoints(seg) == {id \in Held(seg) : seg[id].val # Gone}

\* SegmentImage.build: a graph over the live points, if it is to be indexed.
Image(records, schemas, indexed) ==
  [records |-> records, schemas |-> schemas, indexed |-> indexed,
   graph |-> IF indexed THEN LivePoints(records) ELSE {}]

\* Mutant: the versions of tombstones are not stored.
LiveVersions(seg) == [id \in LivePoints(seg) |-> seg[id].ver]

Versions(seg) == [id \in Held(seg) |-> seg[id].ver]

\* _image_files
ImageFiles(image) ==
  LET seg == image.records
  IN  [points   |-> [id \in LivePoints(seg) |-> seg[id].val.vec],
       payloads |-> [id \in LivePoints(seg) |-> seg[id].val.payload],
       versions |-> Versions(seg),
       deleted  |-> Held(seg) \ LivePoints(seg),
       hnsw     |-> image.graph,
       indexes  |-> image.schemas]

FileNames == {"points", "payloads", "versions", "deleted", "hnsw", "indexes"}

\* meta.json names every file by its checksum, which only its content has.
Meta(image) == [indexed |-> image.indexed, checksums |-> ImageFiles(image)]

\* _decode_image: one record for each stored version.
DecodeRecords(files) ==
  [id \in Ids |->
     IF id \notin DOMAIN files.versions THEN Absent
     ELSE [ver |-> files.versions[id],
           val |-> IF id \in files.deleted THEN Gone
                   ELSE [vec |-> files.points[id], payload |-> files.payloads[id]]]]

-----------------------------------------------------------------------------
(***************************************************************************)
(* The directory of segment s in a tree.                                   *)
(***************************************************************************)
\* The order in which write_atomic writes the files.
Written == <<"points", "payloads", "versions", "deleted", "hnsw", "indexes", "meta">>

SegmentPaths(s) == {<<s, Written[i]>> : i \in DOMAIN Written}

FileContent(image, name) == IF name = "meta" THEN Meta(image) ELSE ImageFiles(image)[name]

\* SegmentCodec.read does not raise: meta.json is there, and every file it lists
\* is, with its checksum.
Readable(tree, s) ==
  /\ HasFile(tree, <<s, "meta">>)
  /\ \A name \in FileNames :
       /\ HasFile(tree, <<s, name>>)
       /\ Content(tree, <<s, name>>) = Content(tree, <<s, "meta">>).checksums[name]

\* What it returns.
ReadRecords(tree, s) == DecodeRecords([name \in FileNames |-> Content(tree, <<s, name>>)])
=============================================================================
