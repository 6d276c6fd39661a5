-------------------------------- MODULE Wal --------------------------------
(***************************************************************************)
(* The write-ahead log as the file it is (persistence/wal.py, frame.py):   *)
(* frames appended by unbuffered writes that a crash can cut anywhere,     *)
(* fsyncs that may not come, and an open() that scans the file, repairs    *)
(* its tail and refuses anything else.                                     *)
(*                                                                         *)
(* The file is a sequence of units, each part of one write: the frame of a *)
(* record has `size` units, of which the first HeaderSize are the header   *)
(* (magic, version and body length).  A checksum is taken to match exactly *)
(* when all units of the frame are its own.                                *)
(***************************************************************************)
EXTENDS Naturals, SequencesExt

CONSTANTS Sizes,       \* the sizes of frames
          HeaderSize,  \* the size of their headers
          Durability,  \* Durability: "always", "interval" or "manual"
          HostFails,   \* whether the host may crash
          FsyncFails,  \* whether an fsync may fail
          MaxSequence  \* bound: sequence numbers

ASSUME WalAssumption ==
  /\ HeaderSize \in Nat \ {0}
  /\ \A size \in Sizes : size \in Nat /\ size > HeaderSize
  /\ Durability \in {"always", "interval", "manual"}
  /\ HostFails \in BOOLEAN
  /\ FsyncFails \in BOOLEAN
  /\ MaxSequence \in Nat

VARIABLES
  file,      \* the file as the process sees it
  disk,      \* the file as of its last fsync
  status,    \* "open", "repairing", "down", or "refused" by open()
  sequence,  \* _sequence
  writing,   \* the append in progress: [phase, record], or Idle
  promised   \* the records the caller may rely on after any crash

vars == <<file, disk, status, sequence, writing, promised>>

Idle == [phase |-> "idle"]

Record == [seq : 1 .. MaxSequence, size : Sizes]

\* encode_frame.
Frame(record) == [at \in 1 .. record.size |-> [of |-> record, at |-> at]]

Init ==
  /\ file = <<>>
  /\ disk = <<>>
  /\ status = "open"
  /\ sequence = 0
  /\ writing = Idle
  /\ promised = {}

-----------------------------------------------------------------------------
(***************************************************************************)
(* scan_frames.                                                            *)
(***************************************************************************)
Rest(f, offset) == Len(f) - offset

\* A whole frame whose checksum matches starts after the offset.
GoodFrame(f, offset) ==
  /\ Rest(f, offset) > 0
  /\ LET record == f[offset + 1].of
     IN  /\ record.size <= Rest(f, offset)
         /\ SubSeq(f, offset + 1, offset + record.size) = Frame(record)

\* The records of the frames before the first that is not whole, and the offset
\* after the last of them.
Scan(f) ==
  LET scan[offset \in 0 .. Len(f)] ==
        IF GoodFrame(f, offset)
        THEN LET record == f[offset + 1].of
                 rest   == scan[offset + record.size]
             IN  [frames     |-> <<record>> \o rest.frames,
                  last_valid |-> rest.last_valid]
        ELSE [frames |-> <<>>, last_valid |-> offset]
  IN  scan[0]

LastValid(f) == Scan(f).last_valid

Log(f) == Scan(f).frames

\* What the scan finds at the first frame that is not whole.  An incomplete
\* frame, or one with a bad checksum that reaches the end of the file, is a
\* torn tail; one that ends before is corruption.  A header in which two
\* writes meet may be read as either.
Verdicts(f) ==
  LET offset == LastValid(f)
      first  == f[offset + 1].of
      header == SubSeq(f, offset + 1, offset + HeaderSize)
  IN  CASE Rest(f, offset) = 0 -> {"intact"}
        [] Rest(f, offset) \in 1 .. HeaderSize - 1 -> {"torn"}
        [] Rest(f, offset) >= HeaderSize ->
             IF header # SubSeq(Frame(first), 1, HeaderSize) THEN {"torn", "corrupt"}
             ELSE IF first.size >= Rest(f, offset) THEN {"torn"}
             ELSE {"corrupt"}

\* _validate_sequences.
ValidSequences(log) == \A i \in DOMAIN log : log[i].seq = i

-----------------------------------------------------------------------------
(***************************************************************************)
(* Wal.append: write the frame, fsync it if every append is to be durable, *)
(* and only then advance the sequence and return.                          *)
(***************************************************************************)
BeginAppend ==
  /\ status = "open"
  /\ writing = Idle
  /\ sequence < MaxSequence
  /\ \E size \in Sizes :
       writing' = [phase |-> "write", record |-> [seq |-> sequence + 1, size |-> size]]
  /\ UNCHANGED <<file, disk, status, sequence, promised>>

\* The file after `n` units of the frame being written.
AfterWriting(n) == file \o SubSeq(Frame(writing.record), 1, n)

Write ==
  /\ writing.phase = "write"
  /\ file' = AfterWriting(writing.record.size)
  /\ writing' = [writing EXCEPT !.phase = "written"]
  /\ UNCHANGED <<disk, status, sequence, promised>>

\* Mutant: append() never fsyncs.
NeverFsynced == disk

FsyncedByAppend == IF Durability = "always" THEN file ELSE disk

Returns ==
  /\ disk' = FsyncedByAppend
  /\ sequence' = writing.record.seq
  /\ promised' = IF Durability = "always" THEN promised \cup {writing.record} ELSE promised

\* The fsync fails: the frame stays in the file, the sequence is not advanced.
Raises ==
  /\ Durability = "always" /\ FsyncFails
  /\ UNCHANGED <<disk, sequence, promised>>

EndAppend ==
  /\ writing.phase = "written"
  /\ writing' = Idle
  /\ Returns \/ Raises
  /\ UNCHANGED <<file, status>>

\* Wal.flush: what was appended is now promised under every policy.
Flush ==
  /\ status = "open"
  /\ writing = Idle
  /\ disk' = file
  /\ promised' = promised \cup ToSet(Log(file))
  /\ UNCHANGED <<file, status, sequence, writing>>

-----------------------------------------------------------------------------
(***************************************************************************)
(* Stopping and starting.                                                  *)
(***************************************************************************)
ForgetMemory ==
  /\ status' = "down"
  /\ sequence' = 0
  /\ writing' = Idle

\* Collection.close fsyncs before it closes the stream.
Close ==
  /\ status = "open"
  /\ writing = Idle
  /\ disk' = file
  /\ promised' = promised \cup ToSet(Log(file))
  /\ ForgetMemory
  /\ UNCHANGED file

\* A crash can cut the write it interrupts anywhere.
Interrupted ==
  IF writing.phase = "write"
  THEN {AfterWriting(n) : n \in 0 .. writing.record.size}
  ELSE {file}

ProcessCrash ==
  /\ status \in {"open", "repairing"}
  /\ file' \in Interrupted
  /\ ForgetMemory
  /\ UNCHANGED <<disk, promised>>

\* What an fsync did not cover may be lost, the bytes written last first, and
\* so may a truncation: the file is cut after what its two versions share.
Survivors(f) ==
  LET shared == Len(LongestCommonPrefix({f, disk}))
  IN  {SubSeq(f, 1, n) : n \in shared .. Len(f)}
        \cup {SubSeq(disk, 1, n) : n \in shared .. Len(disk)}

HostCrash ==
  /\ HostFails
  /\ \E f \in Interrupted : file' \in Survivors(f)
  /\ disk' = file'
  /\ ForgetMemory
  /\ UNCHANGED promised

\* Mutant: the torn tail is left in the file.
NothingTruncated(f) == f

\* Mutant: the last good frame is cut off too.
CutTooShort(f) == IF LastValid(f) = 0 THEN f ELSE SubSeq(f, 1, LastValid(f) - 1)

Repaired(f) == SubSeq(f, 1, LastValid(f))

\* Mutant: open() starts from the number of the frame before the last.
LastButOne(log) == IF log = <<>> THEN 0 ELSE Last(log).seq - 1

LastSequence(log) == IF log = <<>> THEN 0 ELSE Last(log).seq

StartFrom(f) ==
  IF ValidSequences(Log(f))
  THEN status' = "open" /\ sequence' = LastSequence(Log(f))
  ELSE status' = "refused" /\ UNCHANGED sequence

\* A torn tail is truncated and the new length fsynced before open() goes on.
Open ==
  /\ status = "down"
  /\ \E verdict \in Verdicts(file) :
       \/ verdict = "intact" /\ StartFrom(file) /\ UNCHANGED file
       \/ /\ verdict = "torn"
          /\ file' = Repaired(file)
          /\ status' = "repairing"
          /\ UNCHANGED sequence
       \/ verdict = "corrupt" /\ status' = "refused" /\ UNCHANGED <<file, sequence>>
  /\ UNCHANGED <<disk, writing, promised>>

OpenRepaired ==
  /\ status = "repairing"
  /\ disk' = file
  /\ StartFrom(file)
  /\ UNCHANGED <<file, writing, promised>>

-----------------------------------------------------------------------------
Next ==
  \/ BeginAppend \/ Write \/ EndAppend \/ Flush
  \/ Close \/ ProcessCrash \/ HostCrash
  \/ Open \/ OpenRepaired

Spec == Init /\ [][Next]_vars

-----------------------------------------------------------------------------
Unit == [of : Record, at : Nat \ {0}]

\* The files hold units of frames, and the file every whole frame that is durable.
TypeOK ==
  /\ file \in Seq(Unit) /\ disk \in Seq(Unit)
  /\ IsPrefix(Repaired(disk), file)
  /\ status \in {"open", "repairing", "down", "refused"}
  /\ sequence \in Nat
  /\ writing \in [phase : {"write", "written"}, record : Record] \cup {Idle}
  /\ promised \in SUBSET Record

-----------------------------------------------------------------------------
(***************************************************************************)
(* Safety.                                                                 *)
(***************************************************************************)
\* Wherever a crash cuts the file, open() accepts what is left: at worst the
\* tail is torn, and the sequences are 1, 2, 3 and so on ("unique and strictly
\* increasing", wal.py:_validate_sequences).
Readable == "corrupt" \notin Verdicts(file) /\ ValidSequences(Log(file))

\* What was promised is still there and still the same after any crash: "an
\* acknowledged update survives process loss" (Durability.ALWAYS, wal.py:110).
PromisedSurvive ==
  \A f \in {file, disk} : \A record \in promised :
    record.seq \in DOMAIN Log(f) /\ Log(f)[record.seq] = record

\* The file implements the log of whole records Collection.tla takes it for.
CONSTANT Down

ASSUME DownAssumption == Down \notin Nat

Promise == INSTANCE AtomicLog WITH
  Records <- Record,
  Strict  <- Durability = "always",
  log     <- Log(file),
  durable <- Len(Log(disk)),
  known   <- IF status = "open" THEN sequence ELSE Down

PromiseSpec == Promise!Spec
=============================================================================
