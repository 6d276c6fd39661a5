------------------------------ MODULE WalProofs ------------------------------
(***************************************************************************)
(* Proofs about Wal.tla: whatever a crash cuts, the file is made of frames *)
(* and its scan finds exactly those that end in it; as long as no fsync    *)
(* fails, what was promised is never lost, open() accepts the file, and    *)
(* the file implements AtomicLog.                                          *)
(*                                                                         *)
(* The scan is a recursive function.  Nothing of it is proved by an        *)
(* induction theorem: a place where it would be wrong, the last one, is    *)
(* shown not to be.                                                        *)
(***************************************************************************)
EXTENDS Wal, SequenceTheorems, WellFoundedInduction, TLAPS

\* Every nonempty set of naturals has a least element.
LEMMA LeastNat ==
  ASSUME NEW T \in SUBSET Nat, T # {}
  PROVE  \E x \in T : \A y \in T : x <= y
<1> DEFINE R == OpToRel(<, Nat)
<1>1. IsWellFoundedOn(R, Nat)
  BY NatLessThanWellFounded
<1>2. PICK x \in T : \A y \in T : ~ (<<y, x>> \in R)
  <2> HIDE DEF R
  <2> QED BY <1>1, WFMin
<1>3. \A y \in T : ~ (y < x)
  <2> SUFFICES ASSUME NEW y \in T, y < x PROVE FALSE
    OBVIOUS
  <2>1. <<y, x>> \in {ss \in Nat \X Nat : ss[1] < ss[2]}
    OBVIOUS
  <2> QED BY <2>1, <1>2 DEF OpToRel
<1> QED BY <1>3

-----------------------------------------------------------------------------
\* `n` elements after the first `a`.
LEMMA PieceOf ==
  ASSUME NEW S, NEW s, NEW a \in Nat, NEW n \in Nat, \A i \in 1 .. n : s[a + i] \in S
  PROVE  /\ SubSeq(s, a + 1, a + n) \in Seq(S)
         /\ Len(SubSeq(s, a + 1, a + n)) = n
         /\ \A i \in 1 .. n : SubSeq(s, a + 1, a + n)[i] = s[a + i]
         /\ SubSeq(s, a + 1, a + n) = [i \in 1 .. n |-> s[a + i]]
<1> DEFINE t == SubSeq(s, a + 1, a + n)
<1>1. \A i \in a + 1 .. a + n : s[i] \in S
  <2> SUFFICES ASSUME NEW i \in a + 1 .. a + n PROVE s[i] \in S
    OBVIOUS
  <2>1. i - a \in 1 .. n /\ a + (i - a) = i
    OBVIOUS
  <2> QED BY <2>1
<1>2. /\ a + 1 \in Int /\ a + n \in Int /\ a + n - (a + 1) + 1 = n
      /\ (IF a + 1 <= a + n THEN a + n - (a + 1) + 1 ELSE 0) = n
      /\ \A i \in 1 .. n : a + 1 + i - 1 = a + i
  OBVIOUS
<1>3. /\ t \in Seq(S)
      /\ Len(t) = IF a + 1 <= a + n THEN a + n - (a + 1) + 1 ELSE 0
      /\ \A i \in 1 .. a + n - (a + 1) + 1 : t[i] = s[a + 1 + i - 1]
  BY <1>1, <1>2, SubSeqProperties
<1> HIDE DEF t
<1>4. t \in Seq(S) /\ Len(t) = n /\ \A i \in 1 .. n : t[i] = s[a + i]
  BY <1>2, <1>3
<1>5. t = [i \in 1 .. Len(t) |-> t[i]]
  BY <1>4, LenProperties
<1>6. t = [i \in 1 .. n |-> s[a + i]]
  BY <1>4, <1>5
<1> QED BY <1>4, <1>6 DEF t

(***************************************************************************)
(* Units, and whole frames.                                                *)
(***************************************************************************)
\* A unit of a file belongs to a record whose frame is longer than its header.
LEMMA UnitOf ==
  ASSUME NEW f \in Seq(Unit), NEW i \in 1 .. Len(f)
  PROVE  /\ f[i] \in Unit /\ f[i].of \in Record /\ f[i].at \in Nat \ {0}
         /\ f[i].of.seq \in 1 .. MaxSequence
         /\ f[i].of.size \in Nat /\ f[i].of.size > HeaderSize /\ f[i].of.size > 1
         /\ HeaderSize \in Nat \ {0}
         /\ f[i] = [of |-> f[i].of, at |-> f[i].at]
<1>1. f[i] \in Unit
  BY ElementOfSeq
<1>2. f[i].of \in Record /\ f[i].at \in Nat \ {0} /\ f[i] = [of |-> f[i].of, at |-> f[i].at]
  BY <1>1 DEF Unit
<1>3. f[i].of.seq \in 1 .. MaxSequence /\ f[i].of.size \in Sizes
  BY <1>2 DEF Record
<1> QED BY <1>1, <1>2, <1>3, WalAssumption

\* A whole frame ends within the file, after its start.
LEMMA GoodFrameEnds ==
  ASSUME NEW f \in Seq(Unit), NEW offset \in 0 .. Len(f), GoodFrame(f, offset)
  PROVE  /\ offset + 1 \in 1 .. Len(f)
         /\ offset + f[offset + 1].of.size \in offset + 1 .. Len(f)
<1>1. Len(f) \in Nat
  OBVIOUS
<1>2. offset + 1 \in 1 .. Len(f)
  BY <1>1 DEF GoodFrame, Rest
<1>3. f[offset + 1].of.size \in Nat /\ f[offset + 1].of.size > 1
  BY <1>2, UnitOf
<1> QED BY <1>1, <1>2, <1>3 DEF GoodFrame, Rest

-----------------------------------------------------------------------------
(***************************************************************************)
(* The scan is what its equation says: there is a function that satisfies  *)
(* it, and Scan is that function's value at the start of the file.         *)
(***************************************************************************)
\* One step of the scan.
Step(f, scan, offset) ==
  IF GoodFrame(f, offset)
  THEN [frames     |-> <<f[offset + 1].of>> \o scan[offset + f[offset + 1].of.size].frames,
        last_valid |-> scan[offset + f[offset + 1].of.size].last_valid]
  ELSE [frames |-> <<>>, last_valid |-> offset]

Scans(f, scan) == scan = [offset \in 0 .. Len(f) |-> Step(f, scan, offset)]

\* A step looks ahead only.
LEMMA StepLooksAhead ==
  ASSUME NEW f \in Seq(Unit), NEW offset \in 0 .. Len(f), NEW g, NEW h,
         \A i \in offset + 1 .. Len(f) : g[i] = h[i]
  PROVE  Step(f, g, offset) = Step(f, h, offset)
<1>1. CASE GoodFrame(f, offset)
  BY <1>1, GoodFrameEnds DEF Step
<1>2. CASE ~ GoodFrame(f, offset)
  BY <1>2 DEF Step
<1> QED BY <1>1, <1>2

\* The scan of the last `k` units and the one before give the scan of one more.
LEMMA ScanExists ==
  ASSUME NEW f \in Seq(Unit)
  PROVE  \E scan : Scans(f, scan)
<1> DEFINE P(k) == \E scan : scan = [offset \in Len(f) - k .. Len(f) |-> Step(f, scan, offset)]
           T == {k \in 0 .. Len(f) : ~ P(k)}
<1>1. Len(f) \in Nat
  OBVIOUS
<1>2. T = {}
  <2> SUFFICES ASSUME T # {} PROVE FALSE
    OBVIOUS
  <2>1. PICK k \in T : \A j \in T : k <= j
    <3>1. T \in SUBSET Nat
      OBVIOUS
    <3> HIDE DEF T
    <3> QED BY <3>1, LeastNat
  <2>2. k \in 0 .. Len(f) /\ ~ P(k)
    OBVIOUS
  <2> DEFINE b == Len(f) - k
  <2>3. b \in 0 .. Len(f)
    BY <1>1, <2>2
  <2>4. CASE k = 0
    <3> DEFINE scan == [offset \in Len(f) .. Len(f) |-> [frames |-> <<>>, last_valid |-> offset]]
    <3>1. \A offset \in Len(f) .. Len(f) : offset = Len(f)
      BY <1>1
    <3>2. ~ GoodFrame(f, Len(f))
      BY <1>1 DEF GoodFrame, Rest
    <3>3. \A offset \in Len(f) .. Len(f) :
            Step(f, scan, offset) = [frames |-> <<>>, last_valid |-> offset]
      BY <3>1, <3>2 DEF Step
    <3>4. scan = [offset \in Len(f) .. Len(f) |-> Step(f, scan, offset)]
      BY <3>3
    <3> HIDE DEF scan
    <3>5. Len(f) - k = Len(f)
      BY <1>1, <2>4
    <3> QED BY <2>2, <3>4, <3>5
  <2>5. CASE k # 0
    <3>1. k - 1 \in 0 .. Len(f) /\ Len(f) - (k - 1) = b + 1
      BY <1>1, <2>2, <2>5
    <3>2. P(k - 1)
      <4>1. k - 1 \notin T
        <5> HIDE DEF T
        <5> QED BY <1>1, <2>1, <2>2
      <4> QED BY <3>1, <4>1
    <3>3. PICK h : h = [offset \in b + 1 .. Len(f) |-> Step(f, h, offset)]
      BY <3>1, <3>2
    <3> DEFINE g == [offset \in b .. Len(f) |-> IF offset = b THEN Step(f, h, b) ELSE h[offset]]
    <3>4. \A i \in b + 1 .. Len(f) : g[i] = h[i]
      BY <1>1, <2>3
    <3>5. g[b] = Step(f, h, b)
      BY <1>1, <2>3
    <3>6. DOMAIN g = b .. Len(f)
      OBVIOUS
    <3>7. g = [offset \in b .. Len(f) |-> g[offset]]
      OBVIOUS
    <3> HIDE DEF g
    <3>8. \A offset \in b .. Len(f) : g[offset] = Step(f, g, offset)
      <4> SUFFICES ASSUME NEW offset \in b .. Len(f) PROVE g[offset] = Step(f, g, offset)
        OBVIOUS
      <4>1. \A i \in offset + 1 .. Len(f) : g[i] = h[i]
        BY <3>4, <2>3, <1>1
      <4>2. offset \in 0 .. Len(f)
        BY <2>3, <1>1
      <4>3. Step(f, g, offset) = Step(f, h, offset)
        BY <4>1, <4>2, StepLooksAhead
      <4>4. CASE offset = b
        BY <4>3, <4>4, <3>5
      <4>5. CASE offset # b
        <5>1. offset \in b + 1 .. Len(f)
          BY <4>5, <2>3, <1>1
        <5>2. h[offset] = Step(f, h, offset)
          BY <3>3, <5>1
        <5> QED BY <4>3, <5>1, <5>2, <3>4
      <4> QED BY <4>4, <4>5
    <3>9. g = [offset \in b .. Len(f) |-> Step(f, g, offset)]
      BY <3>7, <3>8
    <3> QED BY <2>2, <3>9
  <2> QED BY <2>4, <2>5
<1>3. Len(f) \in 0 .. Len(f) /\ Len(f) - Len(f) = 0
  BY <1>1
<1>4. P(Len(f))
  BY <1>2, <1>3
<1> HIDE DEF T
<1> QED BY <1>3, <1>4 DEF Scans

\* Scan unfolds as its definition says.
LEMMA ScanIsItsStart ==
  ASSUME NEW f \in Seq(Unit)
  PROVE  \E scan : Scans(f, scan) /\ Scan(f) = scan[0]
<1> DEFINE scan == CHOOSE scan : Scans(f, scan)
<1>1. Scans(f, scan)
  BY ScanExists
<1>2. Scan(f) = scan[0]
  BY DEF Scan, Scans, Step
<1> QED BY <1>1, <1>2

-----------------------------------------------------------------------------
(***************************************************************************)
(* Files that are made of frames.                                          *)
(***************************************************************************)
\* A frame, or the file, ends after `i` units.
EndsAt(f, i) == i = 0 \/ (i \in 1 .. Len(f) /\ f[i].at = f[i].of.size)

\* Every unit starts a frame where another ends, or continues the frame of the
\* unit before.  What is said of one unit and the one before survives any cut.
Framed(f) ==
  \A i \in 1 .. Len(f) :
    /\ f[i].at <= f[i].of.size
    /\ f[i].at = 1 => EndsAt(f, i - 1)
    /\ f[i].at # 1 => i > 1 /\ f[i - 1].of = f[i].of /\ f[i - 1].at + 1 = f[i].at

\* The number of the frame that ends after `i` units.
NumberAt(f, i) == IF i = 0 THEN 0 ELSE f[i].of.seq

Numbered(f) ==
  \A i \in 1 .. Len(f) : f[i].at = 1 => f[i].of.seq = NumberAt(f, i - 1) + 1

LEMMA NumberIsNat ==
  ASSUME NEW f \in Seq(Unit), NEW b \in 0 .. Len(f)
  PROVE  NumberAt(f, b) \in Nat
<1>1. CASE b = 0
  BY <1>1 DEF NumberAt
<1>2. CASE b # 0
  <2>1. b \in 1 .. Len(f)
    BY <1>2
  <2>2. f[b].of.seq \in 1 .. MaxSequence
    BY <2>1, UnitOf
  <2> QED BY <1>2, <2>2, WalAssumption DEF NumberAt
<1> QED BY <1>1, <1>2

\* Where a frame ends the next starts, and the units after are its own as far as
\* its size, or the file, goes.
LEMMA FrameAhead ==
  ASSUME NEW f \in Seq(Unit), Framed(f),
         NEW b \in 0 .. Len(f), EndsAt(f, b), b < Len(f),
         NEW k \in 1 .. f[b + 1].of.size, b + k <= Len(f)
  PROVE  f[b + k] = [of |-> f[b + 1].of, at |-> k]
<1> DEFINE r == f[b + 1].of
           T == {j \in 1 .. r.size : b + j <= Len(f) /\ f[b + j] # [of |-> r, at |-> j]}
<1>1. Len(f) \in Nat /\ b \in Nat
  OBVIOUS
<1>2. b + 1 \in 1 .. Len(f) /\ r.size \in Nat
  <2>1. b + 1 \in 1 .. Len(f)
    BY <1>1
  <2> QED BY <2>1, UnitOf
<1>3. f[b + 1].at = 1
  <2>1. CASE b = 0
    BY <2>1, <1>2 DEF Framed
  <2>2. CASE b # 0
    <3>1. b \in 1 .. Len(f) /\ f[b].at = f[b].of.size
      BY <2>2, <1>1 DEF EndsAt
    <3>2. SUFFICES ASSUME f[b + 1].at # 1 PROVE FALSE
      OBVIOUS
    <3>3. f[b].of = r /\ f[b].at + 1 = f[b + 1].at /\ f[b + 1].at <= r.size
      BY <1>1, <1>2, <3>2 DEF Framed
    <3> QED BY <1>2, <3>1, <3>3
  <2> QED BY <2>1, <2>2
<1>4. f[b + 1] = [of |-> r, at |-> 1]
  BY <1>2, <1>3, UnitOf
<1>5. SUFFICES ASSUME T # {} PROVE FALSE
  OBVIOUS
<1>6. PICK j \in T : \A i \in T : j <= i
  <2>1. T \in SUBSET Nat
    OBVIOUS
  <2> HIDE DEF T
  <2> QED BY <2>1, <1>5, LeastNat
<1>7. j \in 1 .. r.size /\ b + j <= Len(f) /\ f[b + j] # [of |-> r, at |-> j]
  OBVIOUS
<1>8. j # 1
  BY <1>4, <1>7
<1>9. j - 1 \in 1 .. r.size /\ b + (j - 1) <= Len(f) /\ j - 1 \notin T
  <2> HIDE DEF T
  <2> QED BY <1>1, <1>2, <1>6, <1>7, <1>8
<1>10. f[b + (j - 1)] = [of |-> r, at |-> j - 1]
  BY <1>9
<1> HIDE DEF T
<1>11. PICK c \in 1 .. Len(f) : c = b + j
  BY <1>1, <1>2, <1>7
<1>12. c - 1 = b + (j - 1) /\ c - 1 # 0 /\ j - 1 # r.size
  BY <1>1, <1>2, <1>7, <1>8, <1>11
<1>13. f[c - 1].at = j - 1 /\ f[c - 1].of = r
  BY <1>10, <1>12
<1>14. f[c].at # 1
  BY <1>12, <1>13 DEF EndsAt, Framed
<1>15. f[c - 1].of = f[c].of /\ f[c - 1].at + 1 = f[c].at
  BY <1>14 DEF Framed
<1>16. f[c].of = r /\ f[c].at = j
  BY <1>1, <1>7, <1>13, <1>15
<1>17. f[c] = [of |-> r, at |-> j]
  BY <1>16, UnitOf
<1> QED BY <1>7, <1>11, <1>17

\* So a whole frame is one that fits.
LEMMA WholeIfItFits ==
  ASSUME NEW f \in Seq(Unit), Framed(f),
         NEW b \in 0 .. Len(f), EndsAt(f, b), b < Len(f)
  PROVE  GoodFrame(f, b) <=> b + f[b + 1].of.size <= Len(f)
<1> DEFINE r == f[b + 1].of
<1>1. Len(f) \in Nat /\ b \in Nat /\ b + 1 \in 1 .. Len(f)
  OBVIOUS
<1>2. r.size \in Nat /\ r.size > 1
  BY <1>1, UnitOf
<1>3. ASSUME b + r.size <= Len(f)
      PROVE  SubSeq(f, b + 1, b + r.size) = Frame(r)
  <2>1. \A k \in 1 .. r.size : f[b + k] = [of |-> r, at |-> k]
    BY <1>1, <1>2, <1>3, FrameAhead
  <2>2. \A k \in 1 .. r.size : f[b + k] \in Unit
    <3>1. \A k \in 1 .. r.size : b + k \in 1 .. Len(f)
      BY <1>1, <1>2, <1>3
    <3> QED BY <3>1, ElementOfSeq
  <2>3. SubSeq(f, b + 1, b + r.size) = [k \in 1 .. r.size |-> f[b + k]]
    <3>1. b \in Nat /\ r.size \in Nat
      BY <1>1, <1>2
    <3> HIDE DEF r
    <3> QED BY <2>2, <3>1, PieceOf
  <2> QED BY <2>1, <2>3 DEF Frame
<1> QED BY <1>1, <1>2, <1>3 DEF GoodFrame, Rest

\* What is a correct scan of the file from a place where a frame ends: where it
\* stops, and the frames it found, each under its number.
RightType(f, b, scanned) ==
  /\ scanned.frames \in Seq(Record)
  /\ scanned.last_valid \in b .. Len(f)
  /\ EndsAt(f, scanned.last_valid)
  /\ ~ GoodFrame(f, scanned.last_valid)

\* Every record found is that of a frame that ends in the file.
Found(f, b, scanned) ==
  \A k \in 1 .. Len(scanned.frames) :
    /\ scanned.frames[k].seq = NumberAt(f, b) + k
    /\ \E i \in b + 1 .. Len(f) : f[i].of = scanned.frames[k] /\ f[i].at = f[i].of.size

\* No frame that ends in the file is missed.
Missed(f, b, scanned) ==
  \E i \in b + 1 .. Len(f) :
    /\ f[i].at = f[i].of.size
    /\ ~ \E k \in 1 .. Len(scanned.frames) :
           f[i].of.seq = NumberAt(f, b) + k /\ scanned.frames[k] = f[i].of

Counted(f, b, scanned) ==
  NumberAt(f, b) + Len(scanned.frames) = NumberAt(f, scanned.last_valid)

Correct(f, b, scanned) ==
  /\ RightType(f, b, scanned)
  /\ Numbered(f) =>
       Found(f, b, scanned) /\ ~ Missed(f, b, scanned) /\ Counted(f, b, scanned)

\* No frame ends where the units of one that is not whole begin.
LEMMA NoEndInATail ==
  ASSUME NEW f \in Seq(Unit), Framed(f),
         NEW b \in 0 .. Len(f), EndsAt(f, b), ~ GoodFrame(f, b)
  PROVE  \A i \in b + 1 .. Len(f) : f[i].at # f[i].of.size
<1> SUFFICES ASSUME NEW i \in b + 1 .. Len(f) PROVE f[i].at # f[i].of.size
  OBVIOUS
<1>1. Len(f) \in Nat /\ b \in Nat /\ b < Len(f) /\ b + 1 \in 1 .. Len(f)
  OBVIOUS
<1>2. f[b + 1].of.size \in Nat /\ b + f[b + 1].of.size > Len(f)
  <2>1. f[b + 1].of.size \in Nat
    BY <1>1, UnitOf
  <2>2. ~ (b + f[b + 1].of.size <= Len(f))
    BY <1>1, WholeIfItFits
  <2> QED BY <1>1, <2>1, <2>2
<1>3. PICK k \in 1 .. f[b + 1].of.size : i = b + k /\ k # f[b + 1].of.size
  <2>1. i - b \in 1 .. f[b + 1].of.size /\ i = b + (i - b) /\ i - b # f[b + 1].of.size
    BY <1>1, <1>2
  <2> QED BY <2>1
<1>4. f[i] = [of |-> f[b + 1].of, at |-> k]
  BY <1>1, <1>3, FrameAhead
<1> QED BY <1>3, <1>4

\* A whole frame ends with the last unit of its record.
LEMMA WholeFrame ==
  ASSUME NEW f \in Seq(Unit), Framed(f),
         NEW b \in 0 .. Len(f), EndsAt(f, b), GoodFrame(f, b)
  PROVE  LET r == f[b + 1].of
             c == b + r.size
         IN  /\ r \in Record /\ c \in b + 1 .. Len(f)
             /\ EndsAt(f, c) /\ f[c].of = r /\ f[c].at = r.size
             /\ \A i \in b + 1 .. c - 1 : f[i].at # f[i].of.size
             /\ Numbered(f) => r.seq = NumberAt(f, b) + 1
<1> DEFINE r == f[b + 1].of
           c == b + r.size
<1>1. Len(f) \in Nat /\ b \in Nat /\ b < Len(f) /\ b + 1 \in 1 .. Len(f)
  BY GoodFrameEnds
<1>2. r \in Record /\ r.size \in Nat /\ r.size > 1
  BY <1>1, UnitOf
<1>3. c \in b + 1 .. Len(f) /\ b + r.size <= Len(f)
  BY <1>1, <1>2, GoodFrameEnds
<1>4. \A k \in 1 .. r.size : f[b + k] = [of |-> r, at |-> k]
  BY <1>1, <1>2, <1>3, FrameAhead
<1>5. f[c].of = r /\ f[c].at = r.size
  <2>1. r.size \in 1 .. r.size
    BY <1>2
  <2>2. f[c] = [of |-> r, at |-> r.size]
    BY <1>4, <2>1
  <2> QED BY <2>2
<1>6. EndsAt(f, c)
  BY <1>1, <1>3, <1>5 DEF EndsAt
<1>7. \A i \in b + 1 .. c - 1 : f[i].at # f[i].of.size
  <2> SUFFICES ASSUME NEW i \in b + 1 .. c - 1 PROVE f[i].at # f[i].of.size
    OBVIOUS
  <2>1. PICK k \in 1 .. r.size : i = b + k /\ k # r.size
    <3>1. i - b \in 1 .. r.size /\ i = b + (i - b) /\ i - b # r.size
      BY <1>1, <1>2
    <3> QED BY <3>1
  <2>2. f[i] = [of |-> r, at |-> k]
    BY <1>4, <2>1
  <2> QED BY <2>1, <2>2
<1>8. ASSUME Numbered(f) PROVE r.seq = NumberAt(f, b) + 1
  <2>1. f[b + 1].at = 1
    <3>1. 1 \in 1 .. r.size
      BY <1>2
    <3>2. f[b + 1] = [of |-> r, at |-> 1]
      BY <1>4, <3>1
    <3> QED BY <3>2
  <2>2. PICK i \in 1 .. Len(f) : i = b + 1 /\ i - 1 = b
    BY <1>1
  <2> QED BY <1>8, <2>1, <2>2 DEF Numbered
<1> QED BY <1>2, <1>3, <1>5, <1>6, <1>7, <1>8

\* Where no whole frame follows the scan stops, rightly.
LEMMA ScanStops ==
  ASSUME NEW f \in Seq(Unit), Framed(f),
         NEW b \in 0 .. Len(f), EndsAt(f, b), ~ GoodFrame(f, b)
  PROVE  Correct(f, b, [frames |-> <<>>, last_valid |-> b])
<1> DEFINE s == [frames |-> <<>>, last_valid |-> b]
<1>1. s.frames = <<>> /\ s.last_valid = b /\ Len(s.frames) = 0 /\ s.frames \in Seq(Record)
  OBVIOUS
<1> HIDE DEF s
<1>2. b \in Nat /\ Len(f) \in Nat /\ b \in b .. Len(f)
  OBVIOUS
<1>3. RightType(f, b, s)
  BY <1>1, <1>2 DEF RightType
<1>4. Found(f, b, s)
  BY <1>1 DEF Found
<1>5. ~ Missed(f, b, s)
  BY NoEndInATail DEF Missed
<1>6. NumberAt(f, b) \in Nat
  BY NumberIsNat
<1>7. Counted(f, b, s)
  BY <1>1, <1>6 DEF Counted
<1> QED BY <1>3, <1>4, <1>5, <1>7 DEF Correct, s

\* A whole frame before what was scanned rightly.
LEMMA ScanGoesOn ==
  ASSUME NEW f \in Seq(Unit), Framed(f),
         NEW b \in 0 .. Len(f), EndsAt(f, b), GoodFrame(f, b),
         NEW t, Correct(f, b + f[b + 1].of.size, t)
  PROVE  Correct(f, b, [frames     |-> <<f[b + 1].of>> \o t.frames,
                        last_valid |-> t.last_valid])
<1> DEFINE r == f[b + 1].of
           c == b + r.size
           s == [frames |-> <<r>> \o t.frames, last_valid |-> t.last_valid]
<1>1. /\ r \in Record /\ c \in b + 1 .. Len(f)
      /\ EndsAt(f, c) /\ f[c].of = r /\ f[c].at = r.size
      /\ \A i \in b + 1 .. c - 1 : f[i].at # f[i].of.size
      /\ Numbered(f) => r.seq = NumberAt(f, b) + 1
  BY WholeFrame
<1>2. s.frames = <<r>> \o t.frames /\ s.last_valid = t.last_valid
  OBVIOUS
<1>3. Correct(f, c, t)
  OBVIOUS
<1> HIDE DEF r, c, s
<1>4. b \in Nat /\ Len(f) \in Nat
  OBVIOUS
<1>5. t.frames \in Seq(Record)
  BY <1>3 DEF Correct, RightType
<1>6. /\ s.frames \in Seq(Record) /\ Len(s.frames) = Len(t.frames) + 1
      /\ s.frames[1] = r
      /\ \A k \in 1 .. Len(t.frames) : s.frames[k + 1] = t.frames[k]
      /\ Len(t.frames) \in Nat
  <2>1. <<r>> \in Seq(Record) /\ Len(<<r>>) = 1 /\ <<r>>[1] = r
    BY <1>1
  <2> QED BY <1>2, <1>5, <2>1, ConcatProperties
<1>7. \A k \in 1 .. Len(s.frames) :
        k = 1 \/ (k - 1 \in 1 .. Len(t.frames) /\ s.frames[k] = t.frames[k - 1])
  BY <1>6
<1>8. RightType(f, b, s)
  BY <1>1, <1>2, <1>3, <1>4, <1>6 DEF Correct, RightType
<1>9. ASSUME Numbered(f) PROVE Found(f, b, s) /\ ~ Missed(f, b, s) /\ Counted(f, b, s)
  <2>1. Found(f, c, t) /\ ~ Missed(f, c, t) /\ Counted(f, c, t)
    BY <1>3, <1>9 DEF Correct
  <2>2. NumberAt(f, b) \in Nat /\ NumberAt(f, c) = NumberAt(f, b) + 1 /\ r.seq = NumberAt(f, c)
    <3>1. NumberAt(f, b) \in Nat
      BY NumberIsNat
    <3>2. NumberAt(f, c) = r.seq
      BY <1>1, <1>4 DEF NumberAt
    <3> QED BY <1>1, <1>9, <3>1, <3>2
  <2>3. Found(f, b, s)
    <3> SUFFICES ASSUME NEW k \in 1 .. Len(s.frames)
                 PROVE  /\ s.frames[k].seq = NumberAt(f, b) + k
                        /\ \E i \in b + 1 .. Len(f) :
                             f[i].of = s.frames[k] /\ f[i].at = f[i].of.size
      BY DEF Found
    <3>1. CASE k = 1
      BY <1>1, <1>6, <2>2, <3>1
    <3>2. CASE k # 1
      <4>1. k - 1 \in 1 .. Len(t.frames) /\ s.frames[k] = t.frames[k - 1]
        BY <1>7, <3>2
      <4>2. /\ t.frames[k - 1].seq = NumberAt(f, c) + (k - 1)
            /\ \E i \in c + 1 .. Len(f) : f[i].of = t.frames[k - 1] /\ f[i].at = f[i].of.size
        BY <2>1, <4>1 DEF Found
      <4>3. \A i \in c + 1 .. Len(f) : i \in b + 1 .. Len(f)
        BY <1>1, <1>4
      <4>4. NumberAt(f, c) + (k - 1) = NumberAt(f, b) + k
        BY <2>2
      <4> QED BY <4>1, <4>2, <4>3, <4>4
    <3> QED BY <3>1, <3>2
  <2>4. ~ Missed(f, b, s)
    <3> SUFFICES ASSUME NEW i \in b + 1 .. Len(f), f[i].at = f[i].of.size
                 PROVE  \E k \in 1 .. Len(s.frames) :
                          f[i].of.seq = NumberAt(f, b) + k /\ s.frames[k] = f[i].of
      BY DEF Missed
    <3>1. i \notin b + 1 .. c - 1
      BY <1>1
    <3>2. CASE i = c
      <4>1. 1 \in 1 .. Len(s.frames)
        BY <1>6
      <4> QED BY <1>1, <1>6, <2>2, <3>2, <4>1
    <3>3. CASE i \in c + 1 .. Len(f)
      <4>1. PICK k \in 1 .. Len(t.frames) :
              f[i].of.seq = NumberAt(f, c) + k /\ t.frames[k] = f[i].of
        BY <2>1, <3>3 DEF Missed
      <4>2. k + 1 \in 1 .. Len(s.frames) /\ s.frames[k + 1] = t.frames[k]
        BY <1>6
      <4>3. NumberAt(f, c) + k = NumberAt(f, b) + (k + 1)
        BY <2>2
      <4> QED BY <4>1, <4>2, <4>3
    <3>4. i = c \/ i \in c + 1 .. Len(f)
      BY <1>1, <1>4, <3>1
    <3> QED BY <3>2, <3>3, <3>4
  <2>5. Counted(f, b, s)
    <3>1. NumberAt(f, c) + Len(t.frames) = NumberAt(f, s.last_valid)
      BY <1>2, <2>1 DEF Counted
    <3>2. NumberAt(f, c) + Len(t.frames) = NumberAt(f, b) + Len(s.frames)
      <4>1. Len(s.frames) = Len(t.frames) + 1 /\ Len(t.frames) \in Nat
        BY <1>6
      <4>2. NumberAt(f, b) \in Nat /\ NumberAt(f, c) = NumberAt(f, b) + 1
        BY <2>2
      <4> HIDE DEF NumberAt
      <4> QED BY <4>1, <4>2
    <3> QED BY <3>1, <3>2 DEF Counted
  <2> QED BY <2>3, <2>4, <2>5
<1> QED BY <1>8, <1>9 DEF Correct, r, c, s

\* The scan is correct from wherever a frame ends: the last place where it might
\* not be is none.
LEMMA ScanIsCorrect ==
  ASSUME NEW f \in Seq(Unit), Framed(f)
  PROVE  Correct(f, 0, Scan(f))
<1>1. PICK scan : Scans(f, scan) /\ Scan(f) = scan[0]
  BY ScanIsItsStart
<1> DEFINE P(b) == EndsAt(f, b) => Correct(f, b, scan[b])
           T == {k \in 0 .. Len(f) : ~ P(Len(f) - k)}
<1>2. Len(f) \in Nat
  OBVIOUS
<1>3. T = {}
  <2> SUFFICES ASSUME T # {} PROVE FALSE
    OBVIOUS
  <2>1. T \in SUBSET Nat
    OBVIOUS
  <2>2. PICK k \in T : \A j \in T : k <= j
    <3> HIDE DEF T
    <3> QED BY <2>1, LeastNat
  <2>3. PICK b \in 0 .. Len(f) : b = Len(f) - k
    BY <1>2
  <2>4. ~ P(b)
    BY <2>3
  <2>5. \A c \in b + 1 .. Len(f) : P(c)
    <3> SUFFICES ASSUME NEW c \in b + 1 .. Len(f) PROVE P(c)
      OBVIOUS
    <3>1. Len(f) - c \in 0 .. Len(f) /\ Len(f) - c < k /\ Len(f) - (Len(f) - c) = c
      BY <1>2, <2>3
    <3>2. Len(f) - c \notin T
      <4> HIDE DEF T
      <4> QED BY <1>2, <2>1, <2>2, <3>1
    <3> QED BY <3>1, <3>2
  <2> HIDE DEF T
  <2>6. EndsAt(f, b) /\ ~ Correct(f, b, scan[b])
    BY <2>4
  <2>7. scan[b] = Step(f, scan, b)
    BY <1>1 DEF Scans
  <2>8. CASE GoodFrame(f, b)
    <3>1. b + f[b + 1].of.size \in b + 1 .. Len(f) /\ EndsAt(f, b + f[b + 1].of.size)
      BY <2>6, <2>8, WholeFrame
    <3>2. Correct(f, b + f[b + 1].of.size, scan[b + f[b + 1].of.size])
      BY <2>5, <3>1
    <3> QED BY <2>6, <2>7, <2>8, <3>2, ScanGoesOn DEF Step
  <2>9. CASE ~ GoodFrame(f, b)
    BY <2>6, <2>7, <2>9, ScanStops DEF Step
  <2> QED BY <2>8, <2>9
<1>4. P(0)
  <2>1. Len(f) \in 0 .. Len(f) /\ Len(f) - Len(f) = 0
    BY <1>2
  <2> QED BY <1>3, <2>1
<1> QED BY <1>1, <1>4 DEF EndsAt

-----------------------------------------------------------------------------
(***************************************************************************)
(* What the scan finds in a file made of frames.                           *)
(***************************************************************************)
\* The last unit of the record's frame is in the file, and with it all others.
Holds(f, record) == \E i \in 1 .. Len(f) : f[i].of = record /\ f[i].at = f[i].of.size

\* The scan stops where the last frame ends.
LEMMA LastValidIsLastEnd ==
  ASSUME NEW f \in Seq(Unit), Framed(f)
  PROVE  /\ LastValid(f) \in 0 .. Len(f)
         /\ EndsAt(f, LastValid(f))
         /\ ~ GoodFrame(f, LastValid(f))
         /\ \A i \in 1 .. Len(f) : f[i].at = f[i].of.size => i <= LastValid(f)
<1>1. RightType(f, 0, Scan(f))
  BY ScanIsCorrect DEF Correct
<1>2. /\ LastValid(f) \in 0 .. Len(f)
      /\ EndsAt(f, LastValid(f)) /\ ~ GoodFrame(f, LastValid(f))
  BY <1>1 DEF RightType, LastValid
<1>3. \A i \in LastValid(f) + 1 .. Len(f) : f[i].at # f[i].of.size
  BY <1>2, NoEndInATail
<1>4. \A i \in 1 .. Len(f) : i <= LastValid(f) \/ i \in LastValid(f) + 1 .. Len(f)
  BY <1>2
<1> QED BY <1>2, <1>3, <1>4

LEMMA LogIsASequence ==
  ASSUME NEW f \in Seq(Unit), Framed(f)
  PROVE  /\ Log(f) \in Seq(Record) /\ DOMAIN Log(f) = 1 .. Len(Log(f))
         /\ Len(Log(f)) \in Nat
<1>1. Log(f) \in Seq(Record)
  BY ScanIsCorrect DEF Correct, RightType, Log
<1> QED BY <1>1, LenProperties

\* When the frames are numbered, the log holds under each number the record whose
\* frame ends in the file, and no other.
LEMMA LogIsWhatIsHeld ==
  ASSUME NEW f \in Seq(Unit), Framed(f), Numbered(f)
  PROVE  /\ Len(Log(f)) = NumberAt(f, LastValid(f))
         /\ \A k \in 1 .. Len(Log(f)) : Log(f)[k].seq = k /\ Holds(f, Log(f)[k])
         /\ \A record : Holds(f, record) =>
              record.seq \in 1 .. Len(Log(f)) /\ Log(f)[record.seq] = record
<1>1. Found(f, 0, Scan(f)) /\ ~ Missed(f, 0, Scan(f)) /\ Counted(f, 0, Scan(f))
  BY ScanIsCorrect DEF Correct
<1>2. Log(f) = Scan(f).frames /\ LastValid(f) = Scan(f).last_valid
  BY DEF Log, LastValid
<1>3. NumberAt(f, 0) = 0 /\ 0 + 1 = 1 /\ \A k \in 1 .. Len(Log(f)) : 0 + k = k
  BY DEF NumberAt
<1>4. Len(Log(f)) \in Nat
  BY LogIsASequence
<1>5. Len(Log(f)) = NumberAt(f, LastValid(f))
  <2>1. 0 + Len(Log(f)) = NumberAt(f, LastValid(f))
    BY <1>1, <1>2, <1>3 DEF Counted
  <2> HIDE DEF NumberAt
  <2> QED BY <1>4, <2>1
<1>6. \A k \in 1 .. Len(Log(f)) : Log(f)[k].seq = k /\ Holds(f, Log(f)[k])
  BY <1>1, <1>2, <1>3 DEF Found, Holds
<1>7. ASSUME NEW record, Holds(f, record)
      PROVE  record.seq \in 1 .. Len(Log(f)) /\ Log(f)[record.seq] = record
  <2>1. PICK i \in 1 .. Len(f) : f[i].of = record /\ f[i].at = f[i].of.size
    BY <1>7 DEF Holds
  <2>2. PICK k \in 1 .. Len(Log(f)) : record.seq = 0 + k /\ Log(f)[k] = record
    BY <1>1, <1>2, <1>3, <2>1 DEF Missed
  <2> QED BY <1>3, <2>2
<1> QED BY <1>5, <1>6, <1>7

LEMMA NumberedIsValid ==
  ASSUME NEW f \in Seq(Unit), Framed(f), Numbered(f)
  PROVE  ValidSequences(Log(f)) /\ LastSequence(Log(f)) = Len(Log(f))
<1>1. \A k \in 1 .. Len(Log(f)) : Log(f)[k].seq = k
  BY LogIsWhatIsHeld
<1>2. Log(f) \in Seq(Record) /\ DOMAIN Log(f) = 1 .. Len(Log(f)) /\ Len(Log(f)) \in Nat
  BY LogIsASequence
<1>3. ValidSequences(Log(f))
  BY <1>1, <1>2 DEF ValidSequences
<1>4. CASE Log(f) = <<>>
  BY <1>3, <1>4 DEF LastSequence
<1>5. CASE Log(f) # <<>>
  <2>1. Len(Log(f)) \in 1 .. Len(Log(f))
    BY <1>2, <1>5, EmptySeq
  <2>2. Last(Log(f)) = Log(f)[Len(Log(f))]
    BY DEF Last
  <2> QED BY <1>1, <1>3, <1>5, <2>1, <2>2 DEF LastSequence
<1> QED BY <1>4, <1>5

\* Where the scan stops there is at worst a torn tail.
LEMMA NeverCorrupt ==
  ASSUME NEW f \in Seq(Unit), Framed(f)
  PROVE  /\ "corrupt" \notin Verdicts(f)
         /\ "intact" \in Verdicts(f) => LastValid(f) = Len(f)
<1> DEFINE offset == LastValid(f)
           first  == f[offset + 1].of
           header == SubSeq(f, offset + 1, offset + HeaderSize)
<1>1. offset \in 0 .. Len(f) /\ EndsAt(f, offset) /\ ~ GoodFrame(f, offset)
  BY LastValidIsLastEnd
<1>2. Len(f) \in Nat /\ HeaderSize \in Nat /\ HeaderSize >= 1 /\ Rest(f, offset) = Len(f) - offset
  BY WalAssumption DEF Rest
<1>3. CASE Rest(f, offset) = 0
  <2>1. Rest(f, offset) \notin 1 .. HeaderSize - 1 /\ ~ Rest(f, offset) >= HeaderSize
    BY <1>2, <1>3
  <2>2. Verdicts(f) = {"intact"}
    BY <1>3, <2>1 DEF Verdicts
  <2> QED BY <1>1, <1>2, <1>3, <2>2
<1>4. CASE Rest(f, offset) \in 1 .. HeaderSize - 1
  <2>1. Rest(f, offset) # 0 /\ ~ Rest(f, offset) >= HeaderSize
    BY <1>2, <1>4
  <2>2. Verdicts(f) = {"torn"}
    BY <1>4, <2>1 DEF Verdicts
  <2> QED BY <2>2
<1>5. CASE Rest(f, offset) >= HeaderSize
  <2>1. Rest(f, offset) # 0 /\ Rest(f, offset) \notin 1 .. HeaderSize - 1
    BY <1>1, <1>2, <1>5
  <2>2. offset + 1 \in 1 .. Len(f) /\ offset < Len(f) /\ offset + HeaderSize <= Len(f)
    BY <1>1, <1>2, <1>5
  <2>3. first.size \in Nat /\ first.size > HeaderSize
    BY <2>2, UnitOf
  <2>4. first.size >= Rest(f, offset)
    <3>1. ~ (offset + first.size <= Len(f))
      BY <1>1, <2>2, WholeIfItFits
    <3> QED BY <1>1, <1>2, <2>3, <3>1
  <2>5. header = SubSeq(Frame(first), 1, HeaderSize)
    <3>1. \A i \in 1 .. HeaderSize : f[offset + i] = [of |-> first, at |-> i]
      <4> SUFFICES ASSUME NEW i \in 1 .. HeaderSize
                   PROVE  f[offset + i] = [of |-> first, at |-> i]
        OBVIOUS
      <4>1. i \in 1 .. first.size /\ offset + i <= Len(f)
        BY <1>1, <1>2, <2>2, <2>3
      <4> QED BY <1>1, <2>2, <4>1, FrameAhead
    <3>2. \A i \in 1 .. HeaderSize : Frame(first)[i] = [of |-> first, at |-> i]
      BY <1>2, <2>3 DEF Frame
    <3>3. header = [i \in 1 .. HeaderSize |-> f[offset + i]]
      <4>1. offset \in Nat /\ \A i \in 1 .. HeaderSize : f[offset + i] \in Unit
        <5>1. \A i \in 1 .. HeaderSize : offset + i \in 1 .. Len(f)
          BY <1>1, <1>2, <2>2
        <5> QED BY <1>1, <5>1, ElementOfSeq
      <4> HIDE DEF offset
      <4> QED BY <1>2, <4>1, PieceOf
    <3>4. SubSeq(Frame(first), 1, HeaderSize) = [i \in 1 .. HeaderSize |-> Frame(first)[i]]
      <4> DEFINE S == {Frame(first)[i] : i \in 1 .. HeaderSize}
      <4>1. 0 + 1 = 1 /\ 0 + HeaderSize = HeaderSize /\ \A i \in 1 .. HeaderSize : 0 + i = i
        BY <1>2
      <4>2. \A i \in 1 .. HeaderSize : Frame(first)[0 + i] \in S
        BY <4>1
      <4> HIDE DEF S, first
      <4>3. SubSeq(Frame(first), 0 + 1, 0 + HeaderSize)
              = [i \in 1 .. HeaderSize |-> Frame(first)[0 + i]]
        BY <1>2, <4>2, PieceOf
      <4> QED BY <4>1, <4>3
    <3> HIDE DEF header, first, offset
    <3> QED BY <3>1, <3>2, <3>3, <3>4
  <2>6. Verdicts(f) = {"torn"}
    BY <1>5, <2>1, <2>4, <2>5 DEF Verdicts
  <2> QED BY <2>6
<1>6. Rest(f, offset) = 0 \/ Rest(f, offset) \in 1 .. HeaderSize - 1 \/ Rest(f, offset) >= HeaderSize
  BY <1>1, <1>2
<1> QED BY <1>3, <1>4, <1>5, <1>6

-----------------------------------------------------------------------------
(***************************************************************************)
(* Files that are cut, and files that have the frames of another.          *)
(***************************************************************************)
\* `g` is what a cut leaves of `f`.
Cut(g, f) == Len(g) <= Len(f) /\ \A i \in 1 .. Len(g) : g[i] = f[i]

\* Every whole frame of `g` is in `f`, at its place.
Keeps(f, g) == LastValid(g) <= Len(f) /\ \A i \in 1 .. LastValid(g) : g[i] = f[i]

LEMMA FirstUnits ==
  ASSUME NEW f \in Seq(Unit), NEW n \in 0 .. Len(f)
  PROVE  /\ SubSeq(f, 1, n) \in Seq(Unit)
         /\ Len(SubSeq(f, 1, n)) = n
         /\ Cut(SubSeq(f, 1, n), f)
<1>1. n \in Nat /\ 0 + 1 = 1 /\ 0 + n = n /\ \A i \in 1 .. n : 0 + i = i
  OBVIOUS
<1>2. \A i \in 1 .. n : f[0 + i] \in Unit
  BY <1>1, ElementOfSeq
<1>3. /\ SubSeq(f, 0 + 1, 0 + n) \in Seq(Unit)
      /\ Len(SubSeq(f, 0 + 1, 0 + n)) = n
      /\ \A i \in 1 .. n : SubSeq(f, 0 + 1, 0 + n)[i] = f[0 + i]
  BY <1>1, <1>2, PieceOf
<1> QED BY <1>1, <1>3 DEF Cut

LEMMA PrefixIsCut ==
  ASSUME NEW f \in Seq(Unit), NEW g \in Seq(Unit)
  PROVE  IsPrefix(g, f) <=> Cut(g, f)
<1>1. Len(g) \in Nat /\ Len(f) \in Nat /\ g = SubSeq(g, 1, Len(g))
  BY SubSeqFull
<1>2. ASSUME IsPrefix(g, f) PROVE Cut(g, f)
  <2>1. Len(g) <= Len(f) /\ g = SubSeq(f, 1, Len(g))
    BY <1>1, <1>2 DEF IsPrefix
  <2>2. Len(g) \in 0 .. Len(f)
    BY <1>1, <2>1
  <2>3. Cut(SubSeq(f, 1, Len(g)), f)
    BY <2>2, FirstUnits
  <2> QED BY <2>1, <2>3
<1>3. ASSUME Cut(g, f) PROVE IsPrefix(g, f)
  <2>1. Len(g) \in 0 .. Len(f)
    BY <1>1, <1>3 DEF Cut
  <2> DEFINE h == SubSeq(f, 1, Len(g))
  <2>2. h \in Seq(Unit) /\ Len(h) = Len(g) /\ Cut(h, f)
    BY <2>1, FirstUnits
  <2> HIDE DEF h
  <2>3. \A i \in 1 .. Len(g) : g[i] = h[i]
    BY <1>3, <2>2 DEF Cut
  <2>4. g = h
    BY <2>2, <2>3, SeqEqual
  <2> QED BY <1>1, <1>3, <2>4 DEF IsPrefix, Cut, h
<1> QED BY <1>2, <1>3

\* What is left after a cut is still made of frames.
LEMMA CutIsFramed ==
  ASSUME NEW f \in Seq(Unit), Framed(f), NEW g \in Seq(Unit), Cut(g, f)
  PROVE  Framed(g) /\ (Numbered(f) => Numbered(g))
<1>1. /\ Len(g) \in Nat /\ Len(f) \in Nat
      /\ \A i \in 1 .. Len(g) : i \in 1 .. Len(f) /\ g[i] = f[i]
      /\ \A i \in 1 .. Len(g) : i # 1 => i - 1 \in 1 .. Len(g)
  BY DEF Cut
<1>2. Framed(g)
  <2> SUFFICES ASSUME NEW i \in 1 .. Len(g)
               PROVE  /\ g[i].at <= g[i].of.size
                      /\ g[i].at = 1 => EndsAt(g, i - 1)
                      /\ g[i].at # 1 =>
                           i > 1 /\ g[i - 1].of = g[i].of /\ g[i - 1].at + 1 = g[i].at
    BY DEF Framed
  <2>1. /\ f[i].at <= f[i].of.size
        /\ f[i].at = 1 => EndsAt(f, i - 1)
        /\ f[i].at # 1 => i > 1 /\ f[i - 1].of = f[i].of /\ f[i - 1].at + 1 = f[i].at
    BY <1>1 DEF Framed
  <2>2. CASE i = 1
    BY <1>1, <2>1, <2>2 DEF EndsAt
  <2>3. CASE i # 1
    <3>1. PICK j \in 1 .. Len(g) : j = i - 1
      BY <1>1, <2>3
    <3>2. g[i] = f[i] /\ g[j] = f[j] /\ j \in 1 .. Len(f)
      BY <1>1
    <3> QED BY <2>1, <3>1, <3>2 DEF EndsAt
  <2> QED BY <2>2, <2>3
<1>3. ASSUME Numbered(f) PROVE Numbered(g)
  <2> SUFFICES ASSUME NEW i \in 1 .. Len(g), g[i].at = 1
               PROVE  g[i].of.seq = NumberAt(g, i - 1) + 1
    BY DEF Numbered
  <2>1. f[i].of.seq = NumberAt(f, i - 1) + 1
    BY <1>1, <1>3 DEF Numbered
  <2>2. CASE i = 1
    BY <1>1, <2>1, <2>2 DEF NumberAt
  <2>3. CASE i # 1
    <3>1. PICK j \in 1 .. Len(g) : j = i - 1
      BY <1>1, <2>3
    <3>2. g[i] = f[i] /\ g[j] = f[j]
      BY <1>1
    <3> QED BY <2>1, <3>1, <3>2 DEF NumberAt
  <2> QED BY <2>2, <2>3
<1> QED BY <1>2, <1>3

\* Keeping the frames is what the prefix in the type invariant says.
LEMMA KeepsIsPrefix ==
  ASSUME NEW f \in Seq(Unit), NEW g \in Seq(Unit), Framed(g)
  PROVE  /\ IsPrefix(Repaired(g), f) <=> Keeps(f, g)
         /\ Repaired(g) \in Seq(Unit) /\ Len(Repaired(g)) = LastValid(g)
         /\ Cut(Repaired(g), g)
<1>1. LastValid(g) \in 0 .. Len(g)
  BY LastValidIsLastEnd
<1>2. /\ Repaired(g) \in Seq(Unit) /\ Len(Repaired(g)) = LastValid(g)
      /\ Cut(Repaired(g), g)
  BY <1>1, FirstUnits DEF Repaired
<1>3. \A i \in 1 .. LastValid(g) : Repaired(g)[i] = g[i]
  BY <1>2 DEF Cut
<1>4. Cut(Repaired(g), f) <=> Keeps(f, g)
  BY <1>2, <1>3 DEF Cut, Keeps
<1> QED BY <1>2, <1>4, PrefixIsCut

\* The frames of the one are among those of the other, and so are the records.
LEMMA KeepsTheLog ==
  ASSUME NEW f \in Seq(Unit), Framed(f), NEW g \in Seq(Unit), Framed(g), Keeps(f, g)
  PROVE  /\ LastValid(g) <= LastValid(f)
         /\ \A record : Holds(g, record) => Holds(f, record)
         /\ Numbered(f) /\ Numbered(g) =>
              /\ Len(Log(g)) <= Len(Log(f))
              /\ \A k \in 1 .. Len(Log(g)) : Log(g)[k] = Log(f)[k]
<1>1. /\ LastValid(g) \in 0 .. Len(g) /\ EndsAt(g, LastValid(g))
      /\ \A i \in 1 .. Len(g) : g[i].at = g[i].of.size => i <= LastValid(g)
  BY LastValidIsLastEnd
<1>2. /\ LastValid(f) \in 0 .. Len(f)
      /\ \A i \in 1 .. Len(f) : f[i].at = f[i].of.size => i <= LastValid(f)
  BY LastValidIsLastEnd
<1>3. \A i \in 1 .. LastValid(g) : i \in 1 .. Len(f) /\ i \in 1 .. Len(g) /\ g[i] = f[i]
  BY <1>1, <1>2 DEF Keeps
<1>4. LastValid(g) <= LastValid(f)
  <2>1. CASE LastValid(g) = 0
    BY <1>2, <2>1
  <2>2. CASE LastValid(g) # 0
    <3>1. LastValid(g) \in 1 .. LastValid(g)
      BY <1>1, <2>2
    <3>2. g[LastValid(g)].at = g[LastValid(g)].of.size
      BY <1>1, <2>2 DEF EndsAt
    <3> QED BY <1>2, <1>3, <3>1, <3>2
  <2> QED BY <2>1, <2>2
<1>5. \A record : Holds(g, record) => Holds(f, record)
  <2> SUFFICES ASSUME NEW record, Holds(g, record) PROVE Holds(f, record)
    OBVIOUS
  <2>1. PICK i \in 1 .. Len(g) : g[i].of = record /\ g[i].at = g[i].of.size
    BY DEF Holds
  <2>2. i \in 1 .. LastValid(g)
    BY <1>1, <2>1
  <2> QED BY <1>3, <2>1, <2>2 DEF Holds
<1>6. ASSUME Numbered(f), Numbered(g)
      PROVE  /\ Len(Log(g)) <= Len(Log(f))
             /\ \A k \in 1 .. Len(Log(g)) : Log(g)[k] = Log(f)[k]
  <2>1. \A k \in 1 .. Len(Log(g)) : k \in 1 .. Len(Log(f)) /\ Log(g)[k] = Log(f)[k]
    <3> SUFFICES ASSUME NEW k \in 1 .. Len(Log(g))
                 PROVE  k \in 1 .. Len(Log(f)) /\ Log(g)[k] = Log(f)[k]
      OBVIOUS
    <3>1. Log(g)[k].seq = k /\ Holds(g, Log(g)[k])
      BY <1>6, LogIsWhatIsHeld
    <3>2. Holds(f, Log(g)[k])
      BY <1>5, <3>1
    <3> QED BY <1>6, <3>1, <3>2, LogIsWhatIsHeld
  <2>2. Len(Log(g)) \in Nat /\ Len(Log(f)) \in Nat
    BY LogIsASequence
  <2>3. Len(Log(g)) <= Len(Log(f))
    <3>1. CASE Len(Log(g)) = 0
      BY <2>2, <3>1
    <3>2. CASE Len(Log(g)) # 0
      <4>1. Len(Log(g)) \in 1 .. Len(Log(g))
        BY <2>2, <3>2
      <4>2. Len(Log(g)) \in 1 .. Len(Log(f))
        BY <2>1, <4>1
      <4> QED BY <2>2, <4>2
    <3> QED BY <3>1, <3>2
  <2> QED BY <2>1, <2>3
<1> QED BY <1>4, <1>5, <1>6

\* Two files that keep each other's frames have the same log.
LEMMA SameLog ==
  ASSUME NEW f \in Seq(Unit), Framed(f), Numbered(f),
         NEW g \in Seq(Unit), Framed(g), Numbered(g), Keeps(f, g), Keeps(g, f)
  PROVE  Log(f) = Log(g)
<1>1. /\ Len(Log(g)) <= Len(Log(f)) /\ Len(Log(f)) <= Len(Log(g))
      /\ \A k \in 1 .. Len(Log(g)) : Log(g)[k] = Log(f)[k]
  BY KeepsTheLog
<1>2. /\ Log(f) \in Seq(Record) /\ Len(Log(f)) \in Nat
      /\ Log(g) \in Seq(Record) /\ Len(Log(g)) \in Nat
  BY LogIsASequence
<1>3. Len(Log(f)) = Len(Log(g))
  BY <1>1, <1>2
<1> QED BY <1>1, <1>2, <1>3, SeqEqual

\* A cut after the last whole frame, or at its end, loses none.
LEMMA CutKeeps ==
  ASSUME NEW f \in Seq(Unit), Framed(f), NEW g \in Seq(Unit), Cut(g, f)
  PROVE  /\ Keeps(f, g)
         /\ LastValid(f) <= Len(g) => Keeps(g, f)
         /\ \A h \in Seq(Unit) : Framed(h) /\ Keeps(f, h) /\ LastValid(h) <= Len(g) => Keeps(g, h)
<1>1. Framed(g)
  BY CutIsFramed
<1>2. LastValid(g) \in 0 .. Len(g) /\ LastValid(f) \in 0 .. Len(f)
  BY <1>1, LastValidIsLastEnd
<1>3. Len(g) \in Nat /\ Len(f) \in Nat
  OBVIOUS
<1>4. Keeps(f, g)
  BY <1>2, <1>3 DEF Keeps, Cut
<1>5. ASSUME LastValid(f) <= Len(g) PROVE Keeps(g, f)
  BY <1>2, <1>3, <1>5 DEF Keeps, Cut
<1>6. ASSUME NEW h \in Seq(Unit), Framed(h), Keeps(f, h), LastValid(h) <= Len(g)
      PROVE  Keeps(g, h)
  <2>1. LastValid(h) \in Nat
    BY <1>6, LastValidIsLastEnd
  <2> QED BY <1>3, <1>6, <2>1 DEF Keeps, Cut
<1> QED BY <1>4, <1>5, <1>6

\* What keeps the frames of a file keeps the frames of those it keeps.
LEMMA KeepsIsTransitive ==
  ASSUME NEW f \in Seq(Unit), Framed(f), NEW g \in Seq(Unit), Framed(g),
         NEW h \in Seq(Unit), Framed(h), Keeps(f, g), Keeps(g, h)
  PROVE  Keeps(f, h)
<1>1. LastValid(h) <= LastValid(g)
  BY KeepsTheLog
<1>2. LastValid(h) \in Nat /\ LastValid(g) \in Nat /\ Len(f) \in Nat
  BY LastValidIsLastEnd
<1>3. \A i \in 1 .. LastValid(h) : i \in 1 .. LastValid(g)
  BY <1>1, <1>2
<1> QED BY <1>1, <1>2, <1>3 DEF Keeps

-----------------------------------------------------------------------------
(***************************************************************************)
(* Writing a frame after the last, as far as a crash lets it.              *)
(***************************************************************************)
Extended(f, record, n) == f \o SubSeq(Frame(record), 1, n)

LEMMA RecordsHaveSizes ==
  ASSUME NEW record \in Record
  PROVE  /\ record.seq \in Nat \ {0} /\ record.size \in Nat
         /\ record.size > 1 /\ record.size > HeaderSize
<1>1. record.seq \in 1 .. MaxSequence /\ record.size \in Sizes
  BY DEF Record
<1> QED BY <1>1, WalAssumption

LEMMA ExtendedUnits ==
  ASSUME NEW f \in Seq(Unit), NEW record \in Record, NEW n \in 0 .. record.size
  PROVE  /\ Extended(f, record, n) \in Seq(Unit)
         /\ Len(Extended(f, record, n)) = Len(f) + n
         /\ \A i \in 1 .. Len(f) : Extended(f, record, n)[i] = f[i]
         /\ \A k \in 1 .. n : Extended(f, record, n)[Len(f) + k] = [of |-> record, at |-> k]
         /\ Cut(f, Extended(f, record, n))
<1> DEFINE tail == SubSeq(Frame(record), 1, n)
           h == Extended(f, record, n)
<1>1. n \in Nat /\ record.size \in Nat /\ Len(f) \in Nat
  BY RecordsHaveSizes
<1>2. 0 + 1 = 1 /\ 0 + n = n /\ \A k \in 1 .. n : 0 + k = k /\ k \in 1 .. record.size
  BY <1>1
<1>3. \A k \in 1 .. n : Frame(record)[0 + k] = [of |-> record, at |-> k]
  BY <1>2 DEF Frame
<1>4. \A k \in 1 .. n : Frame(record)[0 + k] \in Unit
  <2>1. \A k \in 1 .. n : [of |-> record, at |-> k] \in Unit
    BY <1>1 DEF Unit
  <2> QED BY <1>3, <2>1
<1>5. /\ SubSeq(Frame(record), 0 + 1, 0 + n) \in Seq(Unit)
      /\ Len(SubSeq(Frame(record), 0 + 1, 0 + n)) = n
      /\ \A k \in 1 .. n : SubSeq(Frame(record), 0 + 1, 0 + n)[k] = Frame(record)[0 + k]
  BY <1>1, <1>4, PieceOf
<1>6. tail \in Seq(Unit) /\ Len(tail) = n /\ \A k \in 1 .. n : tail[k] = [of |-> record, at |-> k]
  BY <1>2, <1>3, <1>5
<1>7. h = f \o tail
  BY DEF Extended
<1> HIDE DEF tail, h
<1>8. /\ h \in Seq(Unit) /\ Len(h) = Len(f) + n
      /\ \A i \in 1 .. Len(f) + n : h[i] = IF i <= Len(f) THEN f[i] ELSE tail[i - Len(f)]
  BY <1>6, <1>7, ConcatProperties
<1>9. \A i \in 1 .. Len(f) : h[i] = f[i]
  BY <1>1, <1>8
<1>10. \A k \in 1 .. n : h[Len(f) + k] = [of |-> record, at |-> k]
  <2> SUFFICES ASSUME NEW k \in 1 .. n PROVE h[Len(f) + k] = [of |-> record, at |-> k]
    OBVIOUS
  <2>1. /\ Len(f) + k \in 1 .. Len(f) + n /\ ~ (Len(f) + k <= Len(f))
        /\ Len(f) + k - Len(f) = k
    BY <1>1
  <2> QED BY <1>6, <1>8, <2>1
<1>11. Cut(f, h)
  BY <1>1, <1>8, <1>9 DEF Cut
<1> QED BY <1>8, <1>9, <1>10, <1>11 DEF h

\* However far the write gets, the file is made of frames; when it is done, the
\* file ends with the new one.
LEMMA ExtendedIsFramed ==
  ASSUME NEW f \in Seq(Unit), Framed(f), EndsAt(f, Len(f)),
         NEW record \in Record, NEW n \in 0 .. record.size
  PROVE  LET h == Extended(f, record, n)
         IN  /\ Framed(h)
             /\ EndsAt(h, Len(f))
             /\ n = record.size => EndsAt(h, Len(h)) /\ h[Len(h)].of = record /\ Holds(h, record)
             /\ n # record.size => LastValid(h) = Len(f)
             /\ Numbered(f) /\ record.seq = NumberAt(f, Len(f)) + 1 => Numbered(h)
<1> DEFINE h == Extended(f, record, n)
<1>1. /\ Len(f) \in Nat /\ n \in Nat /\ record.size \in Nat /\ record.size > 1
  BY RecordsHaveSizes
<1>2. /\ h \in Seq(Unit) /\ Len(h) = Len(f) + n
      /\ \A i \in 1 .. Len(f) : h[i] = f[i]
      /\ \A k \in 1 .. n : h[Len(f) + k] = [of |-> record, at |-> k]
  BY ExtendedUnits
<1> HIDE DEF h
<1>3. EndsAt(h, Len(f))
  BY <1>1, <1>2 DEF EndsAt
<1>4. ASSUME NEW i \in 1 .. Len(h), i \notin 1 .. Len(f)
      PROVE  \E k \in 1 .. n : i = Len(f) + k /\ h[i].of = record /\ h[i].at = k
  <2>1. i - Len(f) \in 1 .. n /\ i = Len(f) + (i - Len(f))
    BY <1>1, <1>2, <1>4
  <2>2. PICK k \in 1 .. n : i = Len(f) + k
    BY <2>1
  <2>3. h[i] = [of |-> record, at |-> k]
    BY <1>2, <2>2
  <2>4. h[i].of = record /\ h[i].at = k
    BY <2>3
  <2> QED BY <2>2, <2>4
<1>5. ASSUME NEW i \in 1 .. Len(f)
      PROVE  /\ h[i] = f[i]
             /\ i # 1 => h[i - 1] = f[i - 1]
             /\ EndsAt(h, i - 1) <=> EndsAt(f, i - 1)
             /\ NumberAt(h, i - 1) = NumberAt(f, i - 1)
  <2>1. h[i] = f[i] /\ (i # 1 => i - 1 \in 1 .. Len(f)) /\ (i = 1 => i - 1 = 0)
    BY <1>1, <1>2
  <2>2. CASE i = 1
    BY <2>1, <2>2 DEF EndsAt, NumberAt
  <2>3. CASE i # 1
    <3>1. PICK j \in 1 .. Len(f) : j = i - 1
      BY <2>1, <2>3
    <3>2. h[j] = f[j] /\ j \in 1 .. Len(h)
      BY <1>1, <1>2
    <3> QED BY <2>1, <2>3, <3>1, <3>2 DEF EndsAt, NumberAt
  <2> QED BY <2>2, <2>3
<1>6. ASSUME NEW k \in 1 .. n, k # 1
      PROVE  h[Len(f) + k - 1].of = record /\ h[Len(f) + k - 1].at + 1 = k
  <2>1. PICK j \in 1 .. n : j = k - 1
    BY <1>1, <1>6
  <2>2. Len(f) + k - 1 = Len(f) + j /\ j + 1 = k
    BY <1>1, <2>1
  <2>3. h[Len(f) + j] = [of |-> record, at |-> j]
    BY <1>2
  <2> QED BY <2>2, <2>3
<1>7. Framed(h)
  <2> SUFFICES ASSUME NEW i \in 1 .. Len(h)
               PROVE  /\ h[i].at <= h[i].of.size
                      /\ h[i].at = 1 => EndsAt(h, i - 1)
                      /\ h[i].at # 1 =>
                           i > 1 /\ h[i - 1].of = h[i].of /\ h[i - 1].at + 1 = h[i].at
    BY DEF Framed
  <2>1. CASE i \in 1 .. Len(f)
    <3>1. /\ f[i].at <= f[i].of.size
          /\ f[i].at = 1 => EndsAt(f, i - 1)
          /\ f[i].at # 1 => i > 1 /\ f[i - 1].of = f[i].of /\ f[i - 1].at + 1 = f[i].at
      BY <2>1 DEF Framed
    <3>2. f[i].at # 1 => i # 1
      BY <3>1
    <3> QED BY <1>5, <2>1, <3>1, <3>2
  <2>2. CASE i \notin 1 .. Len(f)
    <3>1. PICK k \in 1 .. n : i = Len(f) + k /\ h[i].of = record /\ h[i].at = k
      BY <1>4, <2>2
    <3>2. k = 1 => i - 1 = Len(f)
      BY <1>1, <3>1
    <3>3. k <= record.size /\ (k # 1 => i > 1)
      BY <1>1, <3>1
    <3> QED BY <1>3, <1>6, <3>1, <3>2, <3>3
  <2> QED BY <2>1, <2>2
<1>8. ASSUME n = record.size
      PROVE  EndsAt(h, Len(h)) /\ h[Len(h)].of = record /\ Holds(h, record)
  <2>1. n \in 1 .. n /\ Len(h) \in 1 .. Len(h)
    BY <1>1, <1>2, <1>8
  <2>2. h[Len(h)] = [of |-> record, at |-> record.size]
    BY <1>2, <1>8, <2>1
  <2>3. h[Len(h)].of = record /\ h[Len(h)].at = record.size
    BY <2>2
  <2> QED BY <2>1, <2>3 DEF EndsAt, Holds
<1>9. ASSUME n # record.size PROVE LastValid(h) = Len(f)
  <2>1. /\ LastValid(h) \in 0 .. Len(h) /\ EndsAt(h, LastValid(h))
        /\ \A i \in 1 .. Len(h) : h[i].at = h[i].of.size => i <= LastValid(h)
    BY <1>2, <1>7, LastValidIsLastEnd
  <2>2. \A i \in 1 .. Len(h) : i \notin 1 .. Len(f) => h[i].at # h[i].of.size
    <3> SUFFICES ASSUME NEW i \in 1 .. Len(h), i \notin 1 .. Len(f)
                 PROVE  h[i].at # h[i].of.size
      OBVIOUS
    <3>1. PICK k \in 1 .. n : i = Len(f) + k /\ h[i].of = record /\ h[i].at = k
      BY <1>4
    <3> QED BY <1>1, <1>9, <3>1
  <2>3. LastValid(h) <= Len(f)
    <3>1. CASE LastValid(h) = 0
      BY <1>1, <3>1
    <3>2. CASE LastValid(h) # 0
      <4>1. LastValid(h) \in 1 .. Len(h) /\ h[LastValid(h)].at = h[LastValid(h)].of.size
        BY <2>1, <3>2 DEF EndsAt
      <4>2. LastValid(h) \in 1 .. Len(f)
        BY <2>2, <4>1
      <4> QED BY <1>1, <4>2
    <3> QED BY <3>1, <3>2
  <2>4. Len(f) <= LastValid(h)
    <3>1. CASE Len(f) = 0
      BY <2>1, <3>1
    <3>2. CASE Len(f) # 0
      <4>1. Len(f) \in 1 .. Len(h) /\ h[Len(f)].at = h[Len(f)].of.size
        BY <1>1, <1>2, <1>3, <3>2 DEF EndsAt
      <4> QED BY <2>1, <4>1
    <3> QED BY <3>1, <3>2
  <2> QED BY <1>1, <2>1, <2>3, <2>4
<1>10. ASSUME Numbered(f), record.seq = NumberAt(f, Len(f)) + 1 PROVE Numbered(h)
  <2> SUFFICES ASSUME NEW i \in 1 .. Len(h), h[i].at = 1
               PROVE  h[i].of.seq = NumberAt(h, i - 1) + 1
    BY DEF Numbered
  <2>1. CASE i \in 1 .. Len(f)
    <3>1. f[i].at = 1 => f[i].of.seq = NumberAt(f, i - 1) + 1
      BY <1>10, <2>1 DEF Numbered
    <3> QED BY <1>5, <2>1, <3>1
  <2>2. CASE i \notin 1 .. Len(f)
    <3>1. PICK k \in 1 .. n : i = Len(f) + k /\ h[i].of = record /\ h[i].at = k
      BY <1>4, <2>2
    <3>2. k = 1 /\ i - 1 = Len(f)
      BY <1>1, <3>1
    <3>3. NumberAt(h, Len(f)) = NumberAt(f, Len(f))
      <4>1. CASE Len(f) = 0
        BY <4>1 DEF NumberAt
      <4>2. CASE Len(f) # 0
        <5>1. Len(f) \in 1 .. Len(f)
          BY <1>1, <4>2
        <5> QED BY <1>2, <5>1 DEF NumberAt
      <4> QED BY <4>1, <4>2
    <3> QED BY <1>10, <3>1, <3>2, <3>3
  <2> QED BY <2>1, <2>2
<1> QED BY <1>3, <1>7, <1>8, <1>9, <1>10 DEF h

-----------------------------------------------------------------------------
(***************************************************************************)
(* What a host crash leaves.                                               *)
(***************************************************************************)
\* The longest common prefix is at least as long as any other.
LEMMA SharedIsLongest ==
  ASSUME NEW f \in Seq(Unit), NEW g \in Seq(Unit), NEW p,
         p \in CommonPrefixes({f, g})
  PROVE  /\ Len(LongestCommonPrefix({f, g})) \in Nat
         /\ Len(p) <= Len(LongestCommonPrefix({f, g}))
<1> DEFINE C == CommonPrefixes({f, g})
           T == {n \in Nat : \E q \in C : n = Len(f) - Len(q)}
<1>1. Len(f) \in Nat
  OBVIOUS
<1>2. \A q \in C : Len(q) \in Nat /\ Len(q) <= Len(f)
  <2> SUFFICES ASSUME NEW q \in C PROVE Len(q) \in Nat /\ Len(q) <= Len(f)
    OBVIOUS
  <2>1. PICK s \in {f, g} : \E n \in 0 .. Len(s) : q = SubSeq(s, 1, n)
    BY DEF CommonPrefixes, Prefixes
  <2>2. PICK n \in 0 .. Len(s) : q = SubSeq(s, 1, n)
    BY <2>1
  <2>3. s \in Seq(Unit)
    OBVIOUS
  <2>4. q \in Seq(Unit) /\ Len(q) = n /\ n \in Nat
    BY <2>2, <2>3, FirstUnits
  <2>5. IsPrefix(q, f)
    BY DEF CommonPrefixes
  <2> QED BY <2>4, <2>5, PrefixIsCut DEF Cut
<1>3. \A q \in C : Len(f) - Len(q) \in T
  <2> HIDE DEF C
  <2>1. \A q \in C : Len(f) - Len(q) \in Nat
    BY <1>1, <1>2
  <2> QED BY <2>1
<1>4. PICK n \in T : \A m \in T : n <= m
  <2>1. T \in SUBSET Nat /\ Len(f) - Len(p) \in T
    BY <1>3
  <2> HIDE DEF T
  <2> QED BY <2>1, LeastNat
<1>5. PICK q \in C : n = Len(f) - Len(q)
  OBVIOUS
<1>6. \A other \in C : Len(other) <= Len(q)
  <2> SUFFICES ASSUME NEW other \in C PROVE Len(other) <= Len(q)
    OBVIOUS
  <2>1. Len(f) - Len(other) \in T
    BY <1>3
  <2>2. n <= Len(f) - Len(other)
    <3> HIDE DEF T
    <3> QED BY <1>4, <2>1
  <2> QED BY <1>1, <1>2, <1>5, <2>2
<1>7. /\ LongestCommonPrefix({f, g}) \in C
      /\ \A other \in C : Len(other) <= Len(LongestCommonPrefix({f, g}))
  <2> HIDE DEF C
  <2> QED BY <1>6 DEF LongestCommonPrefix, C
<1> HIDE DEF C, T
<1> QED BY <1>2, <1>7 DEF C

\* What survives is a cut of either version of the file, and the frames that
\* were fsynced are in it.
LEMMA SurvivorsKeep ==
  ASSUME disk \in Seq(Unit), Framed(disk),
         NEW f \in Seq(Unit), Framed(f), Keeps(f, disk),
         NEW g \in Survivors(f)
  PROVE  /\ g \in Seq(Unit)
         /\ Cut(g, f) \/ Cut(g, disk)
         /\ Framed(g) /\ Keeps(g, disk)
<1> DEFINE shared == Len(LongestCommonPrefix({f, disk}))
           p == Repaired(disk)
<1>1. LastValid(disk) \in 0 .. Len(disk) /\ Len(disk) \in Nat /\ Len(f) \in Nat
  BY LastValidIsLastEnd
<1>2. /\ p \in Seq(Unit) /\ Len(p) = LastValid(disk) /\ Cut(p, disk) /\ IsPrefix(p, f)
  BY KeepsIsPrefix
<1>3. IsPrefix(p, disk)
  BY <1>2, PrefixIsCut
<1>4. p \in Prefixes(disk)
  BY <1>1 DEF Prefixes, Repaired
<1> HIDE DEF p
<1>5. p \in CommonPrefixes({f, disk})
  BY <1>2, <1>3, <1>4 DEF CommonPrefixes
<1>6. shared \in Nat /\ LastValid(disk) <= shared
  BY <1>2, <1>5, SharedIsLongest
<1>7. CASE \E n \in shared .. Len(f) : g = SubSeq(f, 1, n)
  <2>1. PICK n \in shared .. Len(f) : g = SubSeq(f, 1, n)
    BY <1>7
  <2>2. n \in 0 .. Len(f) /\ LastValid(disk) <= n
    BY <1>1, <1>6
  <2>3. g \in Seq(Unit) /\ Len(g) = n /\ Cut(g, f)
    BY <2>1, <2>2, FirstUnits
  <2> QED BY <2>2, <2>3, CutIsFramed, CutKeeps
<1>8. CASE \E n \in shared .. Len(disk) : g = SubSeq(disk, 1, n)
  <2>1. PICK n \in shared .. Len(disk) : g = SubSeq(disk, 1, n)
    BY <1>8
  <2>2. n \in 0 .. Len(disk) /\ LastValid(disk) <= n
    BY <1>1, <1>6
  <2>3. g \in Seq(Unit) /\ Len(g) = n /\ Cut(g, disk)
    BY <2>1, <2>2, FirstUnits
  <2> QED BY <2>2, <2>3, CutIsFramed, CutKeeps
<1> QED BY <1>7, <1>8 DEF Survivors

-----------------------------------------------------------------------------
(***************************************************************************)
(* The inductive invariants.  Structure holds whatever fails; Numbering    *)
(* needs that no fsync does, since append() does not advance the sequence  *)
(* when its fsync fails and then numbers the next frame the same.          *)
(***************************************************************************)
Running == status \in {"open", "repairing"}

\* The file and what of it is on disk are made of frames, and the file has the
\* whole frames of the disk.
FramesOK(f, d) ==
  /\ f \in Seq(Unit) /\ d \in Seq(Unit)
  /\ Framed(f) /\ Framed(d)
  /\ Keeps(f, d)

\* The file ends with a frame unless a crash cut it and open() has not repaired
\* it, and only an open log is written.
Structure ==
  /\ FramesOK(file, disk)
  /\ status \in {"open", "repairing", "down", "refused"}
  /\ sequence \in Nat
  /\ writing \in [phase : {"write", "written"}, record : Record] \cup {Idle}
  /\ promised \in SUBSET Record
  /\ Running => EndsAt(file, Len(file))
  /\ writing # Idle => status = "open"

\* The number that the last frame of the file has, while the log is open.
LastWritten == IF writing.phase = "written" THEN writing.record.seq ELSE sequence

Numbering ==
  /\ Numbered(file) /\ Numbered(disk)
  /\ status = "open" => NumberAt(file, Len(file)) = LastWritten
  /\ writing # Idle => writing.record.seq = sequence + 1
  /\ writing.phase = "written" => Holds(file, writing.record)

\* What was promised was fsynced.
PromisesAreDurable == \A record \in promised : Holds(disk, record)

IInv == Structure /\ Numbering /\ PromisesAreDurable

\* The type invariant is part of the structure.
LEMMA StructureIsTyped ==
  ASSUME Structure
  PROVE  TypeOK
BY KeepsIsPrefix DEF Structure, FramesOK, TypeOK

\* An append is in progress, or none is.
LEMMA WritingPhases ==
  ASSUME Structure
  PROVE  /\ writing.phase \in {"write", "written"} =>
              /\ writing.record \in Record /\ writing # Idle /\ status = "open"
              /\ EndsAt(file, Len(file))
         /\ writing.phase \notin {"write", "written"} => writing = Idle
         /\ writing = Idle => writing.phase = "idle"
<1>1. Idle.phase = "idle"
  BY DEF Idle
<1>2. writing \in [phase : {"write", "written"}, record : Record] \/ writing = Idle
  BY DEF Structure
<1>3. CASE writing = Idle
  BY <1>1, <1>3
<1>4. CASE writing \in [phase : {"write", "written"}, record : Record]
  <2>1. writing.phase \in {"write", "written"} /\ writing.record \in Record
    BY <1>4
  <2>2. writing # Idle
    BY <1>1, <2>1
  <2> QED BY <2>1, <2>2 DEF Structure, Running
<1> QED BY <1>2, <1>3, <1>4

\* A file keeps its own frames, and longer versions of it do.
LEMMA FramesStay ==
  ASSUME NEW f \in Seq(Unit), Framed(f)
  PROVE  /\ FramesOK(f, f)
         /\ \A h \in Seq(Unit), d \in Seq(Unit) :
              Framed(h) /\ Cut(f, h) /\ FramesOK(f, d) => FramesOK(h, d)
<1>1. LastValid(f) \in 0 .. Len(f) /\ Len(f) \in Nat
  BY LastValidIsLastEnd
<1>2. FramesOK(f, f)
  BY <1>1 DEF FramesOK, Keeps
<1>3. ASSUME NEW h \in Seq(Unit), NEW d \in Seq(Unit),
             Framed(h), Cut(f, h), FramesOK(f, d)
      PROVE  FramesOK(h, d)
  <2>1. Keeps(h, f)
    BY <1>3, CutKeeps
  <2>2. Keeps(h, d)
    BY <1>3, <2>1, KeepsIsTransitive DEF FramesOK
  <2> QED BY <1>3, <2>2 DEF FramesOK
<1> QED BY <1>2, <1>3

\* What a crash makes of the write it interrupts.
LEMMA InterruptedIsFramed ==
  ASSUME Structure, NEW f \in Interrupted
  PROVE  /\ FramesOK(f, disk) /\ Cut(file, f)
         /\ Running /\ writing.phase # "write" => f = file
<1>1. file \in Seq(Unit) /\ Framed(file) /\ disk \in Seq(Unit) /\ FramesOK(file, disk)
  BY DEF Structure, FramesOK
<1>2. CASE writing.phase = "write"
  <2>1. writing.record \in Record /\ EndsAt(file, Len(file))
    BY <1>2, WritingPhases
  <2>2. PICK n \in 0 .. writing.record.size : f = Extended(file, writing.record, n)
    BY <1>2 DEF Interrupted, AfterWriting, Extended
  <2>3. f \in Seq(Unit) /\ Cut(file, f)
    BY <1>1, <2>1, <2>2, ExtendedUnits
  <2>4. Framed(f)
    BY <1>1, <2>1, <2>2, ExtendedIsFramed
  <2> QED BY <1>1, <1>2, <2>3, <2>4, FramesStay
<1>3. CASE writing.phase # "write"
  <2>1. f = file
    BY <1>3 DEF Interrupted
  <2> QED BY <1>1, <2>1 DEF Cut
<1> QED BY <1>2, <1>3

LEMMA LogHoldsRecords ==
  ASSUME NEW f \in Seq(Unit), Framed(f)
  PROVE  ToSet(Log(f)) \in SUBSET Record
<1>1. Log(f) \in Seq(Record) /\ DOMAIN Log(f) = 1 .. Len(Log(f))
  BY LogIsASequence
<1>2. \A k \in 1 .. Len(Log(f)) : Log(f)[k] \in Record
  BY <1>1, ElementOfSeq
<1> QED BY <1>1, <1>2 DEF ToSet

\* Opening a file from a place where a frame ends.
LEMMA StartFromHasSequence ==
  ASSUME NEW f \in Seq(Unit), Framed(f), sequence \in Nat, StartFrom(f)
  PROVE  sequence' \in Nat /\ status' \in {"open", "refused"}
<1>1. Log(f) \in Seq(Record) /\ DOMAIN Log(f) = 1 .. Len(Log(f)) /\ Len(Log(f)) \in Nat
  BY LogIsASequence
<1>2. ASSUME Log(f) # <<>> PROVE Last(Log(f)).seq \in Nat
  <2>1. Len(Log(f)) \in 1 .. Len(Log(f))
    BY <1>1, <1>2, EmptySeq
  <2>2. Last(Log(f)) \in Record
    BY <1>1, <2>1, ElementOfSeq DEF Last
  <2> QED BY <2>2, RecordsHaveSizes
<1>3. LastSequence(Log(f)) \in Nat
  BY <1>2 DEF LastSequence
<1> QED BY <1>3 DEF StartFrom

-----------------------------------------------------------------------------
\* The empty log is made of no frames.
LEMMA InitStructure ==
  Init => Structure
<1> SUFFICES ASSUME Init PROVE Structure
  OBVIOUS
<1>1. file = <<>> /\ disk = <<>> /\ Len(<<>>) = 0 /\ <<>> \in Seq(Unit)
  BY DEF Init
<1>2. Framed(<<>>) /\ EndsAt(<<>>, Len(<<>>))
  BY <1>1 DEF Framed, EndsAt
<1>3. FramesOK(file, disk)
  BY <1>1, <1>2, FramesStay
<1> QED BY <1>1, <1>2, <1>3 DEF Init, Structure, Idle

\* Every step leaves files that are made of frames.
LEMMA NextStructure ==
  Structure /\ [Next]_vars => Structure'
<1> SUFFICES ASSUME Structure, [Next]_vars PROVE Structure'
  OBVIOUS
<1>1. /\ file \in Seq(Unit) /\ Framed(file) /\ disk \in Seq(Unit) /\ Framed(disk)
      /\ FramesOK(file, disk) /\ FramesOK(file, file)
      /\ sequence \in Nat /\ promised \in SUBSET Record
  BY FramesStay DEF Structure, FramesOK
<1>2. Idle.phase = "idle" /\ Idle \in [phase : {"write", "written"}, record : Record] \cup {Idle}
  BY DEF Idle
<1>3. promised \cup ToSet(Log(file)) \in SUBSET Record
  BY <1>1, LogHoldsRecords
<1>4. CASE BeginAppend
  <2>1. PICK size \in Sizes :
          writing' = [phase |-> "write", record |-> [seq |-> sequence + 1, size |-> size]]
    BY <1>4 DEF BeginAppend
  <2>2. sequence + 1 \in 1 .. MaxSequence
    BY <1>1, <1>4, WalAssumption DEF BeginAppend
  <2>3. [seq |-> sequence + 1, size |-> size] \in Record
    BY <2>2 DEF Record
  <2>4. writing' \in [phase : {"write", "written"}, record : Record]
    BY <2>1, <2>3
  <2> QED BY <1>4, <2>4 DEF BeginAppend, Structure, Running
<1>5. CASE Write
  <2>1. writing.phase = "write" /\ file' = AfterWriting(writing.record.size)
    BY <1>5 DEF Write
  <2>2. writing.record \in Record /\ status = "open" /\ EndsAt(file, Len(file)) /\ writing # Idle
    BY <2>1, WritingPhases
  <2>3. file' = Extended(file, writing.record, writing.record.size)
    BY <2>1 DEF AfterWriting, Extended
  <2>4. writing.record.size \in 0 .. writing.record.size
    BY <2>2, RecordsHaveSizes
  <2>5. file' \in Seq(Unit) /\ Cut(file, file')
    BY <1>1, <2>2, <2>3, <2>4, ExtendedUnits
  <2>6. Framed(file') /\ EndsAt(file', Len(file'))
    BY <1>1, <2>2, <2>3, <2>4, ExtendedIsFramed
  <2>7. FramesOK(file', disk)
    BY <1>1, <2>5, <2>6, FramesStay
  <2>8. writing' \in [phase : {"write", "written"}, record : Record]
    BY <1>2, <1>5, <2>2 DEF Structure, Write
  <2> QED BY <1>5, <2>2, <2>6, <2>7, <2>8 DEF Write, Structure, Running
<1>6. CASE EndAppend
  <2>1. writing.record \in Record /\ status = "open"
    BY <1>6, WritingPhases DEF EndAppend
  <2>2. writing.record.seq \in Nat
    BY <2>1, RecordsHaveSizes
  <2>3. FramesOK(file, disk') /\ sequence' \in Nat /\ promised' \in SUBSET Record
    BY <1>1, <1>6, <2>1, <2>2 DEF EndAppend, Returns, Raises, FsyncedByAppend
  <2> QED BY <1>6, <2>3 DEF EndAppend, Structure, Running
<1>7. CASE Flush
  BY <1>1, <1>3, <1>7 DEF Flush, Structure, Running
<1>8. CASE Close
  BY <1>1, <1>2, <1>3, <1>8 DEF Close, ForgetMemory, Structure, Running
<1>9. CASE ProcessCrash
  <2>1. FramesOK(file', disk)
    BY <1>9, InterruptedIsFramed DEF ProcessCrash
  <2> QED BY <1>1, <1>2, <1>9, <2>1 DEF ProcessCrash, ForgetMemory, Structure, Running
<1>10. CASE HostCrash
  <2>1. PICK f \in Interrupted : file' \in Survivors(f)
    BY <1>10 DEF HostCrash
  <2>2. f \in Seq(Unit) /\ Framed(f) /\ Keeps(f, disk)
    BY InterruptedIsFramed DEF FramesOK
  <2>3. file' \in Seq(Unit) /\ Framed(file')
    BY <1>1, <2>1, <2>2, SurvivorsKeep
  <2>4. FramesOK(file', file')
    BY <2>3, FramesStay
  <2> QED BY <1>1, <1>2, <1>10, <2>4 DEF HostCrash, ForgetMemory, Structure, Running
<1>11. CASE Open
  <2>1. status = "down" /\ writing = Idle
    BY <1>11 DEF Open, Structure
  <2>2. CASE "intact" \in Verdicts(file) /\ StartFrom(file) /\ UNCHANGED file
    <3>1. LastValid(file) = Len(file) /\ EndsAt(file, LastValid(file))
      BY <1>1, <2>2, NeverCorrupt, LastValidIsLastEnd
    <3>2. sequence' \in Nat /\ status' \in {"open", "refused"}
      BY <1>1, <2>2, StartFromHasSequence
    <3> QED BY <1>1, <1>11, <2>1, <2>2, <3>1, <3>2 DEF Open, Structure, Running
  <2>3. CASE file' = Repaired(file) /\ status' = "repairing" /\ UNCHANGED sequence
    <3>1. LastValid(file) \in 0 .. Len(file) /\ EndsAt(file, LastValid(file))
      BY <1>1, LastValidIsLastEnd
    <3>2. file' \in Seq(Unit) /\ Len(file') = LastValid(file) /\ Cut(file', file)
      BY <1>1, <2>3, KeepsIsPrefix
    <3>3. Framed(file')
      BY <1>1, <3>2, CutIsFramed
    <3>4. LastValid(disk) <= Len(file')
      BY <1>1, <3>2, KeepsTheLog DEF FramesOK
    <3>5. FramesOK(file', disk)
      BY <1>1, <3>2, <3>3, <3>4, CutKeeps DEF FramesOK
    <3>6. EndsAt(file', Len(file'))
      <4>1. CASE Len(file') = 0
        BY <4>1 DEF EndsAt
      <4>2. CASE Len(file') # 0
        <5>1. Len(file') \in 1 .. Len(file')
          BY <3>2, <4>2
        <5>2. file'[Len(file')] = file[Len(file')]
          BY <3>2, <5>1 DEF Cut
        <5> QED BY <3>1, <3>2, <4>2, <5>1, <5>2 DEF EndsAt
      <4> QED BY <4>1, <4>2
    <3> QED BY <1>1, <1>11, <2>1, <2>3, <3>5, <3>6 DEF Open, Structure, Running
  <2>4. CASE status' = "refused" /\ UNCHANGED <<file, sequence>>
    BY <1>1, <1>11, <2>1, <2>4 DEF Open, Structure, Running
  <2> QED BY <1>11, <2>2, <2>3, <2>4 DEF Open
<1>12. CASE OpenRepaired
  <2>1. EndsAt(file, Len(file)) /\ writing = Idle
    BY <1>12 DEF OpenRepaired, Structure, Running
  <2>2. sequence' \in Nat /\ status' \in {"open", "refused"}
    BY <1>1, <1>12, StartFromHasSequence DEF OpenRepaired
  <2> QED BY <1>1, <1>12, <2>1, <2>2 DEF OpenRepaired, Structure, Running
<1>13. CASE UNCHANGED vars
  BY <1>13 DEF vars, Structure, Running
<1> QED
  BY <1>4, <1>5, <1>6, <1>7, <1>8, <1>9, <1>10, <1>11, <1>12, <1>13 DEF Next

-----------------------------------------------------------------------------
(***************************************************************************)
(* The numbers of the frames.                                              *)
(***************************************************************************)
\* Where the file ends with a frame, nothing is left after the last.
LEMMA EndIsLastValid ==
  ASSUME NEW f \in Seq(Unit), Framed(f), EndsAt(f, Len(f))
  PROVE  LastValid(f) = Len(f)
<1>1. /\ LastValid(f) \in 0 .. Len(f) /\ Len(f) \in Nat
      /\ \A i \in 1 .. Len(f) : f[i].at = f[i].of.size => i <= LastValid(f)
  BY LastValidIsLastEnd
<1>2. CASE Len(f) = 0
  BY <1>1, <1>2
<1>3. CASE Len(f) # 0
  <2>1. Len(f) \in 1 .. Len(f) /\ f[Len(f)].at = f[Len(f)].of.size
    BY <1>1, <1>3 DEF EndsAt
  <2> QED BY <1>1, <2>1
<1> QED BY <1>2, <1>3

\* The frame being written has the next number.
LEMMA NextNumber ==
  ASSUME Structure, Numbering, writing.phase = "write"
  PROVE  /\ writing.record \in Record /\ status = "open" /\ EndsAt(file, Len(file))
         /\ NumberAt(file, Len(file)) = sequence
         /\ writing.record.seq = NumberAt(file, Len(file)) + 1
<1>1. writing.record \in Record /\ writing # Idle /\ status = "open" /\ EndsAt(file, Len(file))
  BY WritingPhases
<1>2. LastWritten = sequence
  BY DEF LastWritten
<1> QED BY <1>1, <1>2 DEF Numbering

LEMMA InterruptedIsNumbered ==
  ASSUME Structure, Numbering, NEW f \in Interrupted
  PROVE  Numbered(f)
<1>1. file \in Seq(Unit) /\ Framed(file) /\ Numbered(file)
  BY DEF Structure, FramesOK, Numbering
<1>2. CASE writing.phase = "write"
  <2>1. PICK n \in 0 .. writing.record.size : f = Extended(file, writing.record, n)
    BY <1>2 DEF Interrupted, AfterWriting, Extended
  <2> QED BY <1>1, <1>2, <2>1, NextNumber, ExtendedIsFramed
<1>3. CASE writing.phase # "write"
  BY <1>1, <1>3 DEF Interrupted
<1> QED BY <1>2, <1>3

\* open() finds the number of the last frame.
LEMMA StartFromTheLast ==
  ASSUME NEW f \in Seq(Unit), Framed(f), Numbered(f), LastValid(f) = Len(f), StartFrom(f)
  PROVE  status' = "open" /\ sequence' = NumberAt(f, Len(f)) /\ sequence' = Len(Log(f))
BY NumberedIsValid, LogIsWhatIsHeld DEF StartFrom

LEMMA InitNumbering ==
  Init => Numbering
<1> SUFFICES ASSUME Init PROVE Numbering
  OBVIOUS
<1>1. file = <<>> /\ disk = <<>> /\ Len(<<>>) = 0 /\ writing = Idle /\ sequence = 0
  BY DEF Init
<1>2. Numbered(<<>>) /\ NumberAt(<<>>, 0) = 0
  BY <1>1 DEF Numbered, NumberAt
<1> QED BY <1>1, <1>2 DEF Numbering, LastWritten, Idle

\* As long as no fsync fails, the frames are numbered from 1 on, and an open log
\* knows the number of the last.
LEMMA NextNumbering ==
  ASSUME ~ FsyncFails, Structure, Numbering, [Next]_vars
  PROVE  Numbering'
<1>1. /\ file \in Seq(Unit) /\ Framed(file) /\ disk \in Seq(Unit) /\ Framed(disk)
      /\ Keeps(file, disk) /\ Numbered(file) /\ Numbered(disk) /\ sequence \in Nat
  BY DEF Structure, FramesOK, Numbering
<1>2. Idle.phase = "idle"
  BY DEF Idle
<1>3. CASE BeginAppend
  <2>1. PICK size \in Sizes :
          writing' = [phase |-> "write", record |-> [seq |-> sequence + 1, size |-> size]]
    BY <1>3 DEF BeginAppend
  <2>2. writing'.phase = "write" /\ writing'.record.seq = sequence + 1
    BY <2>1
  <2>3. LastWritten = sequence /\ LastWritten' = sequence
    BY <1>2, <1>3, <2>2 DEF LastWritten, BeginAppend
  <2> QED BY <1>3, <2>2, <2>3 DEF Numbering, BeginAppend
<1>4. CASE Write
  <2>1. writing.phase = "write" /\ file' = Extended(file, writing.record, writing.record.size)
    BY <1>4 DEF Write, AfterWriting, Extended
  <2>2. /\ writing.record \in Record /\ status = "open" /\ EndsAt(file, Len(file))
        /\ writing.record.seq = NumberAt(file, Len(file)) + 1
        /\ writing.record.seq = sequence + 1
    BY <2>1, NextNumber
  <2>3. writing.record.size \in 0 .. writing.record.size /\ writing.record.size > 1
    BY <2>2, RecordsHaveSizes
  <2>4. /\ file'[Len(file')].of = writing.record /\ Holds(file', writing.record)
        /\ Numbered(file')
    BY <1>1, <2>1, <2>2, <2>3, ExtendedIsFramed
  <2>5. Len(file') # 0
    <3>1. Len(file') = Len(file) + writing.record.size /\ Len(file) \in Nat
      BY <1>1, <2>1, <2>2, <2>3, ExtendedUnits
    <3> QED BY <2>3, <3>1
  <2>6. NumberAt(file', Len(file')) = writing.record.seq
    BY <2>4, <2>5 DEF NumberAt
  <2>7. writing'.phase = "written" /\ writing'.record = writing.record
    <3>1. writing \in [phase : {"write", "written"}, record : Record]
      BY <1>2, <2>1 DEF Structure
    <3> QED BY <1>4, <3>1 DEF Write
  <2>8. LastWritten' = writing.record.seq
    BY <2>7 DEF LastWritten
  <2> QED BY <1>1, <1>4, <2>2, <2>4, <2>6, <2>7, <2>8 DEF Write, Numbering
<1>5. CASE EndAppend
  <2>1. writing.phase = "written" /\ status = "open"
    BY <1>5, WritingPhases DEF EndAppend
  <2>2. NumberAt(file, Len(file)) = writing.record.seq
    BY <2>1 DEF Numbering, LastWritten
  <2>3. sequence' = writing.record.seq /\ Numbered(disk')
    BY <1>1, <1>5 DEF EndAppend, Returns, Raises, FsyncedByAppend
  <2>4. writing' = Idle /\ UNCHANGED <<file, status>>
    BY <1>5 DEF EndAppend
  <2>5. LastWritten' = sequence'
    BY <1>2, <2>4 DEF LastWritten
  <2> QED BY <1>1, <1>2, <2>2, <2>3, <2>4, <2>5 DEF Numbering
<1>6. CASE Flush
  BY <1>1, <1>6 DEF Flush, Numbering, LastWritten
<1>7. CASE Close
  BY <1>1, <1>2, <1>7 DEF Close, ForgetMemory, Numbering
<1>8. CASE ProcessCrash
  <2>1. Numbered(file')
    BY <1>8, InterruptedIsNumbered DEF ProcessCrash
  <2> QED BY <1>1, <1>2, <1>8, <2>1 DEF ProcessCrash, ForgetMemory, Numbering
<1>9. CASE HostCrash
  <2>1. PICK f \in Interrupted : file' \in Survivors(f)
    BY <1>9 DEF HostCrash
  <2>2. f \in Seq(Unit) /\ Framed(f) /\ Keeps(f, disk) /\ Numbered(f)
    BY InterruptedIsFramed, InterruptedIsNumbered DEF FramesOK
  <2>3. file' \in Seq(Unit) /\ (Cut(file', f) \/ Cut(file', disk))
    BY <1>1, <2>1, <2>2, SurvivorsKeep
  <2>4. Numbered(file')
    BY <1>1, <2>2, <2>3, CutIsFramed
  <2> QED BY <1>2, <1>9, <2>4 DEF HostCrash, ForgetMemory, Numbering
<1>10. CASE Open
  <2>1. status = "down" /\ writing = Idle /\ UNCHANGED <<disk, writing>>
    BY <1>10 DEF Open, Structure
  <2>2. CASE "intact" \in Verdicts(file) /\ StartFrom(file) /\ UNCHANGED file
    <3>1. LastValid(file) = Len(file)
      BY <1>1, <2>2, NeverCorrupt
    <3>2. sequence' = NumberAt(file, Len(file))
      BY <1>1, <2>2, <3>1, StartFromTheLast
    <3>3. LastWritten' = sequence'
      BY <1>2, <2>1 DEF LastWritten
    <3> QED BY <1>1, <1>2, <2>1, <2>2, <3>2, <3>3 DEF Numbering
  <2>3. CASE file' = Repaired(file) /\ status' = "repairing" /\ UNCHANGED sequence
    <3>1. Numbered(file')
      BY <1>1, <2>3, KeepsIsPrefix, CutIsFramed
    <3> QED BY <1>1, <1>2, <2>1, <2>3, <3>1 DEF Numbering
  <2>4. CASE status' = "refused" /\ UNCHANGED <<file, sequence>>
    BY <1>1, <1>2, <2>1, <2>4 DEF Numbering
  <2> QED BY <1>10, <2>2, <2>3, <2>4 DEF Open
<1>11. CASE OpenRepaired
  <2>1. EndsAt(file, Len(file)) /\ writing = Idle /\ UNCHANGED <<file, writing>> /\ disk' = file
    BY <1>11 DEF OpenRepaired, Structure, Running
  <2>2. LastValid(file) = Len(file)
    BY <1>1, <2>1, EndIsLastValid
  <2>3. sequence' = NumberAt(file, Len(file))
    BY <1>1, <1>11, <2>2, StartFromTheLast DEF OpenRepaired
  <2>4. LastWritten' = sequence'
    BY <1>2, <2>1 DEF LastWritten
  <2> QED BY <1>1, <1>2, <2>1, <2>3, <2>4 DEF Numbering
<1>12. CASE UNCHANGED vars
  BY <1>12 DEF vars, Numbering, LastWritten
<1> QED
  BY <1>3, <1>4, <1>5, <1>6, <1>7, <1>8, <1>9, <1>10, <1>11, <1>12 DEF Next

-----------------------------------------------------------------------------
(***************************************************************************)
(* What was promised.                                                      *)
(***************************************************************************)
\* A record is promised once it is fsynced, and no step takes an fsynced frame
\* away.
LEMMA NextPromises ==
  ASSUME ~ FsyncFails, Structure, Numbering, PromisesAreDurable, [Next]_vars
  PROVE  PromisesAreDurable'
<1>1. /\ file \in Seq(Unit) /\ Framed(file) /\ disk \in Seq(Unit) /\ Framed(disk)
      /\ Keeps(file, disk) /\ Numbered(file)
  BY DEF Structure, FramesOK, Numbering
<1>2. \A record \in promised : Holds(disk, record) /\ Holds(file, record)
  BY <1>1, KeepsTheLog DEF PromisesAreDurable
<1>3. \A record \in ToSet(Log(file)) : Holds(file, record)
  <2>1. DOMAIN Log(file) = 1 .. Len(Log(file))
    BY <1>1, LogIsASequence
  <2> QED BY <1>1, <2>1, LogIsWhatIsHeld DEF ToSet
<1>4. CASE EndAppend
  <2>1. Holds(file, writing.record)
    BY <1>4 DEF EndAppend, Numbering
  <2>2. CASE Durability = "always"
    <3>1. disk' = file /\ promised' = promised \cup {writing.record}
      BY <1>4, <2>2 DEF EndAppend, Returns, Raises, FsyncedByAppend
    <3> QED BY <1>2, <2>1, <3>1 DEF PromisesAreDurable
  <2>3. CASE Durability # "always"
    <3>1. disk' = disk /\ promised' = promised
      BY <1>4, <2>3 DEF EndAppend, Returns, Raises, FsyncedByAppend
    <3> QED BY <1>2, <3>1 DEF PromisesAreDurable
  <2> QED BY <2>2, <2>3
<1>5. CASE Flush \/ Close
  <2>1. disk' = file /\ promised' = promised \cup ToSet(Log(file))
    BY <1>5 DEF Flush, Close
  <2> QED BY <1>2, <1>3, <2>1 DEF PromisesAreDurable
<1>6. CASE HostCrash
  <2>1. PICK f \in Interrupted : file' \in Survivors(f)
    BY <1>6 DEF HostCrash
  <2>2. f \in Seq(Unit) /\ Framed(f) /\ Keeps(f, disk)
    BY InterruptedIsFramed DEF FramesOK
  <2>3. file' \in Seq(Unit) /\ Framed(file') /\ Keeps(file', disk)
    BY <1>1, <2>1, <2>2, SurvivorsKeep
  <2>4. \A record : Holds(disk, record) => Holds(file', record)
    BY <1>1, <2>3, KeepsTheLog
  <2>5. disk' = file' /\ promised' = promised
    BY <1>6 DEF HostCrash
  <2> QED BY <1>2, <2>4, <2>5 DEF PromisesAreDurable
<1>7. CASE OpenRepaired
  BY <1>2, <1>7 DEF OpenRepaired, PromisesAreDurable
<1>8. CASE BeginAppend \/ Write \/ ProcessCrash \/ Open \/ UNCHANGED vars
  <2>1. disk' = disk /\ promised' = promised
    BY <1>8 DEF BeginAppend, Write, ProcessCrash, Open, vars
  <2> QED BY <2>1 DEF PromisesAreDurable
<1> QED
  BY <1>4, <1>5, <1>6, <1>7, <1>8 DEF Next

-----------------------------------------------------------------------------
(***************************************************************************)
(* The theorems.                                                           *)
(***************************************************************************)
\* The structure holds whatever fails.
LEMMA StructureAlways ==
  Spec => []Structure
BY InitStructure, NextStructure, PTL DEF Spec

LEMMA InitIInv ==
  Init => IInv
BY InitStructure, InitNumbering DEF Init, IInv, PromisesAreDurable

LEMMA NextIInv ==
  ~ FsyncFails => (IInv /\ [Next]_vars => IInv')
BY NextStructure, NextNumbering, NextPromises DEF IInv

\* The invariant is inductive as long as no fsync fails.
LEMMA IInvAlways ==
  ASSUME ~ FsyncFails
  PROVE  Spec => []IInv
<1>1. Init => IInv
  BY InitIInv
<1>2. IInv /\ [Next]_vars => IInv'
  BY NextIInv
<1> QED BY <1>1, <1>2, PTL DEF Spec

\* The files hold units of frames, and the file every whole frame that is durable:
\* nothing that append(), a crash or a repair does takes an fsynced frame away, even
\* if fsyncs fail.
THEOREM TypeCorrect ==
  Spec => []TypeOK
BY StructureAlways, StructureIsTyped, PTL

\* open() never takes what a crash made of the file for corruption, even if fsyncs
\* fail.
THEOREM CrashIsNeverCorruption ==
  Spec => []("corrupt" \notin Verdicts(file))
<1>1. Structure => "corrupt" \notin Verdicts(file)
  BY NeverCorrupt DEF Structure, FramesOK
<1> QED BY <1>1, StructureAlways, PTL

\* As long as no fsync fails, open() accepts the file whenever it is opened.
THEOREM AlwaysReadable ==
  ASSUME ~ FsyncFails
  PROVE  Spec => []Readable
<1>1. IInv => Readable
  BY NeverCorrupt, NumberedIsValid DEF IInv, Structure, FramesOK, Numbering, Readable
<1> QED BY <1>1, IInvAlways, PTL

\* As long as no fsync fails, what was promised is in the log and on the disk.
THEOREM PromisedAlwaysSurvive ==
  ASSUME ~ FsyncFails
  PROVE  Spec => []PromisedSurvive
<1>1. IInv => PromisedSurvive
  <2> SUFFICES ASSUME IInv, NEW f \in {file, disk}, NEW record \in promised
               PROVE  record.seq \in DOMAIN Log(f) /\ Log(f)[record.seq] = record
    BY DEF PromisedSurvive
  <2>1. /\ file \in Seq(Unit) /\ Framed(file) /\ disk \in Seq(Unit) /\ Framed(disk)
        /\ Keeps(file, disk) /\ Numbered(file) /\ Numbered(disk)
    BY DEF IInv, Structure, FramesOK, Numbering
  <2>2. Holds(disk, record) /\ Holds(file, record)
    BY <2>1, KeepsTheLog DEF IInv, PromisesAreDurable
  <2>3. f \in Seq(Unit) /\ Framed(f) /\ Numbered(f) /\ Holds(f, record)
    BY <2>1, <2>2
  <2>4. DOMAIN Log(f) = 1 .. Len(Log(f))
    BY <2>3, LogIsASequence
  <2> QED BY <2>3, <2>4, LogIsWhatIsHeld
<1> QED BY <1>1, IInvAlways, PTL

-----------------------------------------------------------------------------
(***************************************************************************)
(* The file implements the log of whole records.                           *)
(***************************************************************************)
\* What agrees with the beginning of a sequence is that beginning.
LEMMA BeginningOf ==
  ASSUME NEW S, NEW s \in Seq(S), NEW t \in Seq(S), Len(s) <= Len(t),
         \A k \in 1 .. Len(s) : s[k] = t[k]
  PROVE  s = SubSeq(t, 1, Len(s))
<1>1. Len(s) \in Nat /\ Len(t) \in Nat /\ 0 + 1 = 1 /\ 0 + Len(s) = Len(s)
  OBVIOUS
<1>2. \A k \in 1 .. Len(s) : 0 + k = k /\ t[0 + k] \in S /\ t[0 + k] = s[k]
  BY <1>1
<1>3. SubSeq(t, 0 + 1, 0 + Len(s)) = [k \in 1 .. Len(s) |-> t[0 + k]]
  BY <1>1, <1>2, PieceOf
<1>4. s = [k \in 1 .. Len(s) |-> s[k]]
  BY LenProperties
<1> QED BY <1>1, <1>2, <1>3, <1>4

\* A written frame adds its record to the log; one that was cut adds nothing.
LEMMA LogAfterWriting ==
  ASSUME NEW f \in Seq(Unit), Framed(f), Numbered(f), EndsAt(f, Len(f)),
         NEW record \in Record, record.seq = NumberAt(f, Len(f)) + 1,
         NEW n \in 0 .. record.size
  PROVE  Log(Extended(f, record, n)) = IF n = record.size THEN Append(Log(f), record) ELSE Log(f)
<1> DEFINE h == Extended(f, record, n)
<1>1. /\ h \in Seq(Unit) /\ Framed(h) /\ Numbered(h) /\ Cut(f, h)
      /\ n = record.size => EndsAt(h, Len(h)) /\ h[Len(h)].of = record /\ Holds(h, record)
      /\ n # record.size => LastValid(h) = Len(f)
      /\ Len(h) = Len(f) + n
  BY ExtendedUnits, ExtendedIsFramed
<1> HIDE DEF h
<1>2. Keeps(h, f)
  BY <1>1, CutKeeps
<1>3. Len(Log(f)) = record.seq - 1 /\ record.seq \in Nat
  <2>1. Len(Log(f)) = NumberAt(f, Len(f))
    BY LogIsWhatIsHeld, EndIsLastValid
  <2>2. NumberAt(f, Len(f)) \in Nat
    BY NumberIsNat
  <2> HIDE DEF NumberAt
  <2> QED BY <2>1, <2>2
<1>4. CASE n = record.size
  <2>1. Len(h) # 0
    BY <1>1, <1>4, RecordsHaveSizes
  <2>2. Len(Log(h)) = record.seq
    <3>1. Len(Log(h)) = NumberAt(h, Len(h))
      BY <1>1, <1>4, LogIsWhatIsHeld, EndIsLastValid
    <3> QED BY <1>1, <1>4, <2>1, <3>1 DEF NumberAt
  <2>3. Log(h)[record.seq] = record /\ record.seq \in 1 .. Len(Log(h))
    BY <1>1, <1>4, LogIsWhatIsHeld
  <2>4. \A k \in 1 .. Len(Log(f)) : Log(f)[k] = Log(h)[k]
    BY <1>1, <1>2, KeepsTheLog
  <2>5. Log(f) \in Seq(Record) /\ Log(h) \in Seq(Record)
    BY <1>1, LogIsASequence
  <2> DEFINE a == Append(Log(f), record)
  <2>6. /\ a \in Seq(Record) /\ Len(a) = Len(Log(f)) + 1 /\ a[Len(Log(f)) + 1] = record
        /\ \A k \in 1 .. Len(Log(f)) : a[k] = Log(f)[k]
    BY <2>5, AppendProperties
  <2> HIDE DEF a
  <2>7. Len(a) = Len(Log(h)) /\ Len(Log(f)) + 1 = record.seq
    BY <1>3, <2>2, <2>6
  <2>8. \A k \in 1 .. Len(a) : a[k] = Log(h)[k]
    <3> SUFFICES ASSUME NEW k \in 1 .. Len(a) PROVE a[k] = Log(h)[k]
      OBVIOUS
    <3>1. k = record.seq \/ k \in 1 .. Len(Log(f))
      BY <1>3, <2>6
    <3> QED BY <2>3, <2>4, <2>6, <2>7, <3>1
  <2>9. a = Log(h)
    BY <2>5, <2>6, <2>7, <2>8, SeqEqual
  <2> QED BY <1>4, <2>9 DEF a, h
<1>5. CASE n # record.size
  <2>1. Keeps(f, h)
    <3>1. LastValid(h) <= Len(f)
      BY <1>1, <1>5
    <3> QED BY <1>1, <3>1, CutKeeps
  <2>2. Log(h) = Log(f)
    BY <1>1, <1>2, <2>1, SameLog
  <2> QED BY <1>5, <2>2 DEF h
<1> QED BY <1>4, <1>5

\* What the invariant says of the log: what is on disk begins it, and the process
\* knows of all of it but the record just written.
LEMMA LogFacts ==
  ASSUME IInv
  PROVE  /\ Log(file) \in Seq(Record) /\ Len(Log(file)) \in Nat
         /\ Log(disk) \in Seq(Record) /\ Len(Log(disk)) \in Nat
         /\ Len(Log(disk)) <= Len(Log(file))
         /\ status = "open" =>
              /\ writing.phase = "written" => Len(Log(file)) = sequence + 1
              /\ writing.phase # "written" => Len(Log(file)) = sequence
         /\ sequence \in Nat /\ sequence # Down
<1>1. /\ file \in Seq(Unit) /\ Framed(file) /\ disk \in Seq(Unit) /\ Framed(disk)
      /\ Keeps(file, disk) /\ Numbered(file) /\ Numbered(disk) /\ sequence \in Nat
  BY DEF IInv, Structure, FramesOK, Numbering
<1>2. Len(Log(disk)) <= Len(Log(file))
  BY <1>1, KeepsTheLog
<1>3. ASSUME status = "open"
      PROVE  Len(Log(file)) = LastWritten
  <2>1. EndsAt(file, Len(file)) /\ NumberAt(file, Len(file)) = LastWritten
    BY <1>3 DEF IInv, Structure, Running, Numbering
  <2>2. LastValid(file) = Len(file)
    BY <1>1, <2>1, EndIsLastValid
  <2> QED BY <1>1, <2>1, <2>2, LogIsWhatIsHeld
<1>4. writing.phase = "written" => LastWritten = sequence + 1
  <2>1. writing.phase = "written" => writing # Idle
    BY DEF Idle
  <2> QED BY <2>1 DEF LastWritten, IInv, Numbering
<1>5. writing.phase # "written" => LastWritten = sequence
  BY DEF LastWritten
<1> QED BY <1>1, <1>2, <1>3, <1>4, <1>5, LogIsASequence, DownAssumption

\* A crash during an append leaves the log as it was or with the new record.
LEMMA InterruptedLog ==
  ASSUME IInv, NEW f \in Interrupted
  PROVE  \/ Log(f) = Log(file)
         \/ /\ status = "open" /\ sequence = Len(Log(file))
            /\ \E r \in Record : Log(f) = Append(Log(file), r)
<1>1. /\ file \in Seq(Unit) /\ Framed(file) /\ Numbered(file) /\ Structure /\ Numbering
  BY DEF IInv, Structure, FramesOK, Numbering
<1>2. CASE writing.phase = "write"
  <2>1. PICK n \in 0 .. writing.record.size : f = Extended(file, writing.record, n)
    BY <1>2 DEF Interrupted, AfterWriting, Extended
  <2>2. /\ writing.record \in Record /\ status = "open" /\ EndsAt(file, Len(file))
        /\ writing.record.seq = NumberAt(file, Len(file)) + 1
    BY <1>1, <1>2, NextNumber
  <2>3. Log(f) = Log(file) \/ Log(f) = Append(Log(file), writing.record)
    BY <1>1, <2>1, <2>2, LogAfterWriting
  <2>4. sequence = Len(Log(file))
    BY <1>2, <2>2, LogFacts
  <2> QED BY <2>2, <2>3, <2>4
<1>3. CASE writing.phase # "write"
  BY <1>3 DEF Interrupted
<1> QED BY <1>2, <1>3

\* Every step of the file is one of the log, or none.
LEMMA NextPromise ==
  ASSUME ~ FsyncFails, IInv, IInv', [Next]_vars
  PROVE  [Promise!Next]_Promise!vars
<1> DEFINE known == IF status = "open" THEN sequence ELSE Down
<1>1. /\ file \in Seq(Unit) /\ Framed(file) /\ disk \in Seq(Unit) /\ Framed(disk)
      /\ Keeps(file, disk) /\ Numbered(file) /\ Numbered(disk)
  BY DEF IInv, Structure, FramesOK, Numbering
<1>2. /\ Log(file) \in Seq(Record) /\ Len(Log(file)) \in Nat
      /\ Len(Log(disk)) \in Nat /\ Len(Log(disk)) <= Len(Log(file))
      /\ sequence \in Nat /\ sequence # Down
  BY LogFacts
<1>3. CASE BeginAppend \/ UNCHANGED vars
  <2>1. UNCHANGED <<file, disk, status, sequence>>
    BY <1>3 DEF BeginAppend, vars
  <2> QED BY <2>1 DEF Promise!vars
<1>4. CASE Write
  <2>1. /\ writing.phase = "write" /\ file' = Extended(file, writing.record, writing.record.size)
        /\ UNCHANGED <<disk, status, sequence>>
    BY <1>4 DEF Write, AfterWriting, Extended
  <2>2. /\ writing.record \in Record /\ status = "open" /\ EndsAt(file, Len(file))
        /\ writing.record.seq = NumberAt(file, Len(file)) + 1
    BY <2>1, NextNumber DEF IInv
  <2>3. writing.record.size \in 0 .. writing.record.size
    BY <2>2, RecordsHaveSizes
  <2>4. Log(file') = Append(Log(file), writing.record)
    BY <1>1, <2>1, <2>2, <2>3, LogAfterWriting
  <2>5. known = Len(Log(file)) /\ known # Down /\ known' = known
    BY <1>2, <2>1, <2>2, LogFacts
  <2>6. Promise!Add
    BY <2>1, <2>2, <2>4, <2>5 DEF Promise!Add
  <2> QED BY <2>6 DEF Promise!Next
<1>5. CASE EndAppend
  <2>1. /\ writing.phase = "written" /\ status = "open"
        /\ UNCHANGED <<file, status>>
    BY <1>5, WritingPhases DEF EndAppend, IInv
  <2>2. sequence' = writing.record.seq /\ disk' = FsyncedByAppend
    BY <1>5 DEF EndAppend, Returns, Raises
  <2>3. writing # Idle
    BY <2>1 DEF Idle
  <2>4. writing.record.seq = sequence + 1 /\ Len(Log(file)) = sequence + 1
    BY <2>1, <2>3, LogFacts DEF IInv, Numbering
  <2>5. known # Down /\ known < Len(Log(file)) /\ known' = Len(Log(file))
    BY <1>2, <2>1, <2>2, <2>4
  <2>6. /\ Len(Log(disk')) \in {Len(Log(disk)), Len(Log(file))}
        /\ Durability = "always" => Len(Log(disk')) = Len(Log(file))
    BY <2>2 DEF FsyncedByAppend
  <2>7. Promise!Told
    BY <2>1, <2>5, <2>6 DEF Promise!Told
  <2> QED BY <2>7 DEF Promise!Next
<1>6. CASE Flush
  <2>1. disk' = file /\ UNCHANGED <<file, status, sequence>>
    BY <1>6 DEF Flush
  <2>2. Promise!Settle
    BY <2>1 DEF Promise!Settle
  <2> QED BY <2>2 DEF Promise!Next
<1>7. CASE Close
  <2>1. disk' = file /\ file' = file /\ status' = "down"
    BY <1>7 DEF Close, ForgetMemory
  <2>2. Log(file) = SubSeq(Log(file), 1, Len(Log(file)))
    BY <1>2, SubSeqFull
  <2>3. Len(Log(file)) \in Len(Log(disk)) .. Len(Log(file))
    BY <1>2
  <2>4. Promise!HostCrash
    BY <2>1, <2>2, <2>3 DEF Promise!HostCrash, Promise!Reached
  <2> QED BY <2>4 DEF Promise!Next
<1>8. CASE ProcessCrash
  <2>1. file' \in Interrupted /\ disk' = disk /\ status' = "down"
    BY <1>8 DEF ProcessCrash, ForgetMemory
  <2>2. known' = Down
    BY <2>1
  <2>3. CASE status = "open"
    <3>1. known # Down /\ known = sequence
      BY <1>2, <2>3
    <3>2. Log(file') \in Promise!Reached
      BY <2>1, <3>1, InterruptedLog DEF Promise!Reached
    <3>3. Promise!ProcessCrash
      BY <2>1, <2>2, <3>1, <3>2 DEF Promise!ProcessCrash
    <3> QED BY <3>3 DEF Promise!Next
  <2>4. CASE status # "open"
    <3>1. Log(file') = Log(file)
      BY <2>1, <2>4, InterruptedLog
    <3> QED BY <2>1, <2>4, <3>1 DEF Promise!vars
  <2> QED BY <2>3, <2>4
<1>9. CASE HostCrash
  <2>1. PICK f \in Interrupted : file' \in Survivors(f)
    BY <1>9 DEF HostCrash
  <2>2. f \in Seq(Unit) /\ Framed(f) /\ Keeps(f, disk) /\ Numbered(f)
    BY InterruptedIsFramed, InterruptedIsNumbered DEF FramesOK, IInv
  <2>3. /\ file' \in Seq(Unit) /\ Framed(file') /\ Keeps(file', disk)
        /\ Cut(file', f) \/ Cut(file', disk)
    BY <1>1, <2>1, <2>2, SurvivorsKeep
  <2>4. Numbered(file') /\ disk' = file' /\ status' = "down"
    BY <1>9 DEF HostCrash, ForgetMemory, IInv, Numbering
  <2>5. Keeps(f, file')
    <3>1. CASE Cut(file', f)
      BY <2>2, <2>3, <3>1, CutKeeps
    <3>2. CASE Cut(file', disk)
      <4>1. Keeps(disk, file')
        BY <1>1, <2>3, <3>2, CutKeeps
      <4> QED BY <1>1, <2>2, <2>3, <4>1, KeepsIsTransitive
    <3> QED BY <2>3, <3>1, <3>2
  <2>6. /\ Len(Log(file')) <= Len(Log(f))
        /\ \A k \in 1 .. Len(Log(file')) : Log(file')[k] = Log(f)[k]
        /\ Len(Log(disk)) <= Len(Log(file'))
    BY <1>1, <2>2, <2>3, <2>4, <2>5, KeepsTheLog
  <2>7. Log(f) \in Seq(Record) /\ Log(file') \in Seq(Record) /\ Len(Log(file')) \in Nat
        /\ Len(Log(f)) \in Nat
    BY <2>2, <2>3, LogIsASequence
  <2>8. Log(file') = SubSeq(Log(f), 1, Len(Log(file')))
    BY <2>6, <2>7, BeginningOf
  <2>9. Log(f) \in Promise!Reached
    BY <1>2, InterruptedLog DEF Promise!Reached
  <2>10. Len(Log(file')) \in Len(Log(disk)) .. Len(Log(f))
    BY <1>2, <2>6, <2>7
  <2>11. Promise!HostCrash
    BY <2>4, <2>8, <2>9, <2>10 DEF Promise!HostCrash
  <2> QED BY <2>11 DEF Promise!Next
<1>10. CASE Open
  <2>1. status = "down" /\ disk' = disk
    BY <1>10 DEF Open
  <2>2. CASE "intact" \in Verdicts(file) /\ StartFrom(file) /\ UNCHANGED file
    <3>1. LastValid(file) = Len(file)
      BY <1>1, <2>2, NeverCorrupt
    <3>2. status' = "open" /\ sequence' = Len(Log(file))
      BY <1>1, <2>2, <3>1, StartFromTheLast
    <3>3. Promise!Restart
      BY <2>1, <2>2, <3>2 DEF Promise!Restart
    <3> QED BY <3>3 DEF Promise!Next
  <2>3. CASE file' = Repaired(file) /\ status' = "repairing" /\ UNCHANGED sequence
    <3>1. file' \in Seq(Unit) /\ Len(file') = LastValid(file) /\ Cut(file', file)
      BY <1>1, <2>3, KeepsIsPrefix
    <3>2. Keeps(file, file') /\ Keeps(file', file)
      <4>1. LastValid(file) \in Nat
        BY <1>1, LastValidIsLastEnd
      <4> QED BY <1>1, <3>1, <4>1, CutKeeps
    <3>3. Log(file') = Log(file)
      BY <1>1, <3>1, <3>2, CutIsFramed, SameLog
    <3> QED BY <2>1, <2>3, <3>3 DEF Promise!vars
  <2>4. CASE status' = "refused" /\ UNCHANGED <<file, sequence>>
    BY <2>1, <2>4 DEF Promise!vars
  <2> QED BY <1>10, <2>2, <2>3, <2>4 DEF Open
<1>11. CASE OpenRepaired
  <2>1. status = "repairing" /\ EndsAt(file, Len(file)) /\ file' = file /\ disk' = file
    BY <1>11 DEF OpenRepaired, IInv, Structure, Running
  <2>2. LastValid(file) = Len(file)
    BY <1>1, <2>1, EndIsLastValid
  <2>3. status' = "open" /\ sequence' = Len(Log(file))
    BY <1>1, <1>11, <2>2, StartFromTheLast DEF OpenRepaired
  <2>4. Promise!Restart
    BY <2>1, <2>3 DEF Promise!Restart
  <2> QED BY <2>4 DEF Promise!Next
<1> QED
  BY <1>3, <1>4, <1>5, <1>6, <1>7, <1>8, <1>9, <1>10, <1>11 DEF Next

\* The new file is the empty log.
LEMMA InitPromise ==
  Init => Promise!Init
<1> SUFFICES ASSUME Init PROVE Promise!Init
  OBVIOUS
<1>1. IInv
  BY InitIInv
<1>2. file = <<>> /\ disk = <<>> /\ status = "open" /\ sequence = 0 /\ writing.phase = "idle"
  BY DEF Init, Idle
<1>3. Len(Log(file)) = 0 /\ Log(file) \in Seq(Record)
  BY <1>1, <1>2, LogFacts
<1>4. Log(file) = <<>>
  BY <1>3, EmptySeq
<1> QED BY <1>2, <1>3, <1>4 DEF Promise!Init

\* As long as no fsync fails, the file with its units, its torn tails and its
\* repairs implements the log of AtomicLog: records are appended whole and in
\* order, and a crash takes at most those that were not yet durable.
THEOREM ImplementsPromise ==
  ASSUME ~ FsyncFails
  PROVE  Spec => PromiseSpec
<1>1. IInv /\ IInv' /\ [Next]_vars => [Promise!Next]_Promise!vars
  BY NextPromise
<1>2. Spec => []IInv
  BY IInvAlways
<1>3. Init => Promise!Init
  BY InitPromise
<1> QED BY <1>1, <1>2, <1>3, PTL DEF Spec, PromiseSpec, Promise!Spec

=============================================================================
