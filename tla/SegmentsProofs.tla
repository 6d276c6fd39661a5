--------------------------- MODULE SegmentsProofs ---------------------------
(***************************************************************************)
(* Facts about the operators of Segments, for every set of ids and values: *)
(* what selection across segments returns, and how the slices of a log     *)
(* relate to one another.                                                  *)
(***************************************************************************)
EXTENDS Segments, FiniteSetTheorems, WellFoundedInduction, TLAPS

-----------------------------------------------------------------------------
\* Every nonempty set of naturals has a least element.
LEMMA LeastNat ==
  ASSUME NEW T \in SUBSET Nat, T # {}
  PROVE  \E x \in T : \A y \in T : x <= y
<1> DEFINE R == OpToRel(<, Nat)
<1>1. IsWellFoundedOn(R, Nat)
  BY NatLessThanWellFounded
<1>2. PICK x \in T : \A y \in T : ~ (<<y, x>> \in R)
  <2> HIDE DEF R
  <2> QED BY <1>1, WFMin
<1>3. \A y \in T : ~ (y < x)
  <2> SUFFICES ASSUME NEW y \in T, y < x PROVE FALSE
    OBVIOUS
  <2>1. <<y, x>> \in {ss \in Nat \X Nat : ss[1] < ss[2]}
    OBVIOUS
  <2> QED BY <2>1, <1>2 DEF OpToRel
<1> QED BY <1>3

\* Every nonempty set of naturals with a bound has a greatest element.
LEMMA GreatestNat ==
  ASSUME NEW n \in Nat, NEW T \in SUBSET (0 .. n), T # {}
  PROVE  \E x \in T : \A y \in T : y <= x
<1> DEFINE D == {n - t : t \in T}
<1>1. \A t \in T : n - t \in Nat
  OBVIOUS
<1>2. D \in SUBSET Nat /\ D # {}
  BY <1>1
<1>3. PICK d \in D : \A e \in D : d <= e
  <2> HIDE DEF D
  <2> QED BY <1>2, LeastNat
<1>4. PICK x \in T : d = n - x
  BY <1>3
<1>5. \A y \in T : n - x <= n - y
  BY <1>3, <1>4
<1> QED BY <1>5

-----------------------------------------------------------------------------
\* LastTouch is the greatest touch.
LEMMA LastTouchIsLast ==
  ASSUME NEW log, NEW lo \in Nat, NEW hi \in Nat, NEW id \in Ids,
         Touches(log, lo, hi, id) # {}
  PROVE  /\ LastTouch(log, lo, hi, id) \in Touches(log, lo, hi, id)
         /\ \A j \in Touches(log, lo, hi, id) : j <= LastTouch(log, lo, hi, id)
<1> DEFINE T == Touches(log, lo, hi, id)
<1>1. T \in SUBSET (0 .. hi) /\ T # {}
  BY DEF Touches
<1>2. \E k \in T : \A j \in T : j <= k
  <2> HIDE DEF T
  <2> QED BY <1>1, GreatestNat
<1> QED BY <1>2 DEF LastTouch

\* A greatest touch is the last one.
LEMMA LastTouchUnique ==
  ASSUME NEW log, NEW lo \in Nat, NEW hi \in Nat, NEW id \in Ids,
         NEW k \in Touches(log, lo, hi, id),
         \A j \in Touches(log, lo, hi, id) : j <= k
  PROVE  LastTouch(log, lo, hi, id) = k
<1>1. LastTouch(log, lo, hi, id) \in Touches(log, lo, hi, id)
  BY LastTouchIsLast
<1>2. k <= LastTouch(log, lo, hi, id)
  BY LastTouchIsLast
<1>3. LastTouch(log, lo, hi, id) <= k
  BY <1>1
<1>4. k \in Nat /\ LastTouch(log, lo, hi, id) \in Nat
  BY <1>1 DEF Touches
<1> QED BY <1>2, <1>3, <1>4

\* What a slice holds for an id: nothing, or the record of its last touch.
LEMMA SliceAt ==
  ASSUME NEW log, NEW lo \in Nat, NEW hi \in Nat, NEW id \in Ids
  PROVE  /\ Touches(log, lo, hi, id) = {} => Slice(log, lo, hi)[id] = Absent
         /\ \A k \in Touches(log, lo, hi, id) :
              (\A j \in Touches(log, lo, hi, id) : j <= k)
                => Slice(log, lo, hi)[id] = [ver |-> k, val |-> log[k][id]]
<1>1. Touches(log, lo, hi, id) = {} => Slice(log, lo, hi)[id] = Absent
  BY DEF Slice
<1>2. ASSUME NEW k \in Touches(log, lo, hi, id),
             \A j \in Touches(log, lo, hi, id) : j <= k
      PROVE  Slice(log, lo, hi)[id] = [ver |-> k, val |-> log[k][id]]
  <2>1. LastTouch(log, lo, hi, id) = k
    BY <1>2, LastTouchUnique
  <2> QED BY <2>1 DEF Slice
<1> QED BY <1>1, <1>2

\* The two cases, with the last touch as a witness.
LEMMA SliceCases ==
  ASSUME NEW log, NEW lo \in Nat, NEW hi \in Nat, NEW id \in Ids
  PROVE  \/ Touches(log, lo, hi, id) = {} /\ Slice(log, lo, hi)[id] = Absent
         \/ \E k \in Touches(log, lo, hi, id) :
              /\ \A j \in Touches(log, lo, hi, id) : j <= k
              /\ Slice(log, lo, hi)[id] = [ver |-> k, val |-> log[k][id]]
BY SliceAt, LastTouchIsLast

-----------------------------------------------------------------------------
(***************************************************************************)
(* Slices of one log.                                                      *)
(***************************************************************************)
\* A slice of a log is a segment; an id it holds carries a version of the
\* slice, and an id it does not hold is Absent.
LEMMA SliceType ==
  ASSUME NEW log \in Seq(Operation), NEW lo \in Nat, NEW hi \in 0 .. Len(log)
  PROVE  /\ Slice(log, lo, hi) \in Segment
         /\ \A id \in Ids : \/ Slice(log, lo, hi)[id] = Absent
                            \/ Slice(log, lo, hi)[id].ver \in (lo + 1) .. hi
<1> hi \in Nat
  OBVIOUS
<1>1. ASSUME NEW id \in Ids
      PROVE  \/ Slice(log, lo, hi)[id] = Absent
             \/ /\ Slice(log, lo, hi)[id] \in Record
                /\ Slice(log, lo, hi)[id].ver \in (lo + 1) .. hi
  <2>1. CASE Touches(log, lo, hi, id) = {}
    BY <2>1, SliceAt
  <2>2. CASE Touches(log, lo, hi, id) # {}
    <3>1. PICK k \in Touches(log, lo, hi, id) :
            Slice(log, lo, hi)[id] = [ver |-> k, val |-> log[k][id]]
      BY <2>2, SliceCases
    <3>2. k \in (lo + 1) .. hi /\ k \in Nat \ {0} /\ id \in DOMAIN log[k]
      BY <3>1 DEF Touches
    <3>3. log[k] \in Operation
      BY <3>2
    <3>4. log[k][id] \in Contents
      BY <3>2, <3>3 DEF Operation
    <3> QED BY <3>1, <3>2, <3>4 DEF Record
  <2> QED BY <2>1, <2>2
<1>2. Slice(log, lo, hi) = [id \in Ids |-> Slice(log, lo, hi)[id]]
  BY DEF Slice
<1>3. Absent \in Record
  BY DEF Record
<1> QED BY <1>1, <1>2, <1>3 DEF Segment

\* Nothing has been written before the first record.
LEMMA SliceEmpty ==
  ASSUME NEW log, NEW lo \in Nat
  PROVE  Slice(log, lo, lo) = EmptySegment
<1>1. \A id \in Ids : Touches(log, lo, lo, id) = {}
  BY DEF Touches
<1> QED BY <1>1 DEF Slice, EmptySegment

\* Applying the next record to a slice gives the slice one longer: a segment
\* that follows the log by ApplyRecord holds what the log says.
LEMMA SliceStep ==
  ASSUME NEW log \in Seq(Operation), NEW lo \in Nat, NEW hi \in lo .. Len(log),
         hi < Len(log)
  PROVE  Slice(log, lo, hi + 1) = ApplyRecord(Slice(log, lo, hi), log[hi + 1], hi + 1)
<1> SUFFICES ASSUME NEW id \in Ids
             PROVE  Slice(log, lo, hi + 1)[id]
                      = ApplyRecord(Slice(log, lo, hi), log[hi + 1], hi + 1)[id]
  BY DEF Slice, ApplyRecord
<1> hi \in Nat /\ hi + 1 \in Nat
  OBVIOUS
<1>1. Slice(log, lo, hi)[id].ver < hi + 1
  <2>1. hi \in 0 .. Len(log)
    OBVIOUS
  <2>2. \/ Slice(log, lo, hi)[id] = Absent
        \/ Slice(log, lo, hi)[id].ver \in (lo + 1) .. hi
    BY <2>1, SliceType
  <2> QED BY <2>2 DEF Absent
<1>2. CASE id \in DOMAIN log[hi + 1]
  <2>1. hi + 1 \in Touches(log, lo, hi + 1, id)
    BY <1>2 DEF Touches
  <2>2. \A j \in Touches(log, lo, hi + 1, id) : j <= hi + 1
    BY DEF Touches
  <2>3. Slice(log, lo, hi + 1)[id] = [ver |-> hi + 1, val |-> log[hi + 1][id]]
    BY <2>1, <2>2, SliceAt
  <2> QED BY <1>1, <1>2, <2>3 DEF ApplyRecord
<1>3. CASE id \notin DOMAIN log[hi + 1]
  <2>1. Touches(log, lo, hi + 1, id) = Touches(log, lo, hi, id)
    BY <1>3 DEF Touches
  <2>2. Slice(log, lo, hi + 1)[id] = Slice(log, lo, hi)[id]
    BY <2>1 DEF Slice, LastTouch
  <2> QED BY <1>3, <2>2 DEF ApplyRecord
<1> QED BY <1>2, <1>3

\* A slice depends only on the records it covers.
LEMMA SliceOfPrefix ==
  ASSUME NEW log, NEW other, NEW lo \in Nat, NEW hi \in Nat,
         \A k \in (lo + 1) .. hi : other[k] = log[k]
  PROVE  Slice(other, lo, hi) = Slice(log, lo, hi)
<1>1. ASSUME NEW id \in Ids
      PROVE  Slice(other, lo, hi)[id] = Slice(log, lo, hi)[id]
  <2>1. Touches(other, lo, hi, id) = Touches(log, lo, hi, id)
    BY DEF Touches
  <2>2. CASE Touches(log, lo, hi, id) = {}
    <3>1. Slice(log, lo, hi)[id] = Absent
      BY <2>2, SliceAt, ZenonT(40)
    <3>2. Touches(other, lo, hi, id) = {}
      BY <2>1, <2>2
    <3>3. Slice(other, lo, hi)[id] = Absent
      BY <3>2, SliceAt, ZenonT(40)
    <3> QED BY <3>1, <3>3
  <2>3. CASE Touches(log, lo, hi, id) # {}
    <3>1. PICK k \in Touches(log, lo, hi, id) :
            /\ \A j \in Touches(log, lo, hi, id) : j <= k
            /\ Slice(log, lo, hi)[id] = [ver |-> k, val |-> log[k][id]]
      BY <2>3, SliceCases
    <3>2. Slice(other, lo, hi)[id] = [ver |-> k, val |-> other[k][id]]
      BY <2>1, <3>1, SliceAt
    <3>3. other[k] = log[k]
      BY DEF Touches
    <3> QED BY <3>1, <3>2, <3>3
  <2> QED BY <2>2, <2>3
<1> QED BY <1>1 DEF Slice

\* The records of a slice that are newer than a point within it are the slice
\* from that point on: the late records an optimize must keep.
LEMMA SliceNewer ==
  ASSUME NEW log \in Seq(Operation), NEW lo \in Nat, NEW mid \in Nat,
         NEW hi \in 0 .. Len(log), lo <= mid
  PROVE  NewerThan(Slice(log, lo, hi), mid) = Slice(log, mid, hi)
<1> hi \in Nat
  OBVIOUS
<1>1. ASSUME NEW id \in Ids
      PROVE  NewerThan(Slice(log, lo, hi), mid)[id] = Slice(log, mid, hi)[id]
  <2> DEFINE Lo == Touches(log, lo, hi, id)
             Mid == Touches(log, mid, hi, id)
  <2>1. Mid = {k \in Lo : k > mid}
    BY DEF Touches
  <2>2. NewerThan(Slice(log, lo, hi), mid)[id]
          = IF Slice(log, lo, hi)[id].ver > mid THEN Slice(log, lo, hi)[id] ELSE Absent
    BY DEF NewerThan
  <2>3. CASE Lo = {}
    BY <2>1, <2>2, <2>3, SliceAt DEF Absent
  <2>4. CASE Lo # {}
    <3>1. PICK k \in Lo :
            /\ \A j \in Lo : j <= k
            /\ Slice(log, lo, hi)[id] = [ver |-> k, val |-> log[k][id]]
      BY <2>4, SliceCases
    <3>2. k \in Nat /\ Lo \subseteq Nat
      BY DEF Touches
    <3>3. CASE k > mid
      <4>1. k \in Mid /\ \A j \in Mid : j <= k
        BY <2>1, <3>1, <3>3
      <4>2. Slice(log, mid, hi)[id] = [ver |-> k, val |-> log[k][id]]
        BY <4>1, SliceAt
      <4> QED BY <2>2, <3>1, <3>3, <4>2
    <3>4. CASE ~ (k > mid)
      <4>1. Mid = {}
        BY <2>1, <3>1, <3>2, <3>4
      <4>2. Slice(log, mid, hi)[id] = Absent
        BY <4>1, SliceAt
      <4> QED BY <2>2, <3>1, <3>4, <4>2
    <3> QED BY <3>3, <3>4
  <2> QED BY <2>3, <2>4
<1> QED BY <1>1 DEF Slice, NewerThan

\* A slice is its older part overlaid with its newer part.
LEMMA SliceConcat ==
  ASSUME NEW log \in Seq(Operation), NEW lo \in Nat, NEW mid \in Nat,
         NEW hi \in 0 .. Len(log), lo <= mid, mid <= hi, NEW id \in Ids
  PROVE  Slice(log, lo, hi)[id] = IF Slice(log, mid, hi)[id].ver > 0
                                  THEN Slice(log, mid, hi)[id]
                                  ELSE Slice(log, lo, mid)[id]
<1> hi \in Nat
  OBVIOUS
<1> DEFINE Lo == Touches(log, lo, mid, id)
           Hi == Touches(log, mid, hi, id)
           All == Touches(log, lo, hi, id)
<1>1. /\ All = Lo \cup Hi
      /\ Lo \subseteq Nat /\ Hi \subseteq Nat \ {0}
      /\ \A j \in Lo, k \in Hi : j <= k
  BY DEF Touches
<1>2. CASE Hi # {}
  <2>1. PICK k \in Hi :
          /\ \A j \in Hi : j <= k
          /\ Slice(log, mid, hi)[id] = [ver |-> k, val |-> log[k][id]]
    BY <1>2, SliceCases
  <2>2. k \in All /\ \A j \in All : j <= k
    BY <1>1, <2>1
  <2>3. Slice(log, lo, hi)[id] = [ver |-> k, val |-> log[k][id]]
    BY <2>2, SliceAt
  <2>4. k > 0
    BY <1>1
  <2> QED BY <2>1, <2>3, <2>4
<1>3. CASE Hi = {}
  <2>1. All = Lo
    BY <1>1, <1>3
  <2>2. Slice(log, lo, hi)[id] = Slice(log, lo, mid)[id]
    <3>1. CASE Lo = {}
      BY <2>1, <3>1, SliceAt
    <3>2. CASE Lo # {}
      <4>1. PICK k \in Lo :
              /\ \A j \in Lo : j <= k
              /\ Slice(log, lo, mid)[id] = [ver |-> k, val |-> log[k][id]]
        BY <3>2, SliceCases
      <4> QED BY <2>1, <4>1, SliceAt
    <3> QED BY <3>1, <3>2
  <2>3. Slice(log, mid, hi)[id] = Absent
    BY <1>3, SliceAt
  <2> QED BY <2>2, <2>3 DEF Absent
<1> QED BY <1>2, <1>3

-----------------------------------------------------------------------------
(***************************************************************************)
(* Selection across segments.                                              *)
(***************************************************************************)
\* Among the segments of a nonempty sequence there is a newest record.
LEMMA NewestExists ==
  ASSUME NEW segs \in Seq(Segment), segs # <<>>, NEW id \in Ids
  PROVE  /\ Newest(segs, id) \in DOMAIN segs
         /\ \A j \in DOMAIN segs : segs[j][id].ver <= segs[Newest(segs, id)][id].ver
         /\ \A j \in 1 .. (Newest(segs, id) - 1) :
              segs[j][id].ver < segs[Newest(segs, id)][id].ver
<1> DEFINE D == DOMAIN segs
           V == [i \in D |-> segs[i][id].ver]
           Above(i) == {j \in D : V[j] > V[i]}
           Counts == {Cardinality(Above(i)) : i \in D}
<1>1. D = 1 .. Len(segs) /\ D # {} /\ Len(segs) \in Nat
  OBVIOUS
<1>2. \A i \in D : V[i] \in Nat
  <2>1. \A i \in D : segs[i] \in Segment
    OBVIOUS
  <2>2. \A r \in Record : r.ver \in Nat
    BY DEF Record, Absent
  <2> QED BY <2>1, <2>2 DEF Segment
<1>3. IsFiniteSet(D)
  BY <1>1, FS_Interval
<1>4. \A i \in D : IsFiniteSet(Above(i)) /\ Cardinality(Above(i)) \in Nat
  BY <1>3, FS_Subset, FS_CardinalityType
<1>5. PICK m \in D : \A i \in D : V[i] <= V[m]
  <2>1. Counts \in SUBSET Nat /\ Counts # {}
    BY <1>1, <1>4
  <2>2. PICK c \in Counts : \A e \in Counts : c <= e
    <3> HIDE DEF Counts
    <3> QED BY <2>1, LeastNat
  <2>3. PICK m \in D : c = Cardinality(Above(m))
    BY <2>2
  <2>4. SUFFICES ASSUME NEW i \in D, V[i] > V[m] PROVE FALSE
    BY <1>2, <2>3, SMTT(20)
  <2>5. Above(i) \subseteq Above(m) /\ i \in Above(m) /\ i \notin Above(i)
    BY <1>2, <2>4
  <2>6. Cardinality(Above(i)) < Cardinality(Above(m))
    <3>1. IsFiniteSet(Above(m)) /\ Above(i) \in SUBSET Above(m) /\ Above(i) # Above(m)
      BY <1>4, <2>5
    <3> HIDE DEF Above
    <3>2. /\ Cardinality(Above(i)) <= Cardinality(Above(m))
          /\ Cardinality(Above(i)) # Cardinality(Above(m))
      BY <3>1, FS_Subset
    <3> QED BY <1>4, <3>2
  <2>7. Cardinality(Above(m)) <= Cardinality(Above(i))
    BY <2>2, <2>3
  <2>8. Cardinality(Above(m)) \in Nat /\ Cardinality(Above(i)) \in Nat
    BY <1>4
  <2> HIDE DEF Above
  <2> QED BY <2>6, <2>7, <2>8
<1>6. PICK i \in D : /\ V[i] = V[m]
                     /\ \A j \in D : V[j] = V[m] => i <= j
  <2> DEFINE T == {j \in D : V[j] = V[m]}
  <2>1. T \in SUBSET Nat /\ T # {}
    BY <1>1
  <2>2. \E x \in T : \A y \in T : x <= y
    <3> HIDE DEF T
    <3> QED BY <2>1, LeastNat
  <2> QED BY <2>2
<1>7. /\ \A j \in D : V[j] <= V[i]
      /\ \A j \in 1 .. (i - 1) : V[j] < V[i]
  <2>1. ASSUME NEW j \in 1 .. (i - 1) PROVE V[j] < V[i]
    <3>1. j \in D /\ ~ (i <= j)
      BY <1>1
    <3>2. V[j] # V[m] /\ V[j] <= V[m]
      BY <1>5, <1>6, <3>1
    <3> QED BY <1>2, <1>6, <3>1, <3>2
  <2> QED BY <1>5, <1>6, <2>1
<1>8. \E k \in DOMAIN segs :
        /\ \A j \in DOMAIN segs : segs[j][id].ver <= segs[k][id].ver
        /\ \A j \in 1 .. (k - 1) : segs[j][id].ver < segs[k][id].ver
  <2>1. \A j \in 1 .. (i - 1) : j \in D
    BY <1>1
  <2> QED BY <1>7, <2>1
<1> QED BY <1>8 DEF Newest

\* The newest record is determined by those two facts.
LEMMA NewestUnique ==
  ASSUME NEW segs \in Seq(Segment), NEW id \in Ids, NEW k \in DOMAIN segs,
         \A j \in DOMAIN segs : segs[j][id].ver <= segs[k][id].ver,
         \A j \in 1 .. (k - 1) : segs[j][id].ver < segs[k][id].ver
  PROVE  Newest(segs, id) = k
<1> DEFINE n == Newest(segs, id)
<1>1. segs # <<>>
  OBVIOUS
<1>2. /\ n \in DOMAIN segs
      /\ \A j \in DOMAIN segs : segs[j][id].ver <= segs[n][id].ver
      /\ \A j \in 1 .. (n - 1) : segs[j][id].ver < segs[n][id].ver
  BY <1>1, NewestExists
<1>3. \A r \in Record : r.ver \in Nat
  BY DEF Record, Absent
<1>4. segs[k][id].ver \in Nat /\ segs[n][id].ver \in Nat
  BY <1>2, <1>3 DEF Segment
<1>5. segs[k][id].ver = segs[n][id].ver
  BY <1>2, <1>4
<1>6. ~ (k < n)
  BY <1>2, <1>4, <1>5
<1>7. ~ (n < k)
  BY <1>2, <1>4, <1>5
<1> QED BY <1>2, <1>6, <1>7

\* Latest selects records of the segments, so it is a segment.
LEMMA LatestType ==
  ASSUME NEW segs \in Seq(Segment)
  PROVE  Latest(segs) \in Segment
<1>1. ASSUME NEW id \in Ids, segs # <<>>
      PROVE  segs[Newest(segs, id)][id] \in Record
  <2>1. Newest(segs, id) \in DOMAIN segs
    BY <1>1, NewestExists
  <2> QED BY <2>1 DEF Segment
<1>2. Absent \in Record
  BY DEF Record
<1> QED BY <1>1, <1>2 DEF Latest, Segment

\* Selection is the scan the code writes: one segment more replaces a record
\* only if it holds a strictly newer one.
LEMMA LatestAppend ==
  ASSUME NEW segs \in Seq(Segment), NEW seg \in Segment, NEW id \in Ids
  PROVE  Latest(Append(segs, seg))[id]
           = IF seg[id].ver > Latest(segs)[id].ver THEN seg[id] ELSE Latest(segs)[id]
<1> DEFINE more == Append(segs, seg)
           last == Len(segs) + 1
<1>1. /\ more \in Seq(Segment) /\ more # <<>>
      /\ DOMAIN more = 1 .. last /\ DOMAIN segs = 1 .. Len(segs)
      /\ \A j \in DOMAIN segs : more[j] = segs[j]
      /\ more[last] = seg
      /\ Len(segs) \in Nat /\ last = Len(segs) + 1
      /\ segs = <<>> => last = 1
  OBVIOUS
<1>2. Latest(more)[id] = more[Newest(more, id)][id]
  BY <1>1 DEF Latest
<1>3. \A r \in Record : r.ver \in Nat /\ (r.ver = 0 => r = Absent)
  BY DEF Record, Absent
<1>4. seg[id] \in Record /\ \A j \in DOMAIN segs : segs[j][id] \in Record
  BY DEF Segment
<1>5. /\ seg[id].ver \in Nat
      /\ \A j \in DOMAIN segs : j \in DOMAIN more /\ segs[j][id].ver \in Nat
      /\ \A j \in DOMAIN more : j # last => j \in DOMAIN segs
      /\ \A j \in 1 .. (last - 1) : j \in DOMAIN segs
      /\ last \in DOMAIN more
      /\ \A n \in DOMAIN segs : \A j \in 1 .. (n - 1) : j \in DOMAIN segs
  <2> HIDE DEF more, last
  <2> QED BY <1>1, <1>3, <1>4
<1> SUFFICES Latest(more)[id]
               = IF seg[id].ver > Latest(segs)[id].ver THEN seg[id] ELSE Latest(segs)[id]
  OBVIOUS
<1> HIDE DEF more, last
<1>6. CASE segs = <<>>
  <2>1. Newest(more, id) = last
    <3>1. last \in DOMAIN more /\ last = 1
      BY <1>1, <1>5, <1>6
    <3>2. \A j \in DOMAIN more : more[j][id].ver <= more[last][id].ver
      BY <1>1, <1>5, <1>6
    <3> QED BY <1>1, <3>1, <3>2, NewestUnique
  <2>2. Latest(segs)[id] = Absent
    BY <1>6 DEF Latest
  <2> QED BY <1>1, <1>2, <1>3, <1>4, <2>1, <2>2 DEF Absent
<1>7. CASE segs # <<>>
  <2> DEFINE n == Newest(segs, id)
  <2>1. /\ n \in DOMAIN segs
        /\ \A j \in DOMAIN segs : segs[j][id].ver <= segs[n][id].ver
        /\ \A j \in 1 .. (n - 1) : segs[j][id].ver < segs[n][id].ver
    BY <1>7, NewestExists
  <2>2. Latest(segs)[id] = segs[n][id]
    BY <1>7 DEF Latest
  <2> HIDE DEF n
  <2>3. CASE seg[id].ver > segs[n][id].ver
    <3>1. \A j \in DOMAIN segs : more[j][id].ver < more[last][id].ver
      BY <1>1, <1>5, <2>1, <2>3
    <3>2. \A j \in DOMAIN more : more[j][id].ver <= more[last][id].ver
      <4> TAKE j \in DOMAIN more
      <4>1. CASE j = last
        BY <1>1, <1>5, <4>1
      <4>2. CASE j # last
        <5>1. j \in DOMAIN segs
          BY <1>5, <4>2
        <5> QED BY <1>1, <1>5, <3>1, <5>1
      <4> QED BY <4>1, <4>2
    <3>3. \A j \in 1 .. (last - 1) : more[j][id].ver < more[last][id].ver
      BY <1>5, <3>1
    <3>4. Newest(more, id) = last
      BY <1>1, <1>5, <3>2, <3>3, NewestUnique
    <3> QED BY <1>1, <1>2, <2>2, <2>3, <3>4
  <2>4. CASE ~ (seg[id].ver > segs[n][id].ver)
    <3>1. n \in DOMAIN more /\ more[n] = segs[n] /\ segs[n][id].ver \in Nat
      BY <1>1, <1>5, <2>1
    <3>2. \A j \in DOMAIN more : more[j][id].ver <= more[n][id].ver
      <4> TAKE j \in DOMAIN more
      <4>1. CASE j = last
        BY <1>1, <1>5, <2>4, <3>1, <4>1
      <4>2. CASE j # last
        <5>1. j \in DOMAIN segs
          BY <1>5, <4>2
        <5> QED BY <1>1, <2>1, <3>1, <5>1
      <4> QED BY <4>1, <4>2
    <3>3. ASSUME NEW j \in 1 .. (n - 1) PROVE more[j][id].ver < more[n][id].ver
      <4>1. j \in DOMAIN segs
        BY <1>5, <2>1
      <4> QED BY <1>1, <2>1, <3>1, <4>1
    <3>4. Newest(more, id) = n
      BY <1>1, <3>1, <3>2, <3>3, NewestUnique
    <3> QED BY <1>1, <1>2, <2>1, <2>2, <2>4, <3>4
  <2> QED BY <2>3, <2>4
<1> QED BY <1>6, <1>7

\* One segment is its own selection.
LEMMA LatestSingle ==
  ASSUME NEW seg \in Segment
  PROVE  Latest(<<seg>>) = seg
<1>1. ASSUME NEW id \in Ids
      PROVE  Latest(<<seg>>)[id] = seg[id]
  <2>1. <<seg>> = Append(<<>>, seg)
    OBVIOUS
  <2>2. Latest(<<>>)[id] = Absent
    BY DEF Latest
  <2>3. <<>> \in Seq(Segment)
    OBVIOUS
  <2>4. Latest(<<seg>>)[id]
          = IF seg[id].ver > Latest(<<>>)[id].ver THEN seg[id] ELSE Latest(<<>>)[id]
    BY <2>1, <2>3, LatestAppend, ZenonT(40)
  <2>5. seg[id] \in Record
    BY DEF Segment
  <2> QED BY <2>2, <2>4, <2>5 DEF Record, Absent
<1> QED BY <1>1 DEF Latest, Segment

-----------------------------------------------------------------------------
(***************************************************************************)
(* Covering a prefix of a log.                                             *)
(***************************************************************************)
\* Segments that cover a prefix, overlaid with the slice that follows it,
\* cover the longer prefix: flush, capture, recovery and reads all rest on it.
LEMMA CoversOverlay ==
  ASSUME NEW log \in Seq(Operation), NEW b \in Nat, NEW n \in b .. Len(log),
         NEW segs \in Seq(Segment), Covers(Latest(segs), log, b)
  PROVE  Covers(Latest(Append(segs, Slice(log, b, n))), log, n)
<1> n \in Nat /\ n \in 0 .. Len(log) /\ b \in 0 .. Len(log)
  OBVIOUS
<1> SUFFICES ASSUME NEW id \in Ids
             PROVE  LET rec == Slice(log, 0, n)[id]
                        all == Latest(Append(segs, Slice(log, b, n)))[id]
                    IN  all = rec \/ (rec.val = Gone /\ all = Absent)
  BY DEF Covers
<1> DEFINE old == Slice(log, 0, b)[id]
           new == Slice(log, b, n)[id]
           stored == Latest(segs)[id]
<1>1. stored = old \/ (old.val = Gone /\ stored = Absent)
  BY DEF Covers
<1>2. stored.ver \in 0 .. b
  <2>1. old = Absent \/ old.ver \in 1 .. b
    BY SliceType
  <2> QED BY <1>1, <2>1 DEF Absent
<1>3. new = Absent \/ new.ver \in (b + 1) .. n
  BY SliceType
<1>4. Latest(Append(segs, Slice(log, b, n)))[id] = IF new.ver > stored.ver THEN new ELSE stored
  <2>1. Slice(log, b, n) \in Segment
    BY SliceType
  <2> QED BY <2>1, LatestAppend
<1>5. Slice(log, 0, n)[id] = IF new.ver > 0 THEN new ELSE old
  BY SliceConcat
<1> HIDE DEF old, new, stored
<1> QED BY <1>1, <1>2, <1>3, <1>4, <1>5 DEF Absent

\* Dropping tombstones keeps what a segment covers.
LEMMA CoversDropTombstones ==
  ASSUME NEW seg \in Segment, NEW log, NEW n \in Nat, Covers(seg, log, n)
  PROVE  Covers(DropTombstones(seg), log, n)
BY DEF Covers, DropTombstones, Absent

\* What a segment covers does not depend on later records.
LEMMA CoversOfPrefix ==
  ASSUME NEW seg, NEW log, NEW other, NEW n \in Nat,
         \A k \in 1 .. n : other[k] = log[k], Covers(seg, log, n)
  PROVE  Covers(seg, other, n)
<1>1. Slice(other, 0, n) = Slice(log, 0, n)
  BY SliceOfPrefix
<1> QED BY <1>1 DEF Covers

\* A segment that covers a prefix reads as the prefix.
LEMMA CoversLive ==
  ASSUME NEW seg, NEW log, NEW n \in Nat, Covers(seg, log, n)
  PROVE  Live(seg) = Live(Slice(log, 0, n))
BY DEF Covers, Live, Absent

\* The empty segment covers the empty prefix.
LEMMA CoversNothing ==
  ASSUME NEW log
  PROVE  Covers(Latest(<<>>), log, 0)
<1>1. Slice(log, 0, 0) = EmptySegment
  BY SliceEmpty
<1>2. Latest(<<>>) = EmptySegment
  BY DEF Latest, EmptySegment
<1> QED BY <1>1, <1>2 DEF Covers
=============================================================================
