------------------------------- MODULE Search -------------------------------
(***************************************************************************)
(* What a search returns from the segments of a collection, as points are  *)
(* written, segments flushed and optimized, and payload indexes declared   *)
(* (collection.py:657-729, segment/immutable.py, query/planner.py,         *)
(* index/plain.py, topk.py, and what hnsw.py and quantization.py add).     *)
(*                                                                         *)
(* There is one query, and a vector is its score under it.  Every          *)
(* operation is one step: the locks are the subject of Collection.tla.     *)
(***************************************************************************)
EXTENDS Filters, SequencesExt

CONSTANTS Points,        \* the points written: vectors with payloads
          Declarable,    \* the indexes declared: pairs of a path and a schema
          Requests,      \* [filter, limit, exact, threshold]
          Threshold,     \* OptimizerConfig.indexing_threshold_points
          Oversampling,  \* ScalarQuantizationConfig.oversampling
          MaxVersion     \* bound: writes

ASSUME SearchAssumption ==
  /\ Ids \subseteq Int /\ Vecs \subseteq Int
  /\ Points \subseteq Value
  /\ Declarable \subseteq Paths \X Schemas
  /\ \A r \in Requests :
       r.filter \in Conditions /\ r.limit \in Nat \ {0} /\ r.threshold \in Int
  /\ Threshold \in Nat /\ Oversampling \in Nat \ {0} /\ MaxVersion \in Nat

VARIABLES
  mutable,         \* the records of the mutable segment
  mutableIndexes,  \* its payload indexes, kept up to date write by write
  segments,        \* the immutable segments: [records, schemas, stored, indexed]
  schemas,         \* the payload indexes of the collection: a schema per path
  version,         \* the sequence of the last write
  quantized        \* CollectionConfig.quantization is not None

vars == <<mutable, mutableIndexes, segments, schemas, version, quantized>>

NoSchemas == [p \in {} |-> "keyword"]

Init ==
  /\ mutable = EmptySegment
  /\ mutableIndexes = BuiltIndexes(EmptySegment, NoSchemas)
  /\ segments = <<>>
  /\ schemas = NoSchemas
  /\ version = 0
  /\ quantized \in BOOLEAN

-----------------------------------------------------------------------------
(***************************************************************************)
(* Writes reach the mutable segment and each of its indexes.               *)
(***************************************************************************)
Upsert(id, point) ==
  /\ version < MaxVersion
  /\ version' = version + 1
  /\ mutable' = ApplyRecord(mutable, [i \in {id} |-> point], version')
  /\ mutableIndexes' = [p \in DOMAIN mutableIndexes |->
                          IndexUpsert(mutableIndexes[p], id, ValuesAt(point.payload, p))]
  /\ UNCHANGED <<segments, schemas, quantized>>

Delete(id) ==
  /\ version < MaxVersion
  /\ version' = version + 1
  /\ mutable' = ApplyRecord(mutable, [i \in {id} |-> Gone], version')
  /\ mutableIndexes' = [p \in DOMAIN mutableIndexes |-> IndexDelete(mutableIndexes[p], id)]
  /\ UNCHANGED <<segments, schemas, quantized>>

-----------------------------------------------------------------------------
(***************************************************************************)
(* Segments and their indexes.  A segment is written with the schemas of   *)
(* the moment; an index declared later exists in memory only, and is not   *)
(* there for that segment once the collection is opened again.             *)
(***************************************************************************)
SegmentOf(records, indexed) ==
  [records |-> records, schemas |-> schemas, stored |-> schemas, indexed |-> indexed]

Declared(old, path, schema) ==
  [p \in DOMAIN old \cup {path} |-> IF p = path THEN schema ELSE old[p]]

CreatePayloadIndex(path, schema) ==
  /\ <<path, schema>> \in Declarable
  /\ schemas' = Declared(schemas, path, schema)
  /\ mutableIndexes' = [p \in DOMAIN schemas' |->
                          IF p = path THEN BuiltIndex(mutable, path, schema)
                          ELSE mutableIndexes[p]]
  /\ segments' = [i \in DOMAIN segments |->
                    [segments[i] EXCEPT !.schemas = Declared(@, path, schema)]]
  /\ UNCHANGED <<mutable, version, quantized>>

\* Mutant: a new mutable segment has no index.
NotIndexed == BuiltIndexes(EmptySegment, NoSchemas)

NewMutableIndexes == BuiltIndexes(EmptySegment, schemas)

Flush(indexed) ==
  /\ mutable # EmptySegment
  /\ segments' = Append(segments, SegmentOf(mutable, indexed))
  /\ mutable' = EmptySegment
  /\ mutableIndexes' = NewMutableIndexes
  /\ UNCHANGED <<schemas, version, quantized>>

Records(segs) == [i \in DOMAIN segs |-> segs[i].records]

Optimize ==
  /\ LET latest == Latest(Append(Records(segments), mutable))
     IN  segments' = <<SegmentOf(DropTombstones(latest), TRUE)>>
  /\ mutable' = EmptySegment
  /\ mutableIndexes' = NewMutableIndexes
  /\ UNCHANGED <<schemas, version, quantized>>

\* close() and open(): replay restores the mutable segment.
Reopen ==
  /\ segments' = [i \in DOMAIN segments |->
                    [segments[i] EXCEPT !.schemas = segments[i].stored]]
  /\ mutableIndexes' = BuiltIndexes(mutable, schemas)
  /\ UNCHANGED <<mutable, schemas, version, quantized>>

-----------------------------------------------------------------------------
(***************************************************************************)
(* topk.py.  A candidate that is better than the worst of a full heap      *)
(* replaces it; equal scores rank by id.                                   *)
(***************************************************************************)
Better(c, d) == c.score > d.score \/ (c.score = d.score /\ c.id < d.id)

Worst(heap) == CHOOSE c \in heap : \A d \in heap \ {c} : Better(d, c)

Offer(capacity, heap, c) ==
  IF Cardinality(heap) < capacity THEN heap \cup {c}
  ELSE IF Better(c, Worst(heap)) THEN (heap \ {Worst(heap)}) \cup {c}
  ELSE heap

TopK(capacity, candidates) ==
  FoldSet(LAMBDA c, heap : Offer(capacity, heap, c), {}, candidates)

-----------------------------------------------------------------------------
(***************************************************************************)
(* One segment.                                                            *)
(***************************************************************************)
LiveCount(seg) == Cardinality(LivePointsOf(seg.records))

\* QueryPlanner.choose.
HasHnsw(seg) == seg.indexed /\ LiveCount(seg) > 0

Strategy(seg, request, maximum) ==
  IF request.exact \/ LiveCount(seg) <= Threshold \/ ~HasHnsw(seg) THEN "exact_full_scan"
  ELSE IF request.filter # NoFilter /\ maximum <= Threshold THEN "filter_then_exact"
  ELSE IF quantized THEN "quantized_hnsw_rescore"
  ELSE IF request.filter # NoFilter THEN "filtered_hnsw"
  ELSE "hnsw"

Scored(seg, ids) ==
  {[id |-> id, score |-> seg.records[id].val.vec, ver |-> seg.records[id].ver] :
     id \in ids}

Passing(seg, ids, filter) ==
  {id \in ids : MatchesFilter(id, seg.records[id].val.payload, filter)}

Lesser(m, n) == IF m < n THEN m ELSE n

\* A graph search finds some of the live points, among them its entry point,
\* and keeps the best that are allowed; the residual is applied to those.
GraphOutcomes(seg, request, limit, found) ==
  LET breadth == IF request.filter = NoFilter THEN limit ELSE 4 * limit
      local   == Lesser(LiveCount(seg), breadth)
      best(S) == TopK(local, Scored(seg, S \cap found.ids))
      kept(S) == {c \in best(S) : c.id \in Passing(seg, found.ids, found.residual)}
  IN  {TopK(limit, kept(S)) : S \in SUBSET LivePointsOf(seg.records) \ {{}}}

\* Scores of quantized vectors pick the candidates, exact scores rank them.
QuantizedOutcomes(seg, limit, found) ==
  LET population == Passing(seg, found.ids, found.residual)
      capacity   == Lesser(LiveCount(seg), limit * Oversampling)
      taken      == Lesser(Cardinality(population), capacity)
      picked     == {S \in SUBSET population : Cardinality(S) = taken}
  IN  {TopK(limit, Scored(seg, S)) : S \in picked}

Found(seg, filter) ==
  Candidates(LivePointsOf(seg.records), BuiltIndexes(seg.records, seg.schemas), filter)

\* ImmutableSegment.search: the results it may return.
SegmentOutcomes(seg, request, limit) ==
  LET found    == Found(seg, request.filter)
      strategy == Strategy(seg, request, found.maximum)
  IN  CASE strategy \in {"exact_full_scan", "filter_then_exact"} ->
             {TopK(limit, Scored(seg, Passing(seg, found.ids, found.residual)))}
        [] strategy = "quantized_hnsw_rescore" -> QuantizedOutcomes(seg, limit, found)
        [] OTHER -> GraphOutcomes(seg, request, limit, found)

-----------------------------------------------------------------------------
(***************************************************************************)
(* The collection: a view is the immutable segments and, if it has         *)
(* records, the mutable one, which is never indexed for it.                *)
(***************************************************************************)
View ==
  IF mutable = EmptySegment THEN segments ELSE Append(segments, SegmentOf(mutable, FALSE))

Visible == Latest(Append(Records(segments), mutable))

\* _stale_live_count: the live records of a segment that a newer one hides.
Stale(seg, visible) ==
  {id \in LivePointsOf(seg.records) : visible[id].ver # seg.records[id].ver}

\* Mutant: a segment is asked for as many as the caller wants.
PlainLimit(seg, request, visible) == Lesser(LiveCount(seg), request.limit)

SegmentLimit(seg, request, visible) ==
  Lesser(LiveCount(seg), request.limit + Cardinality(Stale(seg, visible)))

\* Mutant: a candidate is taken from whichever segment returns it.
AnyVersion(c, visible) == visible[c.id].val # Gone

IsVisible(c, visible) == visible[c.id].val # Gone /\ visible[c.id].ver = c.ver

\* _search: the answers it may give.
Answers(request) ==
  LET visible == Visible
      outcomes(seg) ==
        IF LiveCount(seg) = 0 THEN {{}}
        ELSE SegmentOutcomes(seg, request, SegmentLimit(seg, request, visible))
      merged == FoldLeft(LAMBDA sets, seg : {a \cup b : a \in sets, b \in outcomes(seg)},
                         {{}}, View)
      offered(candidates) ==
        {[id |-> c.id, score |-> c.score] :
           c \in {d \in candidates : IsVisible(d, visible) /\ d.score >= request.threshold}}
  IN  {TopK(request.limit, offered(candidates)) : candidates \in merged}

-----------------------------------------------------------------------------
Next ==
  \/ \E id \in Ids : Delete(id) \/ \E point \in Points : Upsert(id, point)
  \/ \E path \in Paths, schema \in Schemas : CreatePayloadIndex(path, schema)
  \/ \E indexed \in BOOLEAN : Flush(indexed)
  \/ Optimize
  \/ Reopen

Spec == Init /\ [][Next]_vars

-----------------------------------------------------------------------------
SchemaMap == UNION {[P -> Schemas] : P \in SUBSET Paths}

\* Every variable has its type.
TypeOK ==
  /\ version \in 0 .. MaxVersion
  /\ quantized \in BOOLEAN
  /\ mutable \in Segment
  /\ schemas \in SchemaMap
  /\ DOMAIN mutableIndexes = DOMAIN schemas
  /\ \A i \in DOMAIN segments : segments[i].records \in Segment
                                /\ segments[i].schemas \in SchemaMap

\* A condition and all it is made of.
AllParts(condition) ==
  LET parts[c \in Conditions] == {c} \cup UNION {parts[p] : p \in Parts(c)}
  IN  parts[condition]

\* What the code leaves to its callers.  A filter is evaluated with ==, so that 1,
\* 1.0 and True are the same value; an index knows the values of its own type only.
\* A condition on an indexed path is safe if every value that meets it has the type
\* of the index and so has the value it asks for.
TypesAgree(values, schema, c) ==
  CASE c.kind = "match" ->
         \A v \in values :
           Equal(v, c.value) => Accepts(schema, v) /\ Accepts(schema, c.value)
    [] c.kind = "range" ->
         AnswersRanges(schema) =>
           \A v \in values : Within(v, c.bounds) => Accepts(schema, v)

WellTyped(seg, declared, filter) ==
  \A c \in AllParts(filter) :
    c.kind \in {"match", "range"} /\ c.path \in DOMAIN declared =>
      \A id \in LivePointsOf(seg) :
        TypesAgree(ValuesAt(seg[id].val.payload, c.path), declared[c.path], c)

Filters == {r.filter : r \in Requests}

\* "payload index results equal residual payload evaluation": in every segment,
\* the points an index offers for a well-typed filter and the residual lets through
\* are the live points that match the filter, whichever paths are indexed, nested
\* as the filter may be, and whether the index was built at once or write by write.
AgreesWith(seg, declared, indexes) ==
  LET live == LivePointsOf(seg)
      matching(ids, filter) ==
        {id \in ids : MatchesFilter(id, seg[id].val.payload, filter)}
  IN  \A filter \in Filters :
        WellTyped(seg, declared, filter) =>
          LET found == Candidates(live, indexes, filter)
          IN  matching(found.ids, found.residual) = matching(live, filter)

IndexesAgree ==
  /\ AgreesWith(mutable, schemas, mutableIndexes)
  /\ \A i \in DOMAIN segments :
       LET seg == segments[i]
       IN  AgreesWith(seg.records, seg.schemas, BuiltIndexes(seg.records, seg.schemas))

\* "Candidate IDs may be a superset, but they must never omit a true match"
\* (docs/tutorial/06-filtering.md:120), whatever the types: what the points an
\* index offers leave out does not match the filter.
NothingOmitted ==
  \A filter \in Filters, id \in LivePointsOf(mutable) :
    MatchesFilter(id, mutable[id].val.payload, filter) =>
      id \in Candidates(LivePointsOf(mutable), mutableIndexes, filter).ids

\* The points of the collection a request asks for, whatever segment they are in.
Wanted(request) ==
  LET visible == Visible
  IN  {[id |-> id, score |-> visible[id].val.vec] :
         id \in {i \in Ids : /\ visible[i].val # Gone
                             /\ MatchesFilter(i, visible[i].val.payload, request.filter)
                             /\ visible[i].val.vec >= request.threshold}}

BestOf(points, limit) ==
  {c \in points : Cardinality({d \in points : Better(d, c)}) < limit}

SafeFor(request) ==
  \A i \in DOMAIN View : WellTyped(View[i].records, View[i].schemas, request.filter)

Scans(request) ==
  \A i \in DOMAIN View :
    Strategy(View[i], request, Found(View[i], request.filter).maximum)
      \in {"exact_full_scan", "filter_then_exact"}

\* "exact search equals brute-force reference ordering": a search that scans
\* every segment, for a filter that is well typed there, returns the best of all
\* visible points that match, although each segment returns only its own best and
\* stale versions are among them.
ExactIsBruteForce ==
  \A r \in Requests : SafeFor(r) /\ Scans(r) => Answers(r) = {BestOf(Wanted(r), r.limit)}

\* "HNSW never returns a deleted or filter-rejected point": an approximate
\* search may miss points, but whatever it returns is asked for, at its current
\* score, and no more than the limit.
ApproximateIsSound ==
  \A r \in Requests :
    SafeFor(r) /\ ~Scans(r) =>
      LET wanted == Wanted(r)
      IN  \A answer \in Answers(r) :
            answer \subseteq wanted /\ Cardinality(answer) <= r.limit
=============================================================================
